--------------------------- MODULE ServicesProofs ---------------------------
(***************************************************************************)
(* What every state of the services is like, whatever their parameters,    *)
(* and what no step of them does.  TelegramBinding brings its invariant    *)
(* and lemmas; those of the others are here, part by part, and at the end  *)
(* the theorems about the services together.                               *)
(***************************************************************************)
EXTENDS Services, FiniteSetTheorems, WellFoundedInduction, TLAPS

-----------------------------------------------------------------------------
(* The supervisor: main of all-in-one, its services and their heartbeats.  *)

Main == [pc : {"starting", "connecting", "select", "await", "returned"},
         await : Seq(AllInOne!Services), primary : AllInOne!Services \cup {None},
             secondary : AllInOne!Services \cup {None},
         result : AllInOne!Services \cup {None, "start", "signal"}]
Beat == [state : {"none", "running", "ended", "aborted"}, waited : Nat,
         asked : Nat \cup {None}, age : Nat \cup {None}, busy : Nat, missed : Nat]

SupervisorTypes ==
    /\ main \in Main
    /\ service \in [AllInOne!Services -> {"none", "running", "ended", "failed", "aborted"}]
    /\ beat \in [Deployment.names -> Beat]
    /\ shutdown \in BOOLEAN

Awaited(s) == \E i \in DOMAIN main.await : main.await[i] = s

\* Until main returns nothing is aborted; what it has started runs or has ended.
Starting ==
    /\ main.pc = "connecting" => service[Deployment.listener] # "none"
    /\ main.pc \in {"starting", "connecting"} => \A n \in Deployment.names : beat[n].state = "none"
    /\ main.pc \in {"starting", "connecting", "select"} => main.primary = None /\ main.secondary = None
    /\ main.pc # "returned" =>
         /\ \A s \in AllInOne!Services : service[s] # "aborted"
         /\ \A n \in Deployment.names : beat[n].state # "aborted"
    /\ main.pc \in {"select", "await"} =>
         /\ \A s \in AllInOne!Services : service[s] # "none"
         /\ \A n \in Deployment.names : beat[n].state # "none"

\* What main does not await any more has ended, and the errors it keeps are real.
Awaiting ==
    main.pc = "await" =>
      /\ main.primary # None => service[main.primary] = "failed"
      /\ main.secondary # None => service[main.secondary] = "failed"
      /\ \A s \in AllInOne!Services :
           \/ Awaited(s) \/ s = main.primary
           \/ service[s] = "ended"
           \/ service[s] = "failed" /\ main.secondary # None

Returned ==
    main.pc = "returned" =>
      /\ \A s \in AllInOne!Services : service[s] # "running"
      /\ \A n \in Deployment.names : beat[n].state # "running"
      /\ main.result \in {"start", "signal"} => main.primary = None

\* A row is no older than the waits after the writes that failed since, what the
\* present one has lasted, and the time that was not spent waiting.
Aged(b) ==
    /\ b.state = "none" => b.age = None
    /\ b.waited <= Deployment.interval
    /\ b.state = "running" /\ b.age # None =>
         b.age <= b.busy + b.missed * Deployment.interval + b.waited
Ages == \A n \in Deployment.names : Aged(beat[n])

SupervisorInv ==
    SupervisorTypes /\ Starting /\ Awaiting /\ Returned /\ Ages /\ AllInOne!ResultIsTrue
        /\ AllInOne!NothingIsCutOff

LEMMA SupervisorInit ==
    ASSUME AllInOne!Assumptions, AllInOne!Init
    PROVE  SupervisorInv
<1>1. SupervisorTypes
  <2>1. <<>> \in Seq(AllInOne!Services)
    OBVIOUS
  <2>2. main \in Main
    BY <2>1 DEF AllInOne!Init, Main
  <2>3. beat \in [Deployment.names -> Beat]
    BY DEF AllInOne!Init, Beat
  <2>4. QED  BY <2>2, <2>3 DEF AllInOne!Init, SupervisorTypes
<1>2. Starting /\ Awaiting /\ Returned
  BY DEF AllInOne!Init, Starting, Awaiting, Returned
<1>5. Ages
  BY DEF AllInOne!Init, AllInOne!Assumptions, Ages, Aged
<1>3. AllInOne!ResultIsTrue /\ AllInOne!NothingIsCutOff
  BY DEF AllInOne!Init, AllInOne!ResultIsTrue, AllInOne!NothingIsCutOff
<1>4. QED  BY <1>1, <1>2, <1>3, <1>5 DEF SupervisorInv

\* A sequence without its i-th element, or its first, has all the others.
LEMMA SupervisorOthersStay ==
    ASSUME NEW S, NEW q \in Seq(S), NEW i \in DOMAIN q
    PROVE  /\ AllInOne!RemoveAt(q, i) \in Seq(S)
           /\ \A j \in DOMAIN q : j # i
                  => \E k \in DOMAIN AllInOne!RemoveAt(q, i) : AllInOne!RemoveAt(q, i)[k] = q[j]
<1> DEFINE a == SubSeq(q, 1, i - 1)
           b == SubSeq(q, i + 1, Len(q))
<1>1. /\ a \in Seq(S) /\ Len(a) = i - 1 /\ \A k \in 1..(i - 1) : a[k] = q[k]
      /\ b \in Seq(S) /\ Len(b) = Len(q) - i /\ \A k \in 1..(Len(q) - i) : b[k] = q[i + k]
  OBVIOUS
<1>2. AllInOne!RemoveAt(q, i) = a \o b
  BY DEF AllInOne!RemoveAt
<1> HIDE DEF a, b
<1>3. /\ a \o b \in Seq(S) /\ Len(a \o b) = Len(q) - 1
      /\ \A k \in 1..(i - 1) : (a \o b)[k] = q[k]
      /\ \A k \in i..(Len(q) - 1) : (a \o b)[k] = q[k + 1]
  BY <1>1
<1>4. ASSUME NEW j \in DOMAIN q, j # i  PROVE \E k \in DOMAIN (a \o b) : (a \o b)[k] = q[j]
  <2> q \in Seq(S) /\ i \in 1..Len(q) /\ j \in 1..Len(q) /\ Len(q) \in Nat
    OBVIOUS
  <2>1. CASE j < i
    <3>1. j \in 1..(i - 1) /\ j \in 1..(Len(q) - 1)
      BY <2>1
    <3>2. (a \o b)[j] = q[j]
      BY <3>1, <1>3, <1>1
    <3>3. j \in DOMAIN (a \o b)
      BY <3>1, <1>3
    <3>4. QED  BY <3>2, <3>3
  <2>2. CASE j > i
    <3>1. j - 1 \in i..(Len(q) - 1) /\ j - 1 \in 1..(Len(q) - 1) /\ (j - 1) + 1 = j
      BY <2>2
    <3>2. (a \o b)[j - 1] = q[j]
      BY <3>1, <1>3
    <3>3. j - 1 \in DOMAIN (a \o b)
      BY <3>1, <1>3
    <3>4. QED  BY <3>2, <3>3
  <2>3. QED  BY <1>4, <2>1, <2>2
<1>5. QED  BY <1>2, <1>3, <1>4

LEMMA TailStays ==
    ASSUME NEW S, NEW q \in Seq(S), q # <<>>
    PROVE  /\ Tail(q) \in Seq(S) /\ Head(q) \in S
           /\ \A j \in DOMAIN q : q[j] # Head(q) => \E k \in DOMAIN Tail(q) : Tail(q)[k] = q[j]
<1>1. Len(q) \in Nat /\ Len(q) > 0 /\ DOMAIN q = 1..Len(q) /\ Head(q) = q[1]
  OBVIOUS
<1>2. /\ Tail(q) \in Seq(S) /\ Len(Tail(q)) = Len(q) - 1
      /\ \A k \in 1..(Len(q) - 1) : Tail(q)[k] = q[k + 1]
  BY <1>1
<1>3. ASSUME NEW j \in DOMAIN q, q[j] # Head(q)
      PROVE  \E k \in DOMAIN Tail(q) : Tail(q)[k] = q[j]
  <2>1. j - 1 \in DOMAIN Tail(q) /\ Tail(q)[j - 1] = q[j]
    BY <1>1, <1>2, <1>3
  <2>2. QED  BY <2>1
<1>4. QED  BY <1>1, <1>2, <1>3

LEMMA SpawnListenerStep ==
    ASSUME AllInOne!Assumptions, SupervisorInv, AllInOne!SpawnListener
    PROVE  SupervisorInv'
<1> USE DEF SupervisorInv
<1>1. SupervisorTypes'
  BY DEF AllInOne!SpawnListener, SupervisorTypes, Main, Beat, AllInOne!Assumptions
<1>2. Starting'
  BY <1>1 DEF AllInOne!SpawnListener, SupervisorTypes, Main, Beat, Starting
<1>3. Awaiting'
  BY <1>1 DEF AllInOne!SpawnListener, SupervisorTypes, Main, Beat, Awaiting, Awaited, Starting
<1>4. Returned'
  BY <1>1 DEF AllInOne!SpawnListener, SupervisorTypes, Main, Beat, Returned, Starting
<1>5. Ages'
  BY DEF AllInOne!SpawnListener, Ages
<1>6. AllInOne!ResultIsTrue'
  BY <1>1 DEF AllInOne!SpawnListener, SupervisorTypes, Main, Beat, AllInOne!ResultIsTrue, Returned,
     Starting, AllInOne!Assumptions
<1>7. AllInOne!NothingIsCutOff'
  BY <1>1 DEF AllInOne!SpawnListener, SupervisorTypes, Main, Beat, AllInOne!NothingIsCutOff,
     Returned, Starting, AllInOne!Assumptions
<1>8. QED  BY <1>1, <1>2, <1>3, <1>4, <1>5, <1>6, <1>7

LEMMA SpawnServicesStep ==
    ASSUME AllInOne!Assumptions, SupervisorInv, AllInOne!SpawnServices
    PROVE  SupervisorInv'
<1> USE DEF SupervisorInv
<1>1. SupervisorTypes'
  <2>1. main' \in Main
    BY ZenonT(60) DEF AllInOne!SpawnServices, SupervisorTypes, Main
  <2>2. beat' \in [Deployment.names -> Beat]
    BY ZenonT(60) DEF AllInOne!SpawnServices, SupervisorTypes, Beat, AllInOne!Assumptions
  <2>3. service' \in [AllInOne!Services -> {"none", "running", "ended", "failed", "aborted"}]
    BY ZenonT(60) DEF AllInOne!SpawnServices, SupervisorTypes
  <2>4. QED  BY ZenonT(60), <2>1, <2>2, <2>3 DEF AllInOne!SpawnServices, SupervisorTypes
<1>2. Starting'
  <2>1. main'.pc = "select" /\ main'.primary = main.primary /\ main'.secondary = main.secondary
    BY ZenonT(60) DEF AllInOne!SpawnServices, SupervisorTypes, Main
  <2>2. main.primary = None /\ main.secondary = None
        /\ service[Deployment.listener] # "aborted" /\ service[Deployment.listener] # "none"
    BY ZenonT(60) DEF AllInOne!SpawnServices, Starting, AllInOne!Assumptions
  <2>3. \A n \in Deployment.names : beat'[n].state = "running"
    BY ZenonT(60) DEF AllInOne!SpawnServices, SupervisorTypes, Beat
  <2>4. \A s \in AllInOne!Services : service'[s] # "aborted" /\ service'[s] # "none"
    BY ZenonT(60), <2>2 DEF AllInOne!SpawnServices, SupervisorTypes
  <2>5. QED  BY <2>1, <2>2, <2>3, <2>4 DEF Starting
<1>3. Awaiting'
  BY ZenonT(60), <1>1 DEF AllInOne!SpawnServices, SupervisorTypes, Main, Beat, Awaiting, Awaited, Starting
<1>4. Returned'
  BY ZenonT(60), <1>1 DEF AllInOne!SpawnServices, SupervisorTypes, Main, Beat, Returned, Starting
<1>5. Ages'
  <2>1. \A n \in Deployment.names : beat[n].state = "none"
    BY ZenonT(60) DEF AllInOne!SpawnServices, Starting
  <2>2. \A n \in Deployment.names : beat'[n].age = None /\ beat'[n].state = "running"
                                      /\ beat'[n].waited = Deployment.interval
    BY ZenonT(60), <2>1 DEF AllInOne!SpawnServices, SupervisorTypes, Beat, Ages, Aged
  <2>3. QED  BY <2>2 DEF Ages, Aged, AllInOne!Assumptions
<1>6. AllInOne!ResultIsTrue'
  BY ZenonT(60), <1>1 DEF AllInOne!SpawnServices, SupervisorTypes, Main, Beat, AllInOne!ResultIsTrue, Returned,
     Starting, AllInOne!Assumptions
<1>7. AllInOne!NothingIsCutOff'
  BY ZenonT(60), <1>1 DEF AllInOne!SpawnServices, SupervisorTypes, Main, Beat, AllInOne!NothingIsCutOff,
     Returned, Starting, AllInOne!Assumptions
<1>8. QED  BY <1>1, <1>2, <1>3, <1>4, <1>5, <1>6, <1>7

LEMMA StartFailsStep ==
    ASSUME AllInOne!Assumptions, SupervisorInv, AllInOne!StartFails
    PROVE  SupervisorInv'
<1> USE DEF SupervisorInv
<1>1. SupervisorTypes'
  <2>1. <<>> \in Seq(AllInOne!Services) /\ "start" \in AllInOne!Services \cup {None, "start", "signal"}
    OBVIOUS
  <2>2. main' \in Main
    BY <2>1 DEF AllInOne!StartFails, AllInOne!Return, SupervisorTypes, Main
  <2>3. beat' \in [Deployment.names -> Beat]
    BY DEF AllInOne!StartFails, AllInOne!Return, SupervisorTypes, Beat
  <2>4. service' \in [AllInOne!Services -> {"none", "running", "ended", "failed", "aborted"}]
    BY DEF AllInOne!StartFails, AllInOne!Return, SupervisorTypes
  <2>5. QED  BY <2>2, <2>3, <2>4 DEF AllInOne!StartFails, SupervisorTypes
<1>2. Starting'
  BY <1>1 DEF AllInOne!StartFails, AllInOne!Return, SupervisorTypes, Main, Beat, Starting
<1>3. Awaiting'
  BY <1>1 DEF AllInOne!StartFails, AllInOne!Return, SupervisorTypes, Main, Beat, Awaiting, Awaited,
     Starting
<1>4. Returned'
  BY <1>1 DEF AllInOne!StartFails, AllInOne!Return, SupervisorTypes, Main, Beat, Returned, Starting
<1>5. Ages'
  BY DEF AllInOne!StartFails, AllInOne!Return, SupervisorTypes, Beat, Ages, Aged
<1>6. AllInOne!ResultIsTrue'
  BY <1>1 DEF AllInOne!StartFails, AllInOne!Return, SupervisorTypes, Main, Beat,
     AllInOne!ResultIsTrue, Returned, Starting, AllInOne!Assumptions
<1>7. AllInOne!NothingIsCutOff'
  BY <1>1 DEF AllInOne!StartFails, AllInOne!Return, SupervisorTypes, Main, Beat,
     AllInOne!NothingIsCutOff, Returned, Starting, AllInOne!Assumptions
<1>8. QED  BY <1>1, <1>2, <1>3, <1>4, <1>5, <1>6, <1>7

LEMMA ServiceFails ==
    ASSUME AllInOne!Assumptions, SupervisorInv, NEW s \in AllInOne!Services, AllInOne!Fails(s)
    PROVE  SupervisorInv'
<1> USE DEF SupervisorInv
<1>1. SupervisorTypes'
  BY DEF AllInOne!Fails, SupervisorTypes, Main, Beat, AllInOne!Assumptions
<1>2. Starting'
  BY <1>1 DEF AllInOne!Fails, SupervisorTypes, Main, Beat, Starting
<1>3. Awaiting'
  BY <1>1 DEF AllInOne!Fails, SupervisorTypes, Main, Beat, Awaiting, Awaited, Starting
<1>4. Returned'
  BY <1>1 DEF AllInOne!Fails, SupervisorTypes, Main, Beat, Returned, Starting
<1>5. Ages'
  BY DEF AllInOne!Fails, Ages
<1>6. AllInOne!ResultIsTrue'
  BY <1>1 DEF AllInOne!Fails, SupervisorTypes, Main, Beat, AllInOne!ResultIsTrue, Returned,
     Starting, AllInOne!Assumptions
<1>7. AllInOne!NothingIsCutOff'
  BY <1>1 DEF AllInOne!Fails, SupervisorTypes, Main, Beat, AllInOne!NothingIsCutOff, Returned,
     Starting, AllInOne!Assumptions
<1>8. QED  BY <1>1, <1>2, <1>3, <1>4, <1>5, <1>6, <1>7

LEMMA ServiceEnds ==
    ASSUME AllInOne!Assumptions, SupervisorInv, NEW s \in AllInOne!Services, AllInOne!Ends(s)
    PROVE  SupervisorInv'
<1> USE DEF SupervisorInv
<1>1. SupervisorTypes'
  BY DEF AllInOne!Ends, SupervisorTypes, Main, Beat, AllInOne!Assumptions
<1>2. Starting'
  BY <1>1 DEF AllInOne!Ends, SupervisorTypes, Main, Beat, Starting
<1>3. Awaiting'
  BY <1>1 DEF AllInOne!Ends, SupervisorTypes, Main, Beat, Awaiting, Awaited, Starting
<1>4. Returned'
  BY <1>1 DEF AllInOne!Ends, SupervisorTypes, Main, Beat, Returned, Starting
<1>5. Ages'
  BY DEF AllInOne!Ends, Ages
<1>6. AllInOne!ResultIsTrue'
  BY <1>1 DEF AllInOne!Ends, SupervisorTypes, Main, Beat, AllInOne!ResultIsTrue, Returned,
     Starting, AllInOne!Assumptions
<1>7. AllInOne!NothingIsCutOff'
  BY <1>1 DEF AllInOne!Ends, SupervisorTypes, Main, Beat, AllInOne!NothingIsCutOff, Returned,
     Starting, AllInOne!Assumptions
<1>8. QED  BY <1>1, <1>2, <1>3, <1>4, <1>5, <1>6, <1>7

LEMMA SignalHandlerFailsStep ==
    ASSUME AllInOne!Assumptions, SupervisorInv, AllInOne!SignalHandlerFails
    PROVE  SupervisorInv'
<1> USE DEF SupervisorInv
<1>1. SupervisorTypes'
  <2>1. <<>> \in Seq(AllInOne!Services) /\ "signal" \in AllInOne!Services \cup {None, "start", "signal"}
    OBVIOUS
  <2>2. main' \in Main
    BY <2>1 DEF AllInOne!SignalHandlerFails, AllInOne!Return, SupervisorTypes, Main
  <2>3. beat' \in [Deployment.names -> Beat]
    BY DEF AllInOne!SignalHandlerFails, AllInOne!Return, SupervisorTypes, Beat
  <2>4. service' \in [AllInOne!Services -> {"none", "running", "ended", "failed", "aborted"}]
    BY DEF AllInOne!SignalHandlerFails, AllInOne!Return, SupervisorTypes
  <2>5. QED  BY <2>2, <2>3, <2>4 DEF AllInOne!SignalHandlerFails, SupervisorTypes
<1>2. Starting'
  BY <1>1 DEF AllInOne!SignalHandlerFails, AllInOne!Return, SupervisorTypes, Main, Beat, Starting
<1>3. Awaiting'
  BY <1>1 DEF AllInOne!SignalHandlerFails, AllInOne!Return, SupervisorTypes, Main, Beat, Awaiting,
     Awaited, Starting
<1>4. Returned'
  BY <1>1 DEF AllInOne!SignalHandlerFails, AllInOne!Return, SupervisorTypes, Main, Beat, Returned,
     Starting
<1>5. Ages'
  BY DEF AllInOne!SignalHandlerFails, AllInOne!Return, SupervisorTypes, Beat, Ages, Aged
<1>6. AllInOne!ResultIsTrue'
  BY <1>1 DEF AllInOne!SignalHandlerFails, AllInOne!Return, SupervisorTypes, Main, Beat,
     AllInOne!ResultIsTrue, Returned, Starting, AllInOne!Assumptions
<1>7. AllInOne!NothingIsCutOff'
  BY <1>1 DEF AllInOne!SignalHandlerFails, AllInOne!Return, SupervisorTypes, Main, Beat,
     AllInOne!NothingIsCutOff, Returned, Starting, AllInOne!Assumptions
<1>8. QED  BY <1>1, <1>2, <1>3, <1>4, <1>5, <1>6, <1>7

LEMMA SignalStep ==
    ASSUME AllInOne!Assumptions, SupervisorInv, AllInOne!Signal
    PROVE  SupervisorInv'
<1> USE DEF SupervisorInv
<1>1. SupervisorTypes'
  <2>1. main' \in Main
    BY DEF AllInOne!Signal, AllInOne!Shutdown, SupervisorTypes, Main, AllInOne!Assumptions
  <2>2. QED  BY <2>1 DEF AllInOne!Signal, AllInOne!Shutdown, SupervisorTypes
<1>2. Starting'
  BY <1>1 DEF AllInOne!Signal, AllInOne!Shutdown, SupervisorTypes, Main, Beat, Starting
<1>3. Awaiting'
  <2>1. main'.await = Deployment.order /\ main'.primary = None /\ main'.secondary = None
            /\ service' = service
    BY DEF AllInOne!Signal, AllInOne!Shutdown, SupervisorTypes, Main, Starting
  <2>2. \A s \in AllInOne!Services : Awaited(s)'
    BY <2>1 DEF Awaited, AllInOne!Services, AllInOne!ToSet
  <2>3. QED  BY <2>1, <2>2 DEF Awaiting
<1>4. Returned'
  BY <1>1 DEF AllInOne!Signal, AllInOne!Shutdown, SupervisorTypes, Main, Beat, Returned, Starting
<1>5. Ages'
  BY DEF AllInOne!Signal, Ages
<1>6. AllInOne!ResultIsTrue'
  BY <1>1 DEF AllInOne!Signal, AllInOne!Shutdown, SupervisorTypes, Main, Beat,
     AllInOne!ResultIsTrue, Returned, Starting, AllInOne!Assumptions
<1>7. AllInOne!NothingIsCutOff'
  BY <1>1 DEF AllInOne!Signal, AllInOne!Shutdown, SupervisorTypes, Main, Beat,
     AllInOne!NothingIsCutOff, Returned, Starting, AllInOne!Assumptions
<1>8. QED  BY <1>1, <1>2, <1>3, <1>4, <1>5, <1>6, <1>7

LEMMA ServiceEndedStep ==
    ASSUME AllInOne!Assumptions, SupervisorInv, AllInOne!ServiceEnded
    PROVE  SupervisorInv'
<1> USE DEF SupervisorInv
<1> PICK i \in DOMAIN Deployment.order : service[Deployment.order[i]] = "failed"
                                             /\ AllInOne!Shutdown(Deployment.order[i], AllInOne!RemoveAt(Deployment.order, i))
  BY DEF AllInOne!ServiceEnded
<1>0. /\ Deployment.order \in Seq(AllInOne!Services) /\ Deployment.order[i] \in AllInOne!Services
             /\ AllInOne!RemoveAt(Deployment.order, i) \in Seq(AllInOne!Services)
      /\ \A j \in DOMAIN Deployment.order : j # i =>
           \E k \in DOMAIN AllInOne!RemoveAt(Deployment.order, i) : AllInOne!RemoveAt(Deployment.order, i)[k] = Deployment.order[j]
  BY SupervisorOthersStay DEF AllInOne!Assumptions
<1> PICK others : others = AllInOne!RemoveAt(Deployment.order, i)  OBVIOUS
<1> PICK s : s = Deployment.order[i]  OBVIOUS
<1>a. /\ main.pc = "select" /\ shutdown' = TRUE /\ service[s] = "failed"
      /\ main' = [main EXCEPT !.pc = "await", !.primary = s, !.await = others]
      /\ UNCHANGED <<service, beat, ticks, faults>>
  BY DEF AllInOne!ServiceEnded, AllInOne!Shutdown
<1>b. s \in AllInOne!Services /\ others \in Seq(AllInOne!Services)
  BY <1>0
<1>1. SupervisorTypes'
  <2>1. main' \in Main
    BY <1>a, <1>b DEF SupervisorTypes, Main
  <2>2. QED  BY <1>a, <2>1 DEF SupervisorTypes
<1>c. main'.pc = "await" /\ main'.await = others /\ main'.primary = s
          /\ main'.secondary = main.secondary
  BY <1>a DEF SupervisorTypes, Main
<1>2. Starting'
  BY <1>a, <1>c DEF Starting
<1>3. Awaiting'
  <2>1. \A x \in AllInOne!Services : Awaited(x)' \/ x = s
    <3> SUFFICES ASSUME NEW x \in AllInOne!Services, x # s  PROVE Awaited(x)'
      OBVIOUS
    <3>1. PICK j \in DOMAIN Deployment.order : Deployment.order[j] = x
      BY DEF AllInOne!Services, AllInOne!ToSet
    <3>2. j # i
      BY <3>1
    <3>3. \E k \in DOMAIN others : others[k] = x
      BY <1>0, <3>1, <3>2
    <3>4. QED  BY <3>3, <1>c DEF Awaited
  <2>2. main'.secondary = None
    BY <1>c, <1>a DEF Starting
  <2>3. QED  BY <2>1, <2>2, <1>a, <1>c DEF Awaiting
<1>4. Returned'
  BY <1>c DEF Returned
<1>5. Ages'
  BY <1>a DEF Ages
<1>6. AllInOne!ResultIsTrue' /\ AllInOne!NothingIsCutOff'
  BY <1>c DEF AllInOne!ResultIsTrue, AllInOne!NothingIsCutOff
<1>8. QED  BY <1>1, <1>2, <1>3, <1>4, <1>5, <1>6

LEMMA AwaitStep ==
    ASSUME AllInOne!Assumptions, SupervisorInv, AllInOne!Await
    PROVE  SupervisorInv'
<1> USE DEF SupervisorInv
<1> PICK s : s = Head(main.await)  OBVIOUS
<1> PICK rest : rest = Tail(main.await)  OBVIOUS
<1> PICK e : e = AllInOne!FirstError(s)  OBVIOUS
<1>a. /\ main.pc = "await" /\ main.await # <<>> /\ service[s] # "running"
      /\ main' = [main EXCEPT !.await = rest, !.secondary = e]
      /\ UNCHANGED <<service, shutdown, beat, ticks, faults>>
  BY DEF AllInOne!Await
<1>b. /\ main.await \in Seq(AllInOne!Services) /\ main.primary \in AllInOne!Services \cup {None}
      /\ main.secondary \in AllInOne!Services \cup {None}
  BY DEF SupervisorTypes, Main
<1>c. /\ s \in AllInOne!Services /\ rest \in Seq(AllInOne!Services)
      /\ \A j \in DOMAIN main.await : main.await[j] # s =>
           \E k \in DOMAIN rest : rest[k] = main.await[j]
  BY <1>a, <1>b, TailStays
<1>d. e \in AllInOne!Services \cup {None}
  BY <1>b, <1>c DEF AllInOne!FirstError
<1>1. SupervisorTypes'
  <2>1. main' \in Main
    BY <1>a, <1>c, <1>d DEF SupervisorTypes, Main
  <2>2. QED  BY <1>a, <2>1 DEF SupervisorTypes
<1>e. main'.pc = "await" /\ main'.await = rest /\ main'.primary = main.primary /\ main'.secondary = e
  BY <1>a DEF SupervisorTypes, Main
<1>2. Starting'
  BY <1>a, <1>e DEF Starting
<1>3. Awaiting'
  <2>1. main.secondary # None => e = main.secondary
    BY DEF AllInOne!FirstError
  <2>2. service[s] = "ended" \/ (service[s] = "failed" /\ e # None /\ (main.secondary = None => e = s))
    <3>1. service[s] \in {"ended", "failed"}
      BY <1>a, <1>c DEF SupervisorTypes, Starting
    <3>2. QED  BY <3>1, <1>c DEF AllInOne!FirstError, AllInOne!Assumptions
  <2>3. e # None => service[e] = "failed"
    BY <1>a DEF AllInOne!FirstError, Awaiting
  <2>4. ASSUME NEW x \in AllInOne!Services
        PROVE  \/ Awaited(x)' \/ x = main.primary \/ service[x] = "ended"
               \/ service[x] = "failed" /\ e # None
    <3>1. CASE x = s
      BY <3>1, <2>2
    <3>2. CASE x # s /\ Awaited(x)
      <4>1. \E k \in DOMAIN rest : rest[k] = x
        BY <3>2, <1>c DEF Awaited
      <4>2. QED  BY <4>1, <1>e DEF Awaited
    <3>3. CASE ~Awaited(x)
      BY <3>3, <1>a, <2>1 DEF Awaiting
    <3>4. QED  BY <3>1, <3>2, <3>3
  <2>5. main.primary # None => service[main.primary] = "failed"
    BY <1>a DEF Awaiting
  <2>6. QED  BY <2>3, <2>4, <2>5, <1>a, <1>e DEF Awaiting
<1>4. Returned'
  BY <1>e DEF Returned
<1>5. Ages'
  BY <1>a DEF Ages
<1>6. AllInOne!ResultIsTrue' /\ AllInOne!NothingIsCutOff'
  BY <1>e DEF AllInOne!ResultIsTrue, AllInOne!NothingIsCutOff
<1>8. QED  BY <1>1, <1>2, <1>3, <1>4, <1>5, <1>6

LEMMA FinishStep ==
    ASSUME AllInOne!Assumptions, SupervisorInv, AllInOne!Finish
    PROVE  SupervisorInv'
<1> USE DEF SupervisorInv
<1> PICK r : r = AllInOne!Preserved(main.primary, main.secondary)  OBVIOUS
<1>a. /\ main.pc = "await" /\ main.await = <<>> /\ AllInOne!HeartbeatsEnded /\ AllInOne!Return(r)
      /\ UNCHANGED <<shutdown, ticks, faults>>
  BY DEF AllInOne!Finish
<1>b. /\ main.primary \in AllInOne!Services \cup {None} /\ main.secondary \in AllInOne!Services
             \cup {None}
      /\ r = (IF main.primary = None THEN main.secondary ELSE main.primary)
  BY DEF SupervisorTypes, Main, AllInOne!Preserved
<1>c. /\ \A s \in AllInOne!Services : s = main.primary \/ service[s] = "ended"
                                      \/ (service[s] = "failed" /\ main.secondary # None)
      /\ main.primary # None => service[main.primary] = "failed"
      /\ main.secondary # None => service[main.secondary] = "failed"
  BY <1>a DEF Awaiting, Awaited
<1>d. \A s \in AllInOne!Services : service[s] \in {"ended", "failed"}
  BY <1>c, <1>b DEF AllInOne!Assumptions
<1>e. /\ service' = service
  <2>1. service' = [s \in AllInOne!Services |-> service[s]]
    BY <1>a, <1>d DEF AllInOne!Return
  <2>2. QED  BY <2>1 DEF SupervisorTypes
<1>f. \A n \in Deployment.names : beat[n].state = "ended"
  BY <1>a DEF AllInOne!HeartbeatsEnded, Starting, SupervisorTypes, Beat
<1>g. beat' = beat
  <2>1. beat' = [n \in Deployment.names |-> beat[n]]
    BY <1>a, <1>f DEF AllInOne!Return
  <2>2. QED  BY <2>1 DEF SupervisorTypes
<1>h. /\ main' = [main EXCEPT !.pc = "returned", !.await = <<>>, !.result = r]
      /\ main'.pc = "returned" /\ main'.result = r /\ main'.primary = main.primary
  BY <1>a DEF AllInOne!Return, SupervisorTypes, Main
<1>1. SupervisorTypes'
  <2>1. <<>> \in Seq(AllInOne!Services) /\ r \in AllInOne!Services \cup {None, "start", "signal"}
    BY <1>b
  <2>2. main' \in Main
    BY <2>1, <1>h DEF SupervisorTypes, Main
  <2>3. QED  BY <2>2, <1>a, <1>e, <1>g DEF SupervisorTypes
<1>2. Starting' /\ Awaiting'
  BY <1>h DEF Starting, Awaiting
<1>4. Returned'
  <2>1. r \notin {"start", "signal"}
    BY <1>b DEF AllInOne!Assumptions
  <2>2. QED  BY <2>1, <1>h, <1>d, <1>e, <1>f, <1>g DEF Returned
<1>5. Ages'
  BY <1>g DEF Ages
<1>6. AllInOne!ResultIsTrue'
  <2>1. r = None => \A s \in AllInOne!Services : service[s] = "ended"
    BY <1>b, <1>c DEF AllInOne!Assumptions
  <2>2. r \in AllInOne!Services => service[r] = "failed"
    BY <1>b, <1>c DEF AllInOne!Assumptions
  <2>3. main.primary # None => r = main.primary
    BY <1>b
  <2>4. QED  BY <2>1, <2>2, <2>3, <1>h, <1>e DEF AllInOne!ResultIsTrue
<1>7. AllInOne!NothingIsCutOff'
  BY <1>d, <1>e, <1>f, <1>g DEF AllInOne!NothingIsCutOff
<1>8. QED  BY <1>1, <1>2, <1>4, <1>5, <1>6, <1>7

\* A step of one heartbeat task that runs and leaves the others alone.
LEMMA HeartbeatMoves ==
    ASSUME AllInOne!Assumptions, SupervisorInv, NEW n \in Deployment.names, NEW b \in Beat,
           beat[n].state = "running", b.state \in {"running", "ended"}, Aged(b),
           beat' = [beat EXCEPT ![n] = b], UNCHANGED <<main, service, shutdown>>
    PROVE  SupervisorInv'
<1> USE DEF SupervisorInv
<1>a. /\ beat \in [Deployment.names -> Beat] /\ beat' \in [Deployment.names -> Beat]
      /\ beat'[n] = b /\ \A m \in Deployment.names \ {n} : beat'[m] = beat[m]
  BY DEF SupervisorTypes
<1>b. main.pc \notin {"starting", "connecting", "returned"}
  BY DEF Starting, Returned
<1>1. SupervisorTypes'
  BY <1>a DEF SupervisorTypes
<1>2. Starting'
  BY <1>a, <1>b DEF Starting
<1>3. Awaiting'
  BY DEF Awaiting, Awaited
<1>4. Returned'
  BY <1>b DEF Returned
<1>5. Ages'
  BY <1>a DEF Ages, Aged
<1>6. AllInOne!ResultIsTrue' /\ AllInOne!NothingIsCutOff'
  BY <1>b DEF AllInOne!ResultIsTrue, AllInOne!NothingIsCutOff
<1>7. QED  BY <1>1, <1>2, <1>3, <1>4, <1>5, <1>6

\* After a write the wait begins.
LEMMA WriteReturns ==
    ASSUME AllInOne!Assumptions, shutdown \in BOOLEAN, NEW b \in Beat
    PROVE  LET c == AllInOne!AfterWrite(b)
           IN /\ c \in Beat /\ c.state \in {"running", "ended"} /\ c.waited = 0
              /\ c.age = b.age /\ c.busy = b.busy /\ c.missed = b.missed
BY DEF AllInOne!AfterWrite, Beat

\* One more failed write makes one more interval.
LEMMA OneMoreInterval ==
    ASSUME NEW m \in Nat, NEW i \in Nat
    PROVE  (m + 1) * i = m * i + i /\ m * i \in Nat
OBVIOUS

LEMMA BeginWriteStep ==
    ASSUME AllInOne!Assumptions, SupervisorInv, NEW n \in Deployment.names, AllInOne!BeginWrite(n)
    PROVE  SupervisorInv'
<1> PICK b : b = [beat[n] EXCEPT !.asked = 0]  OBVIOUS
<1>1. beat[n] \in Beat /\ beat[n].state = "running" /\ Aged(beat[n])
  BY DEF AllInOne!BeginWrite, SupervisorInv, SupervisorTypes, Ages
<1>2. b \in Beat /\ b.state = "running"
  BY <1>1 DEF Beat
<1>3. Aged(b)
  BY <1>1 DEF Beat, Aged
<1>4. beat' = [beat EXCEPT ![n] = b] /\ UNCHANGED <<main, service, shutdown>>
  BY DEF AllInOne!BeginWrite
<1>5. QED  BY <1>1, <1>2, <1>3, <1>4, HeartbeatMoves

\* The new row is as old as its write is long.
LEMMA WriteBeatStep ==
    ASSUME AllInOne!Assumptions, SupervisorInv, NEW n \in Deployment.names, AllInOne!WriteBeat(n)
    PROVE  SupervisorInv'
<1> PICK a : a = [beat[n] EXCEPT !.age = beat[n].asked, !.busy = beat[n].asked, !.missed = 0]
  OBVIOUS
<1> PICK b : b = AllInOne!AfterWrite(a)  OBVIOUS
<1>1. beat[n] \in Beat /\ beat[n].state = "running" /\ beat[n].asked \in Nat /\ shutdown \in BOOLEAN
  BY DEF AllInOne!WriteBeat, SupervisorInv, SupervisorTypes, Beat
<1>2. a \in Beat /\ a.age = a.busy /\ a.missed = 0
  BY <1>1 DEF Beat
<1>3. /\ b \in Beat /\ b.state \in {"running", "ended"} /\ b.waited = 0
      /\ b.age = b.busy /\ b.missed = 0
  BY <1>1, <1>2, WriteReturns
<1>4. Aged(b)
  <2>1. b.missed * Deployment.interval = 0 /\ b.busy \in Nat
    BY <1>3 DEF AllInOne!Assumptions, Beat
  <2>2. QED  BY <1>3, <2>1 DEF Aged, AllInOne!Assumptions
<1>5. beat' = [beat EXCEPT ![n] = b] /\ UNCHANGED <<main, service, shutdown>>
  BY ZenonT(60) DEF AllInOne!WriteBeat
<1>6. QED  BY <1>1, <1>3, <1>4, <1>5, HeartbeatMoves

\* One more wait is accounted for by one more failed write.
LEMMA WriteFailsStep ==
    ASSUME AllInOne!Assumptions, SupervisorInv, NEW n \in Deployment.names, AllInOne!WriteFails(n)
    PROVE  SupervisorInv'
<1> PICK a : a = [beat[n] EXCEPT !.missed = @ + 1]  OBVIOUS
<1> PICK b : b = AllInOne!AfterWrite(a)  OBVIOUS
<1>1. /\ beat[n] \in Beat /\ beat[n].state = "running" /\ shutdown \in BOOLEAN
      /\ Aged(beat[n])
  BY DEF AllInOne!WriteFails, SupervisorInv, SupervisorTypes, Ages
<1>2. a \in Beat /\ a.age = beat[n].age /\ a.busy = beat[n].busy /\ a.missed = beat[n].missed + 1
  BY <1>1 DEF Beat
<1>3. /\ b \in Beat /\ b.state \in {"running", "ended"} /\ b.waited = 0
      /\ b.age = beat[n].age /\ b.busy = beat[n].busy /\ b.missed = beat[n].missed + 1
  BY <1>1, <1>2, WriteReturns
<1>4. Aged(b)
  <2> beat[n].missed \in Nat /\ Deployment.interval \in Nat
    BY <1>1 DEF Beat, AllInOne!Assumptions
  <2>1. (beat[n].missed + 1) * Deployment.interval
          = beat[n].missed * Deployment.interval + Deployment.interval
    BY OneMoreInterval
  <2>2. beat[n].missed * Deployment.interval \in Nat
    BY OneMoreInterval
  <2>3. /\ beat[n].waited \in Nat /\ beat[n].busy \in Nat /\ beat[n].age \in Nat \cup {None}
        /\ Deployment.interval \in Nat /\ beat[n].waited <= Deployment.interval
        /\ beat[n].age # None =>
             beat[n].age <= beat[n].busy + beat[n].missed * Deployment.interval + beat[n].waited
    BY <1>1 DEF Beat, Aged, AllInOne!Assumptions
  <2>4. b.age # None => b.age <= b.busy + b.missed * Deployment.interval + b.waited
    BY <1>3, <2>1, <2>2, <2>3
  <2>5. QED  BY <1>3, <2>3, <2>4 DEF Aged
<1>5. beat' = [beat EXCEPT ![n] = b] /\ UNCHANGED <<main, service, shutdown>>
  BY ZenonT(60) DEF AllInOne!WriteFails
<1>6. QED  BY <1>1, <1>3, <1>4, <1>5, HeartbeatMoves

\* A tick makes a row older by one, and either its task has waited or was busy one more.
LEMMA TickStep ==
    ASSUME AllInOne!Assumptions, SupervisorInv, AllInOne!Tick
    PROVE  SupervisorInv'
<1> USE DEF SupervisorInv
<1>a. /\ beat' = [n \in Deployment.names |-> AllInOne!Later(beat[n])]
      /\ UNCHANGED <<main, service, shutdown>>
  BY ZenonT(60) DEF AllInOne!Tick
<1>b. ASSUME NEW b \in Beat, Aged(b)
      PROVE  /\ AllInOne!Later(b) \in Beat /\ AllInOne!Later(b).state = b.state
             /\ Aged(AllInOne!Later(b))
  <2> PICK c : c = AllInOne!Later(b)  OBVIOUS
  <2>1. /\ AllInOne!Older(b.age) \in Nat \cup {None} /\ AllInOne!Older(b.asked) \in Nat \cup {None}
        /\ b.waited + 1 \in Nat /\ b.busy + 1 \in Nat
        /\ b.missed * Deployment.interval \in Nat /\ Deployment.interval \in Nat
    BY DEF Beat, AllInOne!Older, AllInOne!Assumptions
  <2>2. /\ c \in Beat /\ c.state = b.state /\ c.missed = b.missed /\ c.age = AllInOne!Older(b.age)
        /\ c.waited = IF b.state = "running" /\ AllInOne!Waits(b) THEN b.waited + 1 ELSE b.waited
        /\ c.busy = IF b.state = "running" /\ ~AllInOne!Waits(b) THEN b.busy + 1 ELSE b.busy
    BY <2>1 DEF AllInOne!Later, Beat
  <2>3. c.waited <= Deployment.interval
    BY <1>b, <2>1, <2>2 DEF Aged, Beat, AllInOne!Waits
  <2>4. c.state = "none" => c.age = None
    BY <1>b, <2>2 DEF Aged, AllInOne!Older
  <2>5. ASSUME c.state = "running", c.age # None
        PROVE  c.age <= c.busy + c.missed * Deployment.interval + c.waited
    <3> PICK k : k = b.missed * Deployment.interval  OBVIOUS
    <3>1. b.age \in Nat /\ c.age = b.age + 1 /\ b.age <= b.busy + k + b.waited
      BY <1>b, <2>2, <2>5 DEF Aged, AllInOne!Older, Beat
    <3>2. k \in Nat /\ b.busy \in Nat /\ b.waited \in Nat
      BY <2>1 DEF Beat
    <3>3. \/ c.waited = b.waited + 1 /\ c.busy = b.busy
          \/ c.waited = b.waited /\ c.busy = b.busy + 1
      BY <2>2, <2>5
    <3>4. c.age <= c.busy + k + c.waited
      BY <3>1, <3>2, <3>3
    <3>5. QED  BY <3>4, <2>2
  <2>6. QED  BY <2>2, <2>3, <2>4, <2>5 DEF Aged
<1>c. \A n \in Deployment.names :
         beat'[n] \in Beat /\ beat'[n].state = beat[n].state /\ Aged(beat'[n])
  <2>1. \A n \in Deployment.names : beat[n] \in Beat /\ Aged(beat[n])
    BY DEF SupervisorTypes, Ages
  <2>2. QED  BY ZenonT(60), <1>a, <1>b, <2>1
<1>1. SupervisorTypes'
  <2>1. beat' \in [Deployment.names -> Beat]
    BY ZenonT(60), <1>a, <1>c
  <2>2. QED  BY ZenonT(60), <2>1, <1>a DEF SupervisorTypes
<1>2. Starting' /\ Returned'
  BY ZenonT(60), <1>a, <1>c DEF Starting, Returned
<1>3. Awaiting'
  BY ZenonT(60), <1>a DEF Awaiting, Awaited
<1>5. Ages'
  BY <1>c DEF Ages, Aged
<1>6. AllInOne!ResultIsTrue' /\ AllInOne!NothingIsCutOff'
  BY ZenonT(60), <1>a, <1>c DEF AllInOne!ResultIsTrue, AllInOne!NothingIsCutOff
<1>8. QED  BY <1>1, <1>2, <1>3, <1>5, <1>6

LEMMA SupervisorStep ==
    ASSUME AllInOne!Assumptions, SupervisorInv, AllInOne!Next
    PROVE  SupervisorInv'
<1>1. CASE AllInOne!SpawnListener \/ AllInOne!SpawnServices \/ AllInOne!ServiceEnded
               \/ AllInOne!Await \/ AllInOne!Finish
  BY <1>1, SpawnListenerStep, SpawnServicesStep, ServiceEndedStep, AwaitStep, FinishStep
<1>2. CASE AllInOne!StartFails \/ AllInOne!SignalHandlerFails \/ AllInOne!Signal \/ AllInOne!Tick
  BY <1>2, StartFailsStep, SignalHandlerFailsStep, SignalStep, TickStep
<1>3. CASE \E s \in AllInOne!Services : AllInOne!Fails(s) \/ AllInOne!Ends(s)
  BY <1>3, ServiceFails, ServiceEnds
<1>4. CASE \E n \in Deployment.names : AllInOne!HeartbeatStep(n)
  BY <1>4, BeginWriteStep, WriteBeatStep, WriteFailsStep DEF AllInOne!HeartbeatStep
<1>5. QED  BY <1>1, <1>2, <1>3, <1>4 DEF AllInOne!Next, AllInOne!MainStep

LEMMA SupervisorStutter ==
    ASSUME SupervisorInv, UNCHANGED AllInOne!vars
    PROVE  SupervisorInv'
BY DEF SupervisorInv, AllInOne!vars, SupervisorTypes, Starting, Awaiting, Awaited, Returned, Ages,
   Aged, AllInOne!ResultIsTrue, AllInOne!NothingIsCutOff, AllInOne!HeartbeatsEnded

LEMMA SupervisorTells ==
    ASSUME AllInOne!Assumptions, SupervisorInv
    PROVE  AllInOne!TypeOK /\ AllInOne!ResultIsTrue /\ AllInOne!NothingIsCutOff
               /\ AllInOne!StaleMeansMissedWrites
<1>1. AllInOne!TypeOK
  BY DEF SupervisorInv, SupervisorTypes, Main, Beat, AllInOne!TypeOK
<1>2. ASSUME NEW n \in Deployment.names, beat[n].state = "running", AllInOne!IsStale(n)
      PROVE  (beat[n].missed + 1) * Deployment.interval + beat[n].busy > Deployment.staleAfter
  <2> PICK k : k = beat[n].missed * Deployment.interval  OBVIOUS
  <2>1. /\ beat[n] \in Beat /\ Aged(beat[n]) /\ beat[n].age # None
        /\ beat[n].age > Deployment.staleAfter
    BY <1>2 DEF SupervisorInv, SupervisorTypes, Ages, AllInOne!IsStale
  <2>2. /\ beat[n].age \in Nat /\ beat[n].busy \in Nat /\ beat[n].waited \in Nat /\ k \in Nat
        /\ Deployment.interval \in Nat /\ Deployment.staleAfter \in Nat
    BY <2>1 DEF Beat, AllInOne!Assumptions
  <2>3. beat[n].age <= beat[n].busy + k + beat[n].waited /\ beat[n].waited <= Deployment.interval
    BY <1>2, <2>1 DEF Aged
  <2>4. (beat[n].missed + 1) * Deployment.interval = k + Deployment.interval
    <3>1. beat[n].missed \in Nat
      BY <2>1 DEF Beat
    <3>2. QED  BY <2>2, <3>1, OneMoreInterval
  <2>5. QED  BY <2>1, <2>2, <2>3, <2>4
<1>3. QED  BY <1>1, <1>2 DEF AllInOne!StaleMeansMissedWrites, SupervisorInv

-----------------------------------------------------------------------------
(* The wake-up queue: one signal at most, and none missing that is needed. *)

Entries == {"wake", "legacy"}

WakeTypes ==
    /\ Wake!TypeOK
    /\ list \in Seq(Entries)
    /\ producer \in [Woken.producers -> {"idle", "signal"}]

SignalsAreOne == \A i, j \in DOMAIN list : list[i] = "wake" /\ list[j] = "wake" => i = j

WakeInv == WakeTypes /\ SignalsAreOne /\ Wake!NobodySleepsThroughAJob

LEMMA WakeInit ==
    ASSUME Wake!Assumptions, Wake!Init
    PROVE  WakeInv
<1>1. PICK n \in 0..Woken.legacy : list = [i \in 1..n |-> "legacy"]
  BY DEF Wake!Init
<1>2. list \in Seq(Entries) /\ \A i \in DOMAIN list : list[i] = "legacy"
  BY <1>1 DEF Wake!Assumptions, Entries
<1>3. WakeTypes
  <2>1. made \in 0..Woken.maxJobs /\ due \in 0..made
    BY DEF Wake!Assumptions, Wake!Init
  <2>2. QED  BY <1>2, <2>1 DEF Wake!Init, WakeTypes, Wake!TypeOK
<1>4. SignalsAreOne
  BY <1>2 DEF SignalsAreOne
<1>5. QED  BY <1>3, <1>4 DEF WakeInv, Wake!Init, Wake!NobodySleepsThroughAJob

\* What a push and a pop leave of the list.
LEMMA PushKeeps ==
    ASSUME list \in Seq(Entries), SignalsAreOne
    PROVE  /\ Wake!Pushed \in Seq(Entries)
           /\ \A i, j \in DOMAIN Wake!Pushed : Wake!Pushed[i] = "wake" /\ Wake!Pushed[j] = "wake"
                  => i = j
           /\ \E i \in DOMAIN Wake!Pushed : Wake!Pushed[i] = "wake"
<1>1. CASE \E i \in DOMAIN list : list[i] = "wake"
  BY <1>1 DEF Wake!Pushed, SignalsAreOne
<1>2. CASE \A i \in DOMAIN list : list[i] # "wake"
  <2> PICK q : q = <<"wake">> \o list  OBVIOUS
  <2>1. Wake!Pushed = q
    BY <1>2 DEF Wake!Pushed
  <2>2. <<"wake">> \in Seq(Entries) /\ Len(<<"wake">>) = 1 /\ <<"wake">>[1] = "wake"
    BY DEF Entries
  <2>3. /\ q \in Seq(Entries) /\ Len(q) = 1 + Len(list) /\ Len(list) \in Nat
        /\ q[1] = "wake" /\ \A i \in 2..Len(q) : q[i] = list[i - 1]
    BY <2>2
  <2>4. \A i \in DOMAIN q : q[i] = "wake" => i = 1
    <3> SUFFICES ASSUME NEW i \in DOMAIN q, i # 1  PROVE q[i] # "wake"
      OBVIOUS
    <3>1. i \in 2..Len(q) /\ i - 1 \in DOMAIN list
      BY <2>3
    <3>2. QED  BY <3>1, <2>3, <1>2
  <2>5. 1 \in DOMAIN q
    BY <2>3
  <2>6. QED  BY <2>1, <2>3, <2>4, <2>5
<1>3. QED  BY <1>1, <1>2

LEMMA PopKeeps ==
    ASSUME list \in Seq(Entries), SignalsAreOne, list # <<>>,
           NEW q, q = SubSeq(list, 1, Len(list) - 1)
    PROVE  /\ q \in Seq(Entries)
           /\ \A i, j \in DOMAIN q : q[i] = "wake" /\ q[j] = "wake" => i = j
<1>1. Len(list) \in Nat /\ Len(list) > 0 /\ DOMAIN list = 1..Len(list)
  OBVIOUS
<1>2. q \in Seq(Entries) /\ Len(q) = Len(list) - 1 /\ \A i \in 1..(Len(list) - 1) : q[i] = list[i]
  BY <1>1
<1>3. \A i \in DOMAIN q : i \in DOMAIN list /\ q[i] = list[i]
  BY <1>1, <1>2
<1>4. QED  BY <1>2, <1>3 DEF SignalsAreOne

LEMMA ProducersKeep ==
    ASSUME Wake!Assumptions, WakeInv,
           Wake!JobFallsDue \/ \E p \in Woken.producers : Wake!CommitJob(p) \/ Wake!Signal(p)
               \/ Wake!SignalFails(p)
    PROVE  WakeInv'
<1> USE DEF WakeInv, WakeTypes
<1>1. CASE Wake!JobFallsDue
  BY <1>1 DEF Wake!JobFallsDue, Wake!TypeOK, SignalsAreOne, Wake!NobodySleepsThroughAJob,
     Wake!Assumptions
<1>2. ASSUME NEW p \in Woken.producers, Wake!CommitJob(p)  PROVE WakeInv'
  <2>1. WakeTypes'
    BY <1>2 DEF Wake!CommitJob, Wake!TypeOK, Wake!Assumptions
  <2>2. producer'[p] = "signal"
    BY <1>2 DEF Wake!CommitJob
  <2>3. QED  BY <1>2, <2>1, <2>2 DEF Wake!CommitJob, SignalsAreOne, Wake!NobodySleepsThroughAJob
<1>3. ASSUME NEW p \in Woken.producers, Wake!Signal(p)  PROVE WakeInv'
  <2>1. /\ list' \in Seq(Entries)
        /\ \A i, j \in DOMAIN list' : list'[i] = "wake" /\ list'[j] = "wake" => i = j
        /\ \E i \in DOMAIN list' : list'[i] = "wake"
    <3>1. list' = Wake!Pushed
      BY <1>3 DEF Wake!Signal
    <3>2. QED  BY <3>1, PushKeeps
  <2>2. Wake!TypeOK'
    BY <1>3 DEF Wake!Signal, Wake!TypeOK
  <2>3. producer' \in [Woken.producers -> {"idle", "signal"}]
    BY <1>3 DEF Wake!Signal
  <2>4. WakeTypes'
    BY <2>1, <2>2, <2>3
  <2>5. QED  BY <2>1, <2>4 DEF SignalsAreOne, Wake!NobodySleepsThroughAJob
<1>4. ASSUME NEW p \in Woken.producers, Wake!SignalFails(p)  PROVE WakeInv'
  BY <1>4 DEF Wake!SignalFails, Wake!TypeOK, SignalsAreOne, Wake!NobodySleepsThroughAJob
<1>5. QED  BY <1>1, <1>2, <1>3, <1>4

LEMMA WorkersKeep ==
    ASSUME Wake!Assumptions, WakeInv,
           NEW w \in Woken.workers, Wake!WorkerStep(w) \/ Wake!Pauses(w) \/ Wake!Dies(w)
    PROVE  WakeInv'
<1> USE DEF WakeInv, WakeTypes
<1>1. CASE Wake!Claim(w)
  <2>1. WakeTypes'
    <3>1. made \in Nat /\ due \in 0..made
              /\ worker \in [Woken.workers -> {"claim", "wait", "pause", "work", "down"}]
      BY DEF Wake!TypeOK, Wake!Assumptions
    <3>2. due' \in 0..made' /\ made' = made
      BY <1>1, <3>1 DEF Wake!Claim
    <3>3. quiet' \in BOOLEAN
              /\ worker' \in [Woken.workers -> {"claim", "wait", "pause", "work", "down"}]
      BY <1>1, <3>1 DEF Wake!Claim, Wake!TypeOK
    <3>4. QED  BY <1>1, <3>2, <3>3 DEF Wake!Claim, Wake!TypeOK
  <2>2. SignalsAreOne'
    BY <1>1 DEF Wake!Claim, SignalsAreOne
  <2>3. Wake!NobodySleepsThroughAJob'
    <3>1. CASE due > 0
      <4>1. worker'[w] # "wait"
        BY <1>1, <3>1 DEF Wake!Claim, Wake!TypeOK
      <4>2. QED  BY <4>1 DEF Wake!NobodySleepsThroughAJob
    <3>2. CASE ~(due > 0)
      BY <1>1, <3>2 DEF Wake!Claim, Wake!NobodySleepsThroughAJob
    <3>3. QED  BY <3>1, <3>2
  <2>4. QED  BY <2>1, <2>2, <2>3
<1>2. CASE Wake!Pop(w)
  <2>1. /\ list' \in Seq(Entries)
        /\ \A i, j \in DOMAIN list' : list'[i] = "wake" /\ list'[j] = "wake" => i = j
    BY <1>2, PopKeeps DEF Wake!Pop
  <2>2. WakeTypes' /\ worker'[w] # "wait"
    BY <1>2, <2>1 DEF Wake!Pop, Wake!TypeOK, Wake!AfterPop
  <2>3. QED  BY <2>1, <2>2 DEF SignalsAreOne, Wake!NobodySleepsThroughAJob
<1>3. CASE Wake!Work(w) \/ Wake!Timeout(w) \/ Wake!Resumes(w) \/ Wake!Restarts(w) \/ Wake!Pauses(w)
  <2>1. PICK s \in {"claim", "pause"} :
          worker' = [worker EXCEPT ![w] = s] /\ UNCHANGED <<made, due, list, producer, quiet>>
    BY <1>3 DEF Wake!Work, Wake!Timeout, Wake!Resumes, Wake!Restarts, Wake!Pauses
  <2>2. WakeTypes' /\ worker'[w] # "wait"
    BY <2>1 DEF Wake!TypeOK
  <2>3. SignalsAreOne'
    BY <2>1 DEF SignalsAreOne
  <2>4. QED  BY <2>2, <2>3 DEF Wake!NobodySleepsThroughAJob
<1>4. CASE Wake!Dies(w)
  <2>1. WakeTypes' /\ worker'[w] # "wait"
    BY <1>4 DEF Wake!Dies, Wake!TypeOK
  <2>2. SignalsAreOne'
    BY <1>4 DEF Wake!Dies, SignalsAreOne
  <2>3. QED  BY <2>1, <2>2 DEF Wake!NobodySleepsThroughAJob
<1>5. QED  BY <1>1, <1>2, <1>3, <1>4 DEF Wake!WorkerStep

LEMMA WakeStep ==
    ASSUME Wake!Assumptions, WakeInv, Wake!Next
    PROVE  WakeInv'
BY ProducersKeep, WorkersKeep DEF Wake!Next

LEMMA WakeStutter ==
    ASSUME WakeInv, UNCHANGED Wake!vars
    PROVE  WakeInv'
BY DEF WakeInv, WakeTypes, Wake!TypeOK, SignalsAreOne, Wake!NobodySleepsThroughAJob, Wake!vars

LEMMA WakeTells ==
    ASSUME WakeInv
    PROVE  Wake!TypeOK /\ Wake!OneSignalAtMost /\ Wake!NobodySleepsThroughAJob
<1> DEFINE S == {i \in DOMAIN list : list[i] = "wake"}
<1>1. \A i, j \in S : i = j
  BY DEF WakeInv, SignalsAreOne
<1>2. Cardinality(S) <= 1
  <2>1. CASE S = {}
    BY <2>1, FS_EmptySet
  <2>2. CASE S # {}
    <3>1. PICK x \in S : TRUE
      BY <2>2
    <3>2. S = {x}
      BY <3>1, <1>1
    <3>3. QED  BY <3>2, FS_Singleton
  <2>3. QED  BY <2>1, <2>2
<1>3. Wake!Cardinality(S) = Cardinality(S)
  BY DEF Wake!Cardinality, Cardinality, Wake!IsFiniteSet, IsFiniteSet
<1>4. QED  BY <1>2, <1>3 DEF WakeInv, WakeTypes, Wake!OneSignalAtMost

-----------------------------------------------------------------------------
(* What the external senders make of an answer.                            *)

\* There are no steps: what holds of every exchange holds initially.
AnswersInv == Answer!OutcomeIsAllowed /\ Answer!SuccessIsSeen

LEMMA AnswersInit ==
    ASSUME Answer!Init
    PROVE  AnswersInv
<1>1. /\ exchange.request \in {"sendMessage", "getMe", "webhook"}
      /\ exchange.ready \in BOOLEAN /\ exchange.done \in BOOLEAN
      /\ exchange.answer \in Answer!Answers /\ Answer!Possible(exchange)
  BY DEF Answer!Init
<1> PICK r : r = exchange.request  OBVIOUS
<1> PICK a : a = exchange.answer  OBVIOUS
<1>2. CASE ~exchange.ready
  BY <1>1, <1>2 DEF AnswersInv, Answer!OutcomeIsAllowed, Answer!SuccessIsSeen, Answer!Outcome,
     Answer!Possible
<1>3. CASE exchange.ready /\ a = None
  BY <1>1, <1>3 DEF AnswersInv, Answer!OutcomeIsAllowed, Answer!SuccessIsSeen, Answer!Outcome,
     Answer!Possible, Answer!Whole
<1>4. CASE exchange.ready /\ a # None
  <2>1. /\ a.code \in Answer!Codes /\ a.body \in Answer!Bodies /\ a.code \in Nat
        /\ a.body.ok \in BOOLEAN /\ a.body.id \in BOOLEAN
    BY <1>1, <1>4 DEF Answer!Answers, Answer!Bodies, Answer!Codes
  <2>2. /\ exchange.done => Answer!Whole(r, a) \/ Answer!Disturbed(a)
        /\ ~exchange.done => ~Answer!Whole(r, a)
    BY <1>1 DEF Answer!Possible
  <2>3. Answer!Disturbed(a) => Answer!Retryable(a.code)
            \/ (Answer!InSuccess(a.code) /\ ~a.body.ok /\ ~a.body.id)
    BY <2>1, <1>4 DEF Answer!Disturbed, Answer!Retryable, Answer!Cut
  <2>4. ~(Answer!InSuccess(a.code) /\ Answer!Retryable(a.code))
    BY <2>1 DEF Answer!InSuccess, Answer!Retryable
  <2>5. CASE r = "webhook"
    <3>1. Answer!Outcome = Answer!WebhookOutcome(a)
      BY <1>4, <2>5 DEF Answer!Outcome
    <3>2. Answer!Whole(r, a) <=> Answer!InSuccess(a.code)
      BY <1>4, <2>5 DEF Answer!Whole
    <3>3. QED
      BY <1>1, <2>2, <2>3, <2>4, <3>1, <3>2
         DEF AnswersInv, Answer!OutcomeIsAllowed, Answer!SuccessIsSeen, Answer!WebhookOutcome,
             Answer!ByCode
  <2>6. CASE r = "sendMessage"
    <3>1. Answer!Outcome = Answer!TelegramOutcome(a)
      BY <1>4, <2>6 DEF Answer!Outcome
    <3>2. Answer!Whole(r, a) <=> Answer!InSuccess(a.code) /\ a.body.ok /\ a.body.id
      BY <1>4, <2>6 DEF Answer!Whole
    <3>3. QED
      BY <1>1, <2>2, <2>3, <2>4, <3>1, <3>2
         DEF AnswersInv, Answer!OutcomeIsAllowed, Answer!SuccessIsSeen, Answer!TelegramOutcome,
             Answer!ByCode
  <2>7. CASE r = "getMe"
    <3>1. Answer!Outcome = Answer!VerifyOutcome(a)
      BY <1>4, <2>7 DEF Answer!Outcome
    <3>2. Answer!Whole(r, a) <=> Answer!InSuccess(a.code) /\ a.body.ok
      BY <1>4, <2>7 DEF Answer!Whole
    <3>3. QED
      BY <1>1, <2>2, <2>3, <2>4, <3>1, <3>2
         DEF AnswersInv, Answer!OutcomeIsAllowed, Answer!SuccessIsSeen, Answer!VerifyOutcome,
             Answer!TelegramOutcome, Answer!ByCode
  <2>8. QED  BY <1>1, <2>5, <2>6, <2>7
<1>5. QED  BY <1>2, <1>3, <1>4

-----------------------------------------------------------------------------
(* Bots that are verified, and the default channel.                        *)

Bot == [token : Settings.tokens \cup {None}, active : BOOLEAN,
        verification : {"unverified", "verified", "failed"}, username : Settings.tokens \cup {None}]
InAppChannel == [state : {"none", "active", "inactive"}, default : BOOLEAN]

BotTypes ==
    /\ bot \in Bot
    /\ verifier \in [Settings.verifiers -> [pc : {"idle", "asked"}, token : Settings.tokens \cup {None}]]
    /\ overtaken \in BOOLEAN

ChannelTypes ==
    /\ channel \in [Settings.channels -> InAppChannel]
    /\ resolver \in [Settings.resolvers -> [pc : {"idle", "insert", "reread", "done", "failed"},
                                            found : Settings.channels \cup {None}]]
    /\ offered \in [Settings.resolvers -> [channels : SUBSET Settings.channels, taken : BOOLEAN]]

\* A resolution that met a conflict finds the default still there, unless the
\* user took it away.
RereadFinds ==
    \A r \in Settings.resolvers :
      resolver[r].pc = "reread" => Config!DefaultOf(channel) # {} \/ offered[r].taken

\* A resolution under way was offered what is active now.
OfferedNow ==
    \A r \in Settings.resolvers :
      resolver[r].pc \in {"insert", "reread"}
          => Config!ActiveChannels(channel) \subseteq offered[r].channels

\* While nobody edits, the one channel there can be is the default that was
\* created, and who is done has found it.
DefaultChannel == [state |-> "active", default |-> TRUE]
Untouched ==
    edits = 0 =>
      \/ /\ \A c \in Settings.channels : channel[c] = Config!NoChannel
         /\ \A r \in Settings.resolvers : resolver[r].pc # "done"
      \/ \E c \in Settings.channels :
           /\ channel[c] = DefaultChannel
           /\ \A d \in Settings.channels : d # c => channel[d] = Config!NoChannel
           /\ \A r \in Settings.resolvers : resolver[r].pc = "done" => resolver[r].found = c

OneDefaultAtMost == Cardinality(Config!DefaultOf(channel)) <= 1

ConfigInv ==
    /\ BotTypes /\ Config!VerifiedTokenIsGood
    /\ ChannelTypes /\ edits \in Nat /\ Config!DefaultIsFound /\ RereadFinds
    /\ OfferedNow /\ OneDefaultAtMost /\ Untouched

LEMMA ConfigInit ==
    ASSUME Config!Assumptions, Config!Init
    PROVE  ConfigInv
<1>1. BotTypes /\ Config!VerifiedTokenIsGood
  BY DEF Config!Init, BotTypes, Bot, Config!NoBot, Config!VerifiedTokenIsGood
<1>2. ChannelTypes /\ edits \in Nat
  BY DEF Config!Init, ChannelTypes, InAppChannel, Config!NoChannel
<1>3. Config!DefaultIsFound /\ RereadFinds /\ OfferedNow /\ Untouched
  BY DEF Config!Init, Config!DefaultIsFound, RereadFinds, OfferedNow, Untouched
<1>4. OneDefaultAtMost
  <2>1. Config!DefaultOf(channel) = {}
    BY DEF Config!Init, Config!DefaultOf, Config!ActiveChannels, Config!NoChannel
  <2>2. QED  BY <2>1, FS_EmptySet DEF OneDefaultAtMost
<1>5. QED  BY <1>1, <1>2, <1>3, <1>4 DEF ConfigInv

LEMMA BotEdited ==
    ASSUME Config!Assumptions, ConfigInv, Config!CreateBot \/ Config!ReplaceToken
               \/ Config!SetBotStatus \/ Config!DeleteBot
    PROVE  ConfigInv'
<1>1. BotTypes /\ Config!VerifiedTokenIsGood
  BY DEF ConfigInv
<1>2. BotTypes'
  <2>1. CASE Config!CreateBot
    BY ZenonT(60), <2>1, <1>1 DEF Config!CreateBot, BotTypes, Bot, Config!NoBot
  <2>2. CASE Config!ReplaceToken
    BY ZenonT(60), <2>2, <1>1 DEF Config!ReplaceToken, BotTypes, Bot, Config!WithToken
  <2>3. CASE Config!SetBotStatus
    BY <2>3, <1>1 DEF Config!SetBotStatus, BotTypes, Bot
  <2>4. CASE Config!DeleteBot
    BY <2>4, <1>1 DEF Config!DeleteBot, BotTypes, Bot, Config!NoBot
  <2>5. QED  BY <2>1, <2>2, <2>3, <2>4
<1>3. Config!VerifiedTokenIsGood'
  <2>1. CASE Config!CreateBot
    BY ZenonT(60), <2>1, <1>1 DEF Config!CreateBot, BotTypes, Bot, Config!NoBot, Config!VerifiedTokenIsGood
  <2>2. CASE Config!ReplaceToken
    BY ZenonT(60), <2>2, <1>1 DEF Config!ReplaceToken, BotTypes, Bot, Config!WithToken, Config!VerifiedTokenIsGood
  <2>3. CASE Config!SetBotStatus
    BY <2>3, <1>1 DEF Config!SetBotStatus, BotTypes, Bot, Config!VerifiedTokenIsGood
  <2>4. CASE Config!DeleteBot
    BY <2>4, <1>1 DEF Config!DeleteBot, BotTypes, Bot, Config!NoBot, Config!VerifiedTokenIsGood
  <2>5. QED  BY <2>1, <2>2, <2>3, <2>4
<1>4. edits' = edits + 1 /\ UNCHANGED Config!channelVars
  BY ZenonT(60) DEF Config!CreateBot, Config!ReplaceToken, Config!SetBotStatus, Config!DeleteBot, Config!Edited
<1>5. ChannelTypes' /\ edits' \in Nat /\ edits' # 0 /\ Config!DefaultIsFound' /\ RereadFinds'
      /\ OfferedNow' /\ OneDefaultAtMost'
  BY <1>4 DEF ConfigInv, ChannelTypes, Config!DefaultIsFound, RereadFinds, OfferedNow,
              OneDefaultAtMost, Config!DefaultOf, Config!ActiveChannels, Config!channelVars
<1>6. QED  BY <1>2, <1>3, <1>5 DEF ConfigInv, Untouched

LEMMA BotVerified ==
    ASSUME Config!Assumptions, ConfigInv, NEW v \in Settings.verifiers, Config!ReadToken(v)
               \/ Config!MarkVerification(v)
    PROVE  ConfigInv'
<1>1. BotTypes /\ Config!VerifiedTokenIsGood
  BY DEF ConfigInv
<1>2. CASE Config!ReadToken(v)
  <2>1. BotTypes'
    BY <1>1, <1>2 DEF Config!ReadToken, BotTypes, Bot
  <2>2. Config!VerifiedTokenIsGood'
    BY <1>1, <1>2 DEF Config!ReadToken, Config!VerifiedTokenIsGood
  <2>3. QED
    BY <1>2, <2>1, <2>2 DEF Config!ReadToken, ConfigInv, ChannelTypes, Config!DefaultIsFound,
       RereadFinds,
       OfferedNow, OneDefaultAtMost, Untouched, Config!DefaultOf, Config!ActiveChannels,
       Config!channelVars
<1>3. CASE Config!MarkVerification(v)
  <2> PICK t : t = verifier[v].token  OBVIOUS
  <2>1. /\ t \in Settings.tokens \cup {None}
        /\ \/ bot' = [bot EXCEPT !.verification = "verified", !.username = t] /\ t \in Settings.good
           \/ bot' = [bot EXCEPT !.verification = "failed"]
        /\ verifier' = [verifier EXCEPT ![v].pc = "idle"]
        /\ overtaken' = (bot.token # t)
    BY <1>1, <1>3 DEF Config!MarkVerification, BotTypes
  <2>2. BotTypes'
    <3>1. t \in Settings.tokens \cup {None} /\ bot' \in Bot
      BY <1>1, <2>1 DEF BotTypes, Bot
    <3>2. verifier'
              \in [Settings.verifiers -> [pc : {"idle", "asked"}, token : Settings.tokens \cup {None}]]
      BY <1>1, <2>1 DEF BotTypes
    <3>3. QED  BY <3>1, <3>2, <2>1 DEF BotTypes
  <2>3. Config!VerifiedTokenIsGood'
    BY <1>1, <2>1 DEF BotTypes, Bot, Config!VerifiedTokenIsGood
  <2>4. QED
    BY <1>3, <2>2, <2>3 DEF Config!MarkVerification, ConfigInv, ChannelTypes,
       Config!DefaultIsFound, RereadFinds,
       OfferedNow, OneDefaultAtMost, Untouched, Config!DefaultOf, Config!ActiveChannels,
       Config!channelVars
<1>4. QED  BY <1>2, <1>3

LEMMA BotStays ==
    ASSUME ConfigInv, UNCHANGED Config!botVars
    PROVE  BotTypes' /\ Config!VerifiedTokenIsGood'
BY DEF ConfigInv, BotTypes, Config!VerifiedTokenIsGood, Config!botVars

\* The first of a set of numbers.
LEMMA OldestIsOne ==
    ASSUME Config!Assumptions, NEW S, S \subseteq Settings.channels, S # {}
    PROVE  Config!Oldest(S) \in S
<1>1. S \in SUBSET Nat
  BY DEF Config!Assumptions
<1>2. PICK n \in S : \A y \in S : <<y, n>> \notin OpToRel(<, Nat)
  BY <1>1, NatLessThanWellFounded, WFMin, Zenon
<1>3. \A y \in S : n <= y
  <2> SUFFICES ASSUME NEW y \in S  PROVE n <= y
    OBVIOUS
  <2>1. ~(y < n)
    BY <1>1, <1>2 DEF OpToRel
  <2>2. QED  BY <1>1, <2>1
<1>4. QED  BY ZenonT(60), <1>2, <1>3 DEF Config!Oldest

\* What an edit and a new default offer to the resolutions under way.
LEMMA OfferIs ==
    ASSUME ChannelTypes, NEW chan, NEW r \in Settings.resolvers
    PROVE  /\ resolver[r].pc \in {"done", "failed"} => Config!Offer(chan)[r] = offered[r]
           /\ resolver[r].pc \in {"insert", "reread"}
                  => Config!ActiveChannels(chan) \subseteq Config!Offer(chan)[r].channels
           /\ resolver[r].pc = "reread" =>
                /\ offered[r].taken => Config!Offer(chan)[r].taken
                /\ ~(Config!DefaultOf(channel) \subseteq Config!DefaultOf(chan))
                       => Config!Offer(chan)[r].taken
BY DEF Config!Offer, ChannelTypes

LEMMA OfferTypes ==
    ASSUME ChannelTypes, NEW chan
    PROVE  Config!Offer(chan)
               \in [Settings.resolvers -> [channels : SUBSET Settings.channels, taken : BOOLEAN]]
BY DEF Config!Offer, ChannelTypes, Config!ActiveChannels

\* NotificationConfig counts as we do here.
LEMMA ConfigCounts ==
    ASSUME NEW S
    PROVE  Config!Cardinality(S) = Cardinality(S)
BY DEF Config!Cardinality, Cardinality, Config!IsFiniteSet, IsFiniteSet

LEMMA ChannelEdited ==
    ASSUME Config!Assumptions, ConfigInv, Config!EditChannel
    PROVE  ConfigInv'
<1> USE DEF ConfigInv
<1>1. /\ edits' = edits + 1 /\ UNCHANGED <<resolver, Config!botVars>>
      /\ offered' = Config!Offer(channel') /\ Cardinality(Config!DefaultOf(channel')) <= 1
  BY ConfigCounts DEF Config!EditChannel, Config!Edited
<1>2. BotTypes' /\ Config!VerifiedTokenIsGood'
  BY <1>1, BotStays
<1>3. ChannelTypes'
  <2>1. channel' \in [Settings.channels -> InAppChannel]
    BY DEF Config!EditChannel, ChannelTypes, InAppChannel, Config!NoChannel
  <2>2. QED  BY <1>1, <2>1, OfferTypes DEF ChannelTypes
<1>4. Config!DefaultIsFound'
  BY <1>1, OfferIs DEF Config!DefaultIsFound, ChannelTypes
<1>5. RereadFinds'
  <2> SUFFICES ASSUME NEW r \in Settings.resolvers, resolver[r].pc = "reread", ~offered'[r].taken
               PROVE  Config!DefaultOf(channel') # {}
    BY <1>1 DEF RereadFinds, Config!DefaultOf, Config!ActiveChannels
  <2>1. Config!DefaultOf(channel) \subseteq Config!DefaultOf(channel') /\ ~offered[r].taken
    BY <1>1, OfferIs
  <2>2. Config!DefaultOf(channel) # {}
    BY <2>1 DEF RereadFinds
  <2>3. QED  BY <2>1, <2>2
<1>9. OfferedNow'
  <2>1. Config!ActiveChannels(channel)' = Config!ActiveChannels(channel')
    BY DEF Config!ActiveChannels
  <2>2. QED  BY <1>1, <2>1, OfferIs DEF OfferedNow
<1>6. OneDefaultAtMost'
  <2>1. Config!DefaultOf(channel)' = Config!DefaultOf(channel')
    BY DEF Config!DefaultOf, Config!ActiveChannels
  <2>2. QED  BY <1>1, <2>1 DEF OneDefaultAtMost
<1>7. edits' \in Nat /\ Untouched'
  BY <1>1 DEF Untouched
<1>8. QED  BY <1>2, <1>3, <1>4, <1>5, <1>6, <1>7, <1>9

LEMMA LookKeeps ==
    ASSUME Config!Assumptions, ConfigInv, NEW r \in Settings.resolvers, Config!Look(r)
    PROVE  ConfigInv'
<1> USE DEF ConfigInv
<1> PICK A : A = Config!ActiveChannels(channel)  OBVIOUS
<1>1. /\ resolver[r].pc = "idle" /\ A \subseteq Settings.channels
      /\ \/ A # {} /\ resolver' = [resolver EXCEPT ![r] = [pc |-> "done", found |-> Config!Oldest(A)]]
         \/ A = {} /\ resolver' = [resolver EXCEPT ![r].pc = "insert"]
      /\ offered' = [offered EXCEPT ![r].channels = A]
      /\ UNCHANGED <<channel, edits, Config!botVars>>
  BY DEF Config!Look, Config!ActiveChannels, Config!Found
<1>2. BotTypes' /\ Config!VerifiedTokenIsGood'
  BY <1>1, BotStays
<1>3. A # {} => Config!Oldest(A) \in A
  BY <1>1, OldestIsOne
<1>4. ChannelTypes'
  <2>1. A # {} => Config!Oldest(A) \in Settings.channels \cup {None}
    BY <1>1, <1>3
  <2>2. resolver' \in [Settings.resolvers -> [pc : {"idle", "insert", "reread", "done", "failed"},
                                              found : Settings.channels \cup {None}]]
    <3>1. CASE A # {}
      <4> PICK o : o = [pc |-> "done", found |-> Config!Oldest(A)]  OBVIOUS
      <4>1. o \in [pc : {"idle", "insert", "reread", "done", "failed"}, found : Settings.channels \cup {None}]
        BY <2>1, <3>1
      <4>2. resolver' = [resolver EXCEPT ![r] = o]
        BY <1>1, <3>1
      <4>3. QED  BY <4>1, <4>2 DEF ChannelTypes
    <3>2. CASE A = {}
      BY <1>1, <3>2 DEF ChannelTypes
    <3>3. QED  BY <3>1, <3>2
  <2>3. offered' \in [Settings.resolvers -> [channels : SUBSET Settings.channels, taken : BOOLEAN]]
    BY <1>1 DEF ChannelTypes
  <2>4. QED  BY <1>1, <2>2, <2>3 DEF ChannelTypes
<1>5. Config!DefaultIsFound'
  BY <1>1, <1>3 DEF Config!DefaultIsFound, ChannelTypes
<1>6. RereadFinds'
  <2>1. Config!DefaultOf(channel)' = Config!DefaultOf(channel)
    BY <1>1 DEF Config!DefaultOf, Config!ActiveChannels
  <2>2. \A q \in Settings.resolvers : resolver'[q].pc = "reread" =>
          resolver[q].pc = "reread" /\ offered'[q].taken = offered[q].taken
    BY <1>1 DEF ChannelTypes
  <2>3. QED  BY <2>1, <2>2 DEF RereadFinds
<1>7. OneDefaultAtMost'
  BY <1>1 DEF OneDefaultAtMost, Config!DefaultOf, Config!ActiveChannels
<1>10. OfferedNow'
  <2>1. Config!ActiveChannels(channel)' = A
    BY <1>1 DEF Config!ActiveChannels
  <2>2. /\ offered'[r].channels = A
        /\ \A q \in Settings.resolvers : q # r => resolver'[q] = resolver[q] /\ offered'[q] = offered[q]
    BY <1>1 DEF ChannelTypes
  <2>3. QED  BY <2>1, <2>2 DEF OfferedNow
<1>8. Untouched'
  <2> SUFFICES ASSUME edits = 0  PROVE Untouched'
    BY <1>1 DEF Untouched
  <2>1. CASE \A c \in Settings.channels : channel[c] = Config!NoChannel
    <3>1. A = {}
      BY <2>1 DEF Config!ActiveChannels, Config!NoChannel
    <3>2. \A q \in Settings.resolvers : resolver'[q].pc = "done" => resolver[q].pc = "done"
              /\ resolver'[q] = resolver[q]
      BY <1>1, <3>1 DEF ChannelTypes
    <3>3. QED  BY <3>2, <1>1 DEF Untouched
  <2>2. ASSUME NEW c \in Settings.channels, channel[c] = DefaultChannel,
               \A d \in Settings.channels : d # c => channel[d] = Config!NoChannel,
               \A q \in Settings.resolvers : resolver[q].pc = "done" => resolver[q].found = c
        PROVE  Untouched'
    <3>1. A = {c}
      BY <2>2 DEF Config!ActiveChannels, Config!NoChannel, DefaultChannel
    <3>2. resolver'[r].found = c
      BY <1>1, <1>3, <3>1 DEF ChannelTypes
    <3>4. \A q \in Settings.resolvers : q # r => resolver'[q] = resolver[q]
      BY <1>1 DEF ChannelTypes
    <3>5. \A q \in Settings.resolvers : resolver'[q].pc = "done" => resolver'[q].found = c
      BY <2>2, <3>2, <3>4
    <3>3. QED  BY <3>5, <2>2, <1>1 DEF Untouched
  <2>3. QED  BY <2>1, <2>2 DEF Untouched
<1>9. QED  BY <1>1, <1>2, <1>4, <1>5, <1>6, <1>7, <1>8, <1>10

LEMMA ConfigInsertKeeps ==
    ASSUME Config!Assumptions, ConfigInv, NEW r \in Settings.resolvers, Config!InsertDefault(r)
    PROVE  ConfigInv'
<1> USE DEF ConfigInv
<1>1. resolver[r].pc = "insert" /\ UNCHANGED <<edits, Config!botVars>>
  BY DEF Config!InsertDefault
<1>2. BotTypes' /\ Config!VerifiedTokenIsGood'
  BY <1>1, BotStays
<1>3. CASE Config!Conflicts
  <2>1. /\ resolver' = [resolver EXCEPT ![r].pc = "reread"] /\ UNCHANGED <<channel, offered>>
        /\ Config!DefaultOf(channel) # {}
    BY <1>3 DEF Config!InsertDefault, Config!Conflicts
  <2>2. ChannelTypes'
    BY <2>1 DEF ChannelTypes
  <2>3. \A q \in Settings.resolvers : /\ resolver'[q].found = resolver[q].found
                                      /\ resolver'[q].pc = resolver[q].pc \/ q = r
                                      /\ resolver'[r].pc = "reread"
    BY <2>1 DEF ChannelTypes
  <2>4. Config!DefaultIsFound' /\ Untouched'
    BY <2>1, <2>3, <1>1 DEF Config!DefaultIsFound, Untouched
  <2>5. Config!DefaultOf(channel)' = Config!DefaultOf(channel)
    BY <2>1 DEF Config!DefaultOf, Config!ActiveChannels
  <2>6. RereadFinds' /\ OneDefaultAtMost'
    BY <2>1, <2>5 DEF RereadFinds, OneDefaultAtMost
  <2>7. OfferedNow'
    BY <1>1, <2>1, <2>3 DEF OfferedNow, Config!ActiveChannels
  <2>8. QED  BY <1>1, <1>2, <2>2, <2>4, <2>6, <2>7
<1>4. CASE ~Config!Conflicts
  <2> PICK n : n = Config!Oldest(Config!Unused)  OBVIOUS
  <2>1. /\ Config!DefaultOf(channel) = {} /\ Config!Unused # {}
               /\ Config!Unused \subseteq Settings.channels
        /\ channel' = [channel EXCEPT ![n] = DefaultChannel]
        /\ resolver' = [resolver EXCEPT ![r] = [pc |-> "done", found |-> Config!Oldest({n})]]
        /\ offered' = [Config!Offer(channel') EXCEPT ![r].channels = @ \cup Config!ActiveChannels(channel')]
    BY <1>4 DEF Config!InsertDefault, Config!Conflicts, Config!Unused, Config!Found, DefaultChannel
  <2>2. n \in Config!Unused /\ n \in Settings.channels
    BY <2>1, OldestIsOne
  <2>3. Config!Oldest({n}) = n
    BY <2>2, OldestIsOne
  <2>4. Config!ActiveChannels(channel') \subseteq Settings.channels
            /\ n \in Config!ActiveChannels(channel')
    BY <2>1, <2>2 DEF Config!ActiveChannels, DefaultChannel, ChannelTypes
  <2>a. Config!Offer(channel')
            \in [Settings.resolvers -> [channels : SUBSET Settings.channels, taken : BOOLEAN]]
    BY OfferTypes
  <2> PICK f : f = Config!Offer(channel')  OBVIOUS
  <2>b. /\ f \in [Settings.resolvers -> [channels : SUBSET Settings.channels, taken : BOOLEAN]]
        /\ offered' = [f EXCEPT ![r].channels = @ \cup Config!ActiveChannels(channel')]
    BY <2>1, <2>a
  <2>5. ChannelTypes'
    <3>1. channel' \in [Settings.channels -> InAppChannel]
      BY <2>1 DEF ChannelTypes, InAppChannel, DefaultChannel
    <3>2. resolver' \in [Settings.resolvers -> [pc : {"idle", "insert", "reread", "done", "failed"},
                                                found : Settings.channels \cup {None}]]
      BY <2>1, <2>2, <2>3 DEF ChannelTypes
    <3>3. offered' \in [Settings.resolvers -> [channels : SUBSET Settings.channels, taken : BOOLEAN]]
      BY <2>b, <2>4
    <3>4. QED  BY <3>1, <3>2, <3>3 DEF ChannelTypes
  <2>6. /\ resolver'[r].pc = "done" /\ resolver'[r].found = n /\ n \in offered'[r].channels
        /\ \A q \in Settings.resolvers : q # r => resolver'[q] = resolver[q] /\ offered'[q] = f[q]
    BY <2>1, <2>3, <2>b, <2>4 DEF ChannelTypes
  <2>7. Config!DefaultIsFound'
    <3>1. ASSUME NEW q \in Settings.resolvers, q # r, resolver[q].pc \in {"done", "failed"}
          PROVE  offered'[q] = offered[q] /\ resolver'[q] = resolver[q]
      BY <2>6, <3>1, OfferIs
    <3>2. QED  BY <3>1, <2>6 DEF Config!DefaultIsFound
  <2>8. RereadFinds'
    <3>1. ASSUME NEW q \in Settings.resolvers, resolver'[q].pc = "reread"  PROVE offered'[q].taken
      <4>1. q # r /\ resolver[q].pc = "reread"
        BY <3>1, <2>6
      <4>2. offered[q].taken
        BY <4>1, <2>1 DEF RereadFinds
      <4>3. QED  BY <4>1, <4>2, <2>6, OfferIs
    <3>2. QED  BY <3>1 DEF RereadFinds
  <2>12. OfferedNow'
    <3>1. Config!ActiveChannels(channel)' = Config!ActiveChannels(channel')
      BY DEF Config!ActiveChannels
    <3>2. QED  BY <3>1, <2>6, OfferIs DEF OfferedNow
  <2>9. OneDefaultAtMost'
    <3>0. \A c \in Settings.channels : ~(channel[c].state = "active" /\ channel[c].default)
      BY <2>1 DEF Config!DefaultOf, Config!ActiveChannels
    <3>1. Config!DefaultOf(channel)' = {n}
      <4>1. channel'[n].state = "active" /\ channel'[n].default
        BY <2>1, <2>2 DEF DefaultChannel, ChannelTypes
      <4>2. \A c \in Settings.channels : c # n => channel'[c] = channel[c]
        BY <2>1 DEF ChannelTypes
      <4>3. QED  BY <3>0, <4>1, <4>2, <2>2 DEF Config!DefaultOf, Config!ActiveChannels
    <3>2. Cardinality({n}) = 1
      BY FS_Singleton
    <3>3. Cardinality(Config!DefaultOf(channel)') <= 1
      BY <3>1, <3>2
    <3>4. QED  BY <3>3 DEF OneDefaultAtMost
  <2>10. Untouched'
    <3> SUFFICES ASSUME edits = 0  PROVE Untouched'
      BY <1>1 DEF Untouched
    <3>1. ~\E c \in Settings.channels : channel[c] = DefaultChannel
      BY <2>1 DEF Config!DefaultOf, Config!ActiveChannels, DefaultChannel
    <3>2. /\ \A c \in Settings.channels : channel[c] = Config!NoChannel
          /\ \A q \in Settings.resolvers : resolver[q].pc # "done"
      BY <3>1 DEF Untouched
    <3>3. channel'[n] = DefaultChannel /\ \A d \in Settings.channels : d # n
              => channel'[d] = Config!NoChannel
      BY <2>1, <2>2, <3>2 DEF ChannelTypes
    <3>4. \A q \in Settings.resolvers : resolver'[q].pc = "done" => resolver'[q].found = n
      BY <2>6, <3>2
    <3>5. QED  BY <2>2, <3>3, <3>4 DEF Untouched
  <2>11. QED  BY <1>1, <1>2, <2>5, <2>7, <2>8, <2>9, <2>10, <2>12
<1>5. QED  BY <1>3, <1>4

LEMMA RereadKeeps ==
    ASSUME Config!Assumptions, ConfigInv, NEW r \in Settings.resolvers, Config!Reread(r)
    PROVE  ConfigInv'
<1> USE DEF ConfigInv
<1> PICK A : A = Config!DefaultOf(channel)  OBVIOUS
<1>1. /\ resolver[r].pc = "reread" /\ A \subseteq Settings.channels
      /\ \/ A # {} /\ resolver' = [resolver EXCEPT ![r] = [pc |-> "done", found |-> Config!Oldest(A)]]
         \/ A = {} /\ resolver' = [resolver EXCEPT ![r].pc = "failed"]
      /\ UNCHANGED <<channel, offered, edits, Config!botVars>>
  BY DEF Config!Reread, Config!RereadDefault, Config!DefaultOf, Config!ActiveChannels, Config!Found
<1>2. BotTypes' /\ Config!VerifiedTokenIsGood'
  BY <1>1, BotStays
<1>3. A # {} => Config!Oldest(A) \in A
  BY <1>1, OldestIsOne
<1>4. ChannelTypes'
  <2>1. A # {} => Config!Oldest(A) \in Settings.channels \cup {None}
    BY <1>1, <1>3
  <2>2. resolver' \in [Settings.resolvers -> [pc : {"idle", "insert", "reread", "done", "failed"},
                                              found : Settings.channels \cup {None}]]
    <3>1. CASE A # {}
      <4> PICK o : o = [pc |-> "done", found |-> Config!Oldest(A)]  OBVIOUS
      <4>1. o \in [pc : {"idle", "insert", "reread", "done", "failed"}, found : Settings.channels \cup {None}]
        BY <2>1, <3>1
      <4>2. resolver' = [resolver EXCEPT ![r] = o]
        BY <1>1, <3>1
      <4>3. QED  BY <4>1, <4>2 DEF ChannelTypes
    <3>2. CASE A = {}
      BY <1>1, <3>2 DEF ChannelTypes
    <3>3. QED  BY <3>1, <3>2
  <2>3. offered' \in [Settings.resolvers -> [channels : SUBSET Settings.channels, taken : BOOLEAN]]
    BY <1>1 DEF ChannelTypes
  <2>4. QED  BY <1>1, <2>2, <2>3 DEF ChannelTypes
<1>5. Config!DefaultIsFound'
  <2>1. A \subseteq offered[r].channels
    BY <1>1 DEF OfferedNow, Config!DefaultOf
  <2>2. A = {} => offered[r].taken
    BY <1>1 DEF RereadFinds
  <2>3. QED  BY <1>1, <1>3, <2>1, <2>2 DEF Config!DefaultIsFound, ChannelTypes
<1>6. Config!DefaultOf(channel)' = Config!DefaultOf(channel)
          /\ Config!ActiveChannels(channel)' = Config!ActiveChannels(channel)
  BY <1>1 DEF Config!DefaultOf, Config!ActiveChannels
<1>7. \A q \in Settings.resolvers : resolver'[q].pc \in {"insert", "reread"}
          => resolver'[q] = resolver[q]
  BY <1>1 DEF ChannelTypes
<1>8. RereadFinds' /\ OfferedNow' /\ OneDefaultAtMost'
  BY <1>1, <1>6, <1>7 DEF RereadFinds, OfferedNow, OneDefaultAtMost
<1>9. Untouched'
  <2> SUFFICES ASSUME edits = 0  PROVE Untouched'
    BY <1>1 DEF Untouched
  <2>1. CASE \A c \in Settings.channels : channel[c] = Config!NoChannel
    <3>1. A = {}
      BY <2>1 DEF Config!DefaultOf, Config!ActiveChannels, Config!NoChannel
    <3>2. \A q \in Settings.resolvers : resolver'[q].pc = "done" => resolver[q].pc = "done"
              /\ resolver'[q] = resolver[q]
      BY <1>1, <3>1 DEF ChannelTypes
    <3>3. QED  BY <3>2, <1>1 DEF Untouched
  <2>2. ASSUME NEW c \in Settings.channels, channel[c] = DefaultChannel,
               \A d \in Settings.channels : d # c => channel[d] = Config!NoChannel,
               \A q \in Settings.resolvers : resolver[q].pc = "done" => resolver[q].found = c
        PROVE  Untouched'
    <3>1. A = {c}
      BY <2>2 DEF Config!DefaultOf, Config!ActiveChannels, Config!NoChannel, DefaultChannel
    <3>2. \A q \in Settings.resolvers : resolver'[q].pc = "done" => resolver'[q].found = c
      BY <1>1, <1>3, <2>2, <3>1 DEF ChannelTypes
    <3>3. QED  BY <3>2, <2>2, <1>1 DEF Untouched
  <2>3. QED  BY <2>1, <2>2 DEF Untouched
<1>10. QED  BY <1>1, <1>2, <1>4, <1>5, <1>8, <1>9

LEMMA ConfigStep ==
    ASSUME Config!Assumptions, ConfigInv, Config!Next
    PROVE  ConfigInv'
<1>1. CASE Config!CreateBot \/ Config!ReplaceToken \/ Config!SetBotStatus \/ Config!DeleteBot
  BY <1>1, BotEdited
<1>2. CASE Config!EditChannel
  BY <1>2, ChannelEdited
<1>3. CASE \E v \in Settings.verifiers : Config!ReadToken(v) \/ Config!MarkVerification(v)
  BY <1>3, BotVerified
<1>4. CASE \E r \in Settings.resolvers : Config!Look(r) \/ Config!InsertDefault(r) \/ Config!Reread(r)
  BY <1>4, LookKeeps, ConfigInsertKeeps, RereadKeeps
<1>5. QED  BY <1>1, <1>2, <1>3, <1>4 DEF Config!Next

LEMMA ConfigStutter ==
    ASSUME ConfigInv, UNCHANGED Config!vars
    PROVE  ConfigInv'
<1>1. /\ bot' = bot /\ verifier' = verifier /\ channel' = channel /\ resolver' = resolver
      /\ edits' = edits /\ overtaken' = overtaken /\ offered' = offered
  BY DEF Config!vars
<1>2. BotTypes' /\ Config!VerifiedTokenIsGood'
  BY <1>1 DEF ConfigInv, BotTypes, Config!VerifiedTokenIsGood
<1>3. ChannelTypes' /\ edits' \in Nat /\ Config!DefaultIsFound' /\ Untouched'
  BY <1>1 DEF ConfigInv, ChannelTypes, Config!DefaultIsFound, Untouched
<1>4. RereadFinds' /\ OfferedNow' /\ OneDefaultAtMost'
  BY <1>1 DEF ConfigInv, RereadFinds, OfferedNow, OneDefaultAtMost, Config!DefaultOf,
     Config!ActiveChannels
<1>5. QED  BY <1>2, <1>3, <1>4 DEF ConfigInv

LEMMA ConfigTells ==
    ASSUME ConfigInv
    PROVE  Config!TypeOK /\ Config!VerifiedTokenIsGood /\ Config!DefaultIsFound /\ Config!OneDefault
<1>1. Config!TypeOK
  BY DEF ConfigInv, BotTypes, Bot, ChannelTypes, InAppChannel, Config!TypeOK
<1>2. edits = 0 => \A q, r \in Settings.resolvers :
        resolver[q].pc = "done" /\ resolver[r].pc = "done" => resolver[q].found = resolver[r].found
  BY DEF ConfigInv, Untouched
<1>3. QED  BY <1>1, <1>2, ConfigCounts DEF ConfigInv, OneDefaultAtMost, Config!OneDefault

-----------------------------------------------------------------------------
(* The sockets and their channels.                                         *)

\* Notifications that have left the listener's connection, one way or another.
Left == Len(posted) - Len(wire)

\* Numbers of notifications of a tenant, in order.
Ordered(q, t) ==
    /\ q \in Seq(Nat)
    /\ \A i \in DOMAIN q : q[i] \in 1..Left /\ posted[q[i]] = t
    /\ \A i, j \in DOMAIN q : i < j => q[i] < q[j]

RealtimeTypes ==
    /\ posted \in Seq(Connected.tenants) /\ wire \in Seq(Nat)
    /\ Len(wire) <= Len(posted)
    /\ \A i \in DOMAIN wire : wire[i] = Left + i
    /\ listener # "listening" => wire = <<>>
    /\ listener \in {"away", "listening", "ended"}
    /\ channel \in [Connected.tenants -> Seq(Nat)]
    /\ socket \in [Connected.sockets -> [state : {"new", "open", "closed"}, next : Nat]]
    /\ received \in [Connected.sockets -> Seq(Nat)]
    /\ missed \in [Connected.sockets -> SUBSET Nat]

ChannelsAreOrdered == \A t \in Connected.tenants : Ordered(channel[t], t)

Messages(s) == channel[Connected.tenantOf[s]]
Got(s) == {received[s][i] : i \in DOMAIN received[s]}
Ahead(s) == {Messages(s)[i] : i \in {k \in DOMAIN Messages(s) : k >= socket[s].next}}

NextIsInChannel == \A s \in Connected.sockets : socket[s].next \in 1..(Len(Messages(s)) + 1)

\* What a socket was sent comes before what its channel still has for it.
ReceivedIsBehind(s) ==
    /\ Ordered(received[s], Connected.tenantOf[s])
    /\ socket[s].state = "new" => received[s] = <<>>
    /\ \A n \in Got(s), m \in Ahead(s) : socket[s].state = "open" => n < m

\* Behind a message a socket was sent or will be sent nothing of its tenant is
\* forgotten that has left the connection.
Accounted(s) ==
    socket[s].state = "open" =>
      \A n \in 1..Left, m \in Got(s) \cup Ahead(s) :
        posted[n] = Connected.tenantOf[s] /\ m < n => n \in Got(s) \cup missed[s] \cup Ahead(s)

Told(s) ==
    \A n \in DOMAIN posted, m, k \in Got(s) :
      posted[n] = Connected.tenantOf[s] /\ m < n /\ n < k => n \in Got(s) \cup missed[s]

RealtimeInv ==
    /\ RealtimeTypes /\ ChannelsAreOrdered /\ NextIsInChannel
    /\ \A s \in Connected.sockets : ReceivedIsBehind(s) /\ Accounted(s) /\ Told(s)

LEMMA RealtimeInit ==
    ASSUME Push!Assumptions, Push!Init
    PROVE  RealtimeInv
<1>1. /\ posted = <<>> /\ wire = <<>> /\ <<>> \in Seq(Connected.tenants) /\ <<>> \in Seq(Nat)
      /\ channel = [t \in Connected.tenants |-> <<>>] /\ received = [s \in Connected.sockets |-> <<>>]
      /\ socket = [s \in Connected.sockets |-> [state |-> "new", next |-> 1]]
      /\ missed = [s \in Connected.sockets |-> {}] /\ listener = "away"
  BY DEF Push!Init
<1>2. RealtimeTypes
  BY <1>1 DEF RealtimeTypes, Left
<1>3. ChannelsAreOrdered
  BY <1>1 DEF ChannelsAreOrdered, Ordered
<1>4. NextIsInChannel
  BY <1>1 DEF NextIsInChannel, Messages, Push!Assumptions
<1>5. \A s \in Connected.sockets : ReceivedIsBehind(s) /\ Accounted(s) /\ Told(s)
  BY <1>1 DEF ReceivedIsBehind, Ordered, Got, Accounted, Told
<1>6. QED  BY <1>2, <1>3, <1>4, <1>5 DEF RealtimeInv

\* What concerns one socket survives whatever leaves it and its channel alone,
\* posts more, takes more off the connection, and accounts for that.
LEMMA SocketStays ==
    ASSUME RealtimeInv, NEW s \in Connected.sockets, posted' \in Seq(Connected.tenants), wire' \in Seq(Nat),
           Len(posted) <= Len(posted'), Left <= Left', Left' <= Len(posted'),
           \A n \in DOMAIN posted : posted'[n] = posted[n],
           Messages(s)' = Messages(s), socket'[s] = socket[s], received'[s] = received[s],
           missed[s] \subseteq missed'[s],
           socket[s].state = "open" =>
             \A n \in 1..Left' : n > Left /\ posted'[n] = Connected.tenantOf[s] => n \in missed'[s]
    PROVE  ReceivedIsBehind(s)' /\ Accounted(s)' /\ Told(s)'
<1>1. /\ ReceivedIsBehind(s) /\ Accounted(s) /\ Told(s) /\ RealtimeTypes
  BY DEF RealtimeInv
<1>2. /\ posted \in Seq(Connected.tenants) /\ wire \in Seq(Nat) /\ received[s] \in Seq(Nat)
      /\ Left \in Nat /\ Left' \in Nat /\ Left <= Len(posted)
      /\ DOMAIN posted = 1..Len(posted) /\ DOMAIN posted' = 1..Len(posted')
      /\ Len(posted) \in Nat /\ Len(posted') \in Nat
  BY <1>1 DEF RealtimeTypes, Left
<1>3. Got(s)' = Got(s) /\ Ahead(s)' = Ahead(s)
  BY DEF Got, Ahead
<1>4. \A n \in Got(s) : n \in 1..Left /\ posted[n] = Connected.tenantOf[s]
  BY <1>1 DEF ReceivedIsBehind, Ordered, Got
<1>5. ReceivedIsBehind(s)'
  <2>1. \A n \in 1..Left : n \in 1..Left' /\ posted'[n] = posted[n]
    BY <1>2
  <2>2. Ordered(received[s], Connected.tenantOf[s])'
    BY <1>1, <2>1 DEF ReceivedIsBehind, Ordered
  <2>3. QED  BY <1>1, <1>3, <2>2 DEF ReceivedIsBehind
<1>6. Accounted(s)'
  <2> SUFFICES ASSUME socket[s].state = "open", NEW n \in 1..Left', NEW m \in Got(s) \cup Ahead(s),
                      posted'[n] = Connected.tenantOf[s], m < n
               PROVE  n \in Got(s) \cup missed'[s] \cup Ahead(s)
    BY <1>3 DEF Accounted
  <2>1. CASE n > Left
    BY <2>1
  <2>2. CASE n \in 1..Left
    <3>1. posted[n] = Connected.tenantOf[s]
      <4>1. n \in DOMAIN posted
        BY <2>2, <1>2
      <4>2. QED  BY <4>1
    <3>2. n \in Got(s) \cup missed[s] \cup Ahead(s)
      BY <2>2, <3>1, <1>1 DEF Accounted
    <3>3. QED  BY <3>2
  <2>3. QED  BY <2>1, <2>2, <1>2
<1>7. Told(s)'
  <2> SUFFICES ASSUME NEW n \in DOMAIN posted', NEW m \in Got(s), NEW k \in Got(s),
                      posted'[n] = Connected.tenantOf[s], m < n, n < k
               PROVE  n \in Got(s) \cup missed'[s]
    BY <1>3 DEF Told
  <2>1. n \in DOMAIN posted
    BY <1>2, <1>4
  <2>2. QED  BY <2>1, <1>1 DEF Told
<1>8. QED  BY <1>5, <1>6, <1>7

\* The order of a channel survives the same.
LEMMA OrderStays ==
    ASSUME posted \in Seq(Connected.tenants), posted' \in Seq(Connected.tenants), wire \in Seq(Nat),
               wire' \in Seq(Nat),
           Len(wire) <= Len(posted),
           Len(posted) <= Len(posted'), Left <= Left',
           \A n \in DOMAIN posted : posted'[n] = posted[n],
           NEW q, NEW t, Ordered(q, t)
    PROVE  /\ q \in Seq(Nat)
           /\ \A i \in DOMAIN q : q[i] \in 1..Left' /\ posted'[q[i]] = t
           /\ \A i, j \in DOMAIN q : i < j => q[i] < q[j]
<1>1. Left \in Nat /\ Left' \in Nat /\ Left <= Len(posted)
  BY DEF Left
<1>2. \A n \in 1..Left : n \in 1..Left' /\ posted'[n] = posted[n]
  BY <1>1
<1>3. QED  BY <1>2 DEF Ordered

LEMMA ChannelsStay ==
    ASSUME RealtimeInv, posted' \in Seq(Connected.tenants), wire' \in Seq(Nat),
           Len(posted) <= Len(posted'), Left <= Left',
           \A n \in DOMAIN posted : posted'[n] = posted[n], channel' = channel
    PROVE  ChannelsAreOrdered'
<1>a. /\ posted \in Seq(Connected.tenants) /\ wire \in Seq(Nat) /\ Len(wire) <= Len(posted)
  BY DEF RealtimeInv, RealtimeTypes
<1>1. ASSUME NEW t \in Connected.tenants  PROVE Ordered(channel[t], t)'
  <2> PICK q : q = channel[t]  OBVIOUS
  <2>1. Ordered(q, t)
    BY DEF RealtimeInv, ChannelsAreOrdered
  <2>2. /\ q \in Seq(Nat)
        /\ \A i \in DOMAIN q : q[i] \in 1..Left' /\ posted'[q[i]] = t
        /\ \A i, j \in DOMAIN q : i < j => q[i] < q[j]
    BY <1>a, <2>1, OrderStays
  <2>3. QED  BY <2>2 DEF Ordered
<1>2. QED  BY <1>1 DEF ChannelsAreOrdered

LEMMA PostKeeps ==
    ASSUME Push!Assumptions, RealtimeInv, NEW t \in Connected.tenants, Push!Post(t)
    PROVE  RealtimeInv'
<1>1. /\ posted' = Append(posted, t)
      /\ UNCHANGED <<listener, channel, socket, received>>
  BY DEF Push!Post
<1>2. RealtimeTypes
  BY DEF RealtimeInv
<1>3. /\ posted' \in Seq(Connected.tenants) /\ Len(posted') = Len(posted) + 1
             /\ posted'[Len(posted) + 1] = t
      /\ \A n \in DOMAIN posted : posted'[n] = posted[n]
      /\ Len(posted) \in Nat
  BY <1>1, <1>2 DEF RealtimeTypes
<1>4. Left \in Nat /\ Left <= Len(posted)
  BY <1>2 DEF RealtimeTypes, Left
<1>5. CASE listener = "listening"
  <2>1. wire' = Append(wire, Len(posted) + 1) /\ missed' = missed
    BY <1>5 DEF Push!Post
  <2>2. /\ wire' \in Seq(Nat) /\ Len(wire') = Len(wire) + 1 /\ Left' = Left
        /\ \A i \in DOMAIN wire' : wire'[i] = Left + i
    <3>1. /\ wire' \in Seq(Nat) /\ Len(wire') = Len(wire) + 1 /\ Len(wire) \in Nat
          /\ \A i \in DOMAIN wire : wire'[i] = wire[i] /\ wire'[Len(wire) + 1] = Len(posted) + 1
          /\ wire'[Len(wire) + 1] = Len(posted) + 1
      BY <2>1, <1>2, <1>3 DEF RealtimeTypes
    <3>2. Left' = Left
      BY <3>1, <1>3 DEF Left
    <3>3. \A i \in DOMAIN wire' : i \in DOMAIN wire \/ i = Len(wire) + 1
      BY <3>1, <1>2 DEF RealtimeTypes
    <3>4. Left + (Len(wire) + 1) = Len(posted) + 1
      BY <3>1, <1>3 DEF Left
    <3>5. QED  BY <3>1, <3>2, <3>3, <3>4, <1>2 DEF RealtimeTypes
  <2>3. RealtimeTypes'
    <3>1. Len(wire') <= Len(posted')
      BY <1>2, <1>3, <2>2 DEF RealtimeTypes
    <3>2. QED  BY <1>1, <1>2, <1>3, <1>5, <2>1, <2>2, <3>1 DEF RealtimeTypes
  <2>4. ChannelsAreOrdered'
    BY <1>1, <1>3, <1>4, <2>2, ChannelsStay
  <2>5. NextIsInChannel'
    BY <1>1 DEF RealtimeInv, NextIsInChannel, Messages
  <2>6. \A s \in Connected.sockets : ReceivedIsBehind(s)' /\ Accounted(s)' /\ Told(s)'
    <3> SUFFICES ASSUME NEW s \in Connected.sockets 
         PROVE ReceivedIsBehind(s)' /\ Accounted(s)' /\ Told(s)'
      OBVIOUS
    <3>1. Messages(s)' = Messages(s)
      BY <1>1 DEF Messages
    <3>2. \A n \in 1..Left' : ~(n > Left)
      BY <2>2, <1>4
    <3>3. Left' <= Len(posted')
      BY <2>2, <1>3, <1>4
    <3>4. /\ Len(posted) <= Len(posted') /\ Left <= Left' /\ socket'[s] = socket[s]
          /\ received'[s] = received[s] /\ missed[s] \subseteq missed'[s]
      BY <1>1, <1>3, <1>4, <2>1, <2>2
    <3>5. QED  BY <1>3, <2>2, <3>1, <3>2, <3>3, <3>4, SocketStays
  <2>7. QED  BY <2>3, <2>4, <2>5, <2>6 DEF RealtimeInv
<1>6. CASE listener # "listening"
  <2>1. /\ wire' = wire /\ wire = <<>>
        /\ missed' = [s \in Connected.sockets |->
             IF s \in Push!Open(t) THEN missed[s] \cup {Len(posted) + 1} ELSE missed[s]]
    BY <1>6, <1>2 DEF Push!Post, RealtimeTypes
  <2>2. Left = Len(posted) /\ Left' = Len(posted) + 1
    BY <2>1, <1>3 DEF Left
  <2>3. RealtimeTypes'
    <3>1. missed' \in [Connected.sockets -> SUBSET Nat]
      BY <2>1, <1>2, <1>3 DEF RealtimeTypes
    <3>2. QED  BY <1>1, <1>2, <1>3, <2>1, <3>1 DEF RealtimeTypes
  <2>4. ChannelsAreOrdered'
    BY <1>1, <1>2, <1>3, <2>1, <2>2, ChannelsStay DEF RealtimeTypes
  <2>5. NextIsInChannel'
    BY <1>1 DEF RealtimeInv, NextIsInChannel, Messages
  <2>6. \A s \in Connected.sockets : ReceivedIsBehind(s)' /\ Accounted(s)' /\ Told(s)'
    <3> SUFFICES ASSUME NEW s \in Connected.sockets 
         PROVE ReceivedIsBehind(s)' /\ Accounted(s)' /\ Told(s)'
      OBVIOUS
    <3>1. Messages(s)' = Messages(s)
      BY <1>1 DEF Messages
    <3>2. missed[s] \subseteq missed'[s]
      BY <2>1
    <3>3. \A n \in 1..Left' : n > Left => n = Len(posted) + 1
      BY <2>2, <1>3
    <3>4. socket[s].state = "open" /\ Connected.tenantOf[s] = t => Len(posted) + 1 \in missed'[s]
      BY <2>1 DEF Push!Open
    <3>5. socket[s].state = "open" =>
            \A n \in 1..Left' : n > Left /\ posted'[n] = Connected.tenantOf[s] => n \in missed'[s]
      BY <3>3, <3>4, <1>3
    <3>6. wire' \in Seq(Nat) /\ Left' <= Len(posted') /\ Left <= Left'
      BY <1>2, <1>3, <2>1, <2>2 DEF RealtimeTypes
    <3>7. /\ Len(posted) <= Len(posted') /\ socket'[s] = socket[s]
          /\ received'[s] = received[s]
      BY <1>1, <1>3
    <3>8. QED  BY <1>3, <3>1, <3>2, <3>5, <3>6, <3>7, SocketStays
  <2>7. QED  BY <2>3, <2>4, <2>5, <2>6 DEF RealtimeInv
<1>7. QED  BY <1>5, <1>6

\* The listener loses its connection, or ends with it.
LEMMA ConnectionLost ==
    ASSUME Push!Assumptions, RealtimeInv, Push!Disconnect \/ Push!ListenerEnds
    PROVE  RealtimeInv'
<1>1. /\ listener' \in {"away", "ended"} /\ wire' = <<>>
      /\ missed' = [s \in Connected.sockets |->
           IF s \in Push!Open(Connected.tenantOf[s]) THEN missed[s]
               \cup Push!LostWith(Connected.tenantOf[s]) ELSE missed[s]]
      /\ UNCHANGED <<posted, channel, socket, received>>
  BY DEF Push!Disconnect, Push!ListenerEnds
<1>2. RealtimeTypes
  BY DEF RealtimeInv
<1>3. /\ Len(posted) \in Nat /\ Len(wire) \in Nat /\ Left = Len(posted) - Len(wire)
      /\ Left' = Len(posted) /\ Left \in Nat /\ Left <= Len(posted) /\ DOMAIN wire = 1..Len(wire)
  BY <1>1, <1>2 DEF RealtimeTypes, Left
<1>4. RealtimeTypes'
  <2>1. missed' \in [Connected.sockets -> SUBSET Nat]
    <3>1. \A t : Push!LostWith(t) \subseteq Nat
      BY <1>2 DEF Push!LostWith, RealtimeTypes
    <3>2. QED  BY <1>1, <1>2, <3>1 DEF RealtimeTypes
  <2>2. <<>> \in Seq(Nat) /\ Len(<<>>) = 0
    OBVIOUS
  <2>3. QED  BY <1>1, <1>2, <1>3, <2>1, <2>2 DEF RealtimeTypes
<1>5. wire' \in Seq(Nat) /\ posted' \in Seq(Connected.tenants)
  BY <1>4 DEF RealtimeTypes
<1>6. ChannelsAreOrdered'
  BY <1>1, <1>3, <1>5, ChannelsStay
<1>7. NextIsInChannel'
  BY <1>1 DEF RealtimeInv, NextIsInChannel, Messages
<1>8. ASSUME NEW s \in Connected.sockets  PROVE ReceivedIsBehind(s)' /\ Accounted(s)' /\ Told(s)'
  <2>1. Messages(s)' = Messages(s)
    BY <1>1 DEF Messages
  <2>2. missed[s] \subseteq missed'[s]
    BY <1>1
  <2>3. ASSUME socket[s].state = "open", NEW n \in 1..Left', n > Left, posted[n] = Connected.tenantOf[s]
        PROVE  n \in missed'[s]
    <3>1. n - Left \in DOMAIN wire /\ wire[n - Left] = Left + (n - Left) /\ Left + (n - Left) = n
      <4>1. n - Left \in DOMAIN wire
        BY <1>2, <1>3, <2>3 DEF RealtimeTypes
      <4>2. Left + (n - Left) = n
        BY <1>2, <1>3, <2>3
      <4>3. \A i \in DOMAIN wire : wire[i] = Left + i
        BY <1>2 DEF RealtimeTypes
      <4>4. QED  BY <4>1, <4>2, <4>3
    <3>2. n \in Push!LostWith(Connected.tenantOf[s])
      BY <3>1, <2>3 DEF Push!LostWith
    <3>3. s \in Push!Open(Connected.tenantOf[s])
      BY <2>3 DEF Push!Open
    <3>4. QED  BY <3>2, <3>3, <1>1
  <2>4. QED  BY <1>1, <1>3, <1>5, <2>1, <2>2, <2>3, SocketStays
<1>9. QED  BY <1>4, <1>6, <1>7, <1>8 DEF RealtimeInv
LEMMA ListenKeeps ==
    ASSUME Push!Assumptions, RealtimeInv, Push!Listen
    PROVE  RealtimeInv'
<1> PICK n : n = Head(wire)  OBVIOUS
<1> PICK t : t = posted[n]  OBVIOUS
<1>1. /\ listener = "listening" /\ wire # <<>> /\ channel' = Push!Broadcast(n) /\ wire' = Tail(wire)
      /\ UNCHANGED <<posted, listener, socket, received, missed>>
  BY DEF Push!Listen
<1>2. RealtimeTypes
  BY DEF RealtimeInv
<1>3. /\ Len(posted) \in Nat /\ Len(wire) \in Nat /\ Len(wire) > 0 /\ DOMAIN wire = 1..Len(wire)
      /\ Left \in Nat /\ Left = Len(posted) - Len(wire)
  BY <1>1, <1>2 DEF RealtimeTypes, Left
<1>4. n = Left + 1 /\ n \in DOMAIN posted /\ t \in Connected.tenants
  <2>1. n = wire[1] /\ 1 \in DOMAIN wire
    BY <1>1, <1>2, <1>3 DEF RealtimeTypes
  <2>2. n = Left + 1
    BY <2>1, <1>2 DEF RealtimeTypes
  <2>3. n \in 1..Len(posted) /\ DOMAIN posted = 1..Len(posted)
    BY <2>2, <1>2, <1>3 DEF RealtimeTypes
  <2>4. QED  BY <2>2, <2>3, <1>2 DEF RealtimeTypes
<1>5. /\ wire' \in Seq(Nat) /\ Len(wire') = Len(wire) - 1 /\ Left' = Left + 1
      /\ \A i \in DOMAIN wire' : wire'[i] = Left' + i
  <2>1. /\ wire' \in Seq(Nat) /\ Len(wire') = Len(wire) - 1
        /\ \A i \in 1..(Len(wire) - 1) : wire'[i] = wire[i + 1]
    BY <1>1, <1>2, <1>3 DEF RealtimeTypes
  <2>2. Left' = Left + 1
    BY <1>1, <1>3, <2>1 DEF Left
  <2>3. ASSUME NEW i \in DOMAIN wire'  PROVE wire'[i] = Left' + i
    <3>1. i \in 1..(Len(wire) - 1) /\ i + 1 \in DOMAIN wire
      BY <2>1, <1>3
    <3>2. wire'[i] = Left + (i + 1)
      BY <3>1, <2>1, <1>2 DEF RealtimeTypes
    <3>3. QED  BY <3>1, <3>2, <2>2, <1>3
  <2>4. QED  BY <2>1, <2>2, <2>3
<1> PICK c : c = channel[t]  OBVIOUS
<1>6. /\ c \in Seq(Nat) /\ Append(c, n) \in Seq(Nat) /\ Len(Append(c, n)) = Len(c) + 1
      /\ Append(c, n)[Len(c) + 1] = n /\ \A i \in DOMAIN c : Append(c, n)[i] = c[i]
      /\ Len(c) \in Nat /\ DOMAIN c = 1..Len(c) /\ DOMAIN Append(c, n) = 1..(Len(c) + 1)
  BY <1>2, <1>3, <1>4 DEF RealtimeTypes
<1>7. \/ Push!Open(t) = {} /\ channel' = channel
      \/ Push!Open(t) # {} /\ channel' = [channel EXCEPT ![t] = Append(c, n)]
  BY <1>1 DEF Push!Broadcast
<1>8. RealtimeTypes'
  <2>1. channel' \in [Connected.tenants -> Seq(Nat)]
    BY <1>2, <1>6, <1>7 DEF RealtimeTypes
  <2>2. Len(wire') <= Len(posted')
    BY <1>1, <1>2, <1>3, <1>5 DEF RealtimeTypes
  <2>3. QED  BY <1>1, <1>2, <1>5, <2>1, <2>2 DEF RealtimeTypes
<1>9. /\ posted' \in Seq(Connected.tenants) /\ posted' = posted /\ Len(posted) <= Len(posted')
             /\ Left <= Left'
      /\ posted \in Seq(Connected.tenants) /\ wire \in Seq(Nat) /\ Len(wire) <= Len(posted)
      /\ Left' <= Len(posted')
  BY <1>1, <1>2, <1>3, <1>5, <1>8 DEF RealtimeTypes
<1>10. ASSUME NEW u \in Connected.tenants
       PROVE  /\ channel[u] \in Seq(Nat)
              /\ \A i \in DOMAIN channel[u] : channel[u][i] \in 1..Left' /\ posted'[channel[u][i]] = u
                                              /\ channel[u][i] \in 1..Left
              /\ \A i, j \in DOMAIN channel[u] : i < j => channel[u][i] < channel[u][j]
  <2>1. Ordered(channel[u], u)
    BY DEF RealtimeInv, ChannelsAreOrdered
  <2>2. QED  BY <1>9, <1>3, <1>5, <2>1 DEF Ordered
<1>11. ChannelsAreOrdered'
  <2> SUFFICES ASSUME NEW u \in Connected.tenants  PROVE Ordered(channel[u], u)'
    BY DEF ChannelsAreOrdered
  <2>1. CASE channel'[u] = channel[u]
    BY <2>1, <1>10 DEF Ordered
  <2>2. CASE channel'[u] # channel[u]
    <3>1. u = t /\ channel'[u] = Append(c, n)
      BY <2>2, <1>2, <1>7 DEF RealtimeTypes
    <3> PICK q : q = Append(c, n)  OBVIOUS
    <3>2. \A i \in DOMAIN q : (i \in DOMAIN c /\ q[i] = c[i]) \/ (i = Len(c) + 1 /\ q[i] = n)
      BY <1>6
    <3>3. \A i \in DOMAIN c : c[i] \in 1..Left /\ posted[c[i]] = t
      BY <1>10, <3>1, <1>9
    <3>4. \A i, j \in DOMAIN c : i < j => c[i] < c[j]
      BY <1>10, <3>1
    <3>5. \A i \in DOMAIN q : q[i] \in 1..Left' /\ posted'[q[i]] = t
      BY <3>2, <3>3, <1>3, <1>4, <1>5, <1>9
    <3>6. ASSUME NEW i \in DOMAIN q, NEW j \in DOMAIN q, i < j  PROVE q[i] < q[j]
      <4>1. i \in DOMAIN c
        BY <3>6, <1>6
      <4>2. CASE j \in DOMAIN c
        BY <4>1, <4>2, <3>4, <3>6, <1>6
      <4>3. CASE j = Len(c) + 1
        <5>1. q[i] = c[i] /\ c[i] \in 1..Left /\ q[j] = n
          BY <4>1, <4>3, <1>6, <3>3
        <5>2. c[i] \in Nat /\ c[i] <= Left /\ Left \in Nat /\ n = Left + 1
          BY <5>1, <1>3, <1>4
        <5>3. c[i] < n
          BY <5>2
        <5>4. QED  BY <5>1, <5>3
      <4>4. QED  BY <4>2, <4>3, <1>6
    <3>7. \A i, j \in DOMAIN q : i < j => q[i] < q[j]
      BY <3>6
    <3>8. q \in Seq(Nat) /\ q = channel'[u]
      BY <3>1, <1>6
    <3>9. QED  BY ZenonT(60), <3>1, <3>5, <3>7, <3>8 DEF Ordered
  <2>3. QED  BY <2>1, <2>2
<1>12. NextIsInChannel'
  <2> SUFFICES ASSUME NEW s \in Connected.sockets  PROVE socket[s].next \in 1..(Len(Messages(s)') + 1)
    BY <1>1 DEF NextIsInChannel
  <2>1. socket[s].next \in 1..(Len(Messages(s)) + 1)
    BY DEF RealtimeInv, NextIsInChannel
  <2>2. Messages(s)' = Messages(s) \/ (Messages(s) = c /\ Messages(s)' = Append(c, n))
    BY <1>2, <1>7 DEF Messages, RealtimeTypes, Push!Assumptions
  <2>3. QED  BY <2>1, <2>2, <1>6
<1>13. ASSUME NEW s \in Connected.sockets  PROVE ReceivedIsBehind(s)' /\ Accounted(s)' /\ Told(s)'
  <2>0. Connected.tenantOf[s] \in Connected.tenants
    BY DEF Push!Assumptions
  <2>1. CASE Messages(s)' = Messages(s) /\ (Connected.tenantOf[s] = t => socket[s].state # "open")
    <3>1. socket[s].state = "open" =>
            \A k \in 1..Left' : k > Left /\ posted'[k] = Connected.tenantOf[s] => k \in missed'[s]
      <4>1. \A k \in 1..Left' : k > Left => k = n
        BY <1>3, <1>4, <1>5
      <4>2. QED  BY <4>1, <2>1, <1>9
    <3>2. socket'[s] = socket[s] /\ received'[s] = received[s] /\ missed[s] \subseteq missed'[s]
      BY <1>1
    <3>3. wire' \in Seq(Nat) /\ \A k \in DOMAIN posted : posted'[k] = posted[k]
      BY <1>5, <1>9
    <3>4. QED  BY <1>9, <2>1, <3>1, <3>2, <3>3, SocketStays
  <2>2. CASE Connected.tenantOf[s] = t /\ Messages(s) = c /\ Messages(s)' = Append(c, n)
    <3>1. /\ ReceivedIsBehind(s) /\ Accounted(s) /\ Told(s) /\ socket[s].next \in 1..(Len(c) + 1)
      BY <2>2 DEF RealtimeInv, NextIsInChannel
    <3>2. Got(s)' = Got(s)
      BY <1>1 DEF Got
    <3>3. Ahead(s)' = Ahead(s) \cup {n}
      <4> PICK k : k = socket[s].next  OBVIOUS
      <4>1. Ahead(s) = {c[i] : i \in {j \in DOMAIN c : j >= k}}
        BY <2>2 DEF Ahead
      <4> PICK q : q = Append(c, n)  OBVIOUS
      <4>2. Ahead(s)' = {q[i] : i \in {j \in DOMAIN q : j >= k}}
        BY <2>2, <1>1 DEF Ahead
      <4>3. /\ \A i \in DOMAIN c : i \in DOMAIN q /\ q[i] = c[i]
            /\ Len(c) + 1 \in DOMAIN q /\ q[Len(c) + 1] = n /\ Len(c) + 1 >= k
            /\ \A i \in DOMAIN q : i \in DOMAIN c \/ i = Len(c) + 1
        BY <1>6, <3>1
      <4>4. QED  BY <4>1, <4>2, <4>3
    <3>4. \A g \in Got(s) : g \in 1..Left /\ posted[g] = Connected.tenantOf[s]
      BY <3>1 DEF ReceivedIsBehind, Ordered, Got
    <3>5. ReceivedIsBehind(s)'
      <4>1. Ordered(received[s], Connected.tenantOf[s])
        BY <3>1 DEF ReceivedIsBehind
      <4>2. Ordered(received[s], Connected.tenantOf[s])'
        BY <4>1, <1>1, <1>9, <1>3, <1>5 DEF Ordered
      <4>3. \A g \in Got(s) : g < n
        BY <3>4, <1>3, <1>4
      <4>4. QED  BY <1>1, <3>1, <3>2, <3>3, <4>2, <4>3 DEF ReceivedIsBehind
    <3>6. Accounted(s)'
      <4> SUFFICES ASSUME socket[s].state = "open", NEW i \in 1..Left',
                          NEW m \in Got(s) \cup Ahead(s) \cup {n}, posted[i] = Connected.tenantOf[s], m < i
                   PROVE  i \in Got(s) \cup missed[s] \cup Ahead(s) \cup {n}
        BY <1>1, <3>2, <3>3 DEF Accounted
      <4>1. CASE i = n
        BY <4>1
      <4>2. CASE i # n
        <5>1. i \in 1..Left /\ i < n
          BY <4>2, <1>3, <1>4, <1>5
        <5>2. m \in Got(s) \cup Ahead(s)
          BY <5>1, <1>3, <1>4
        <5>3. QED  BY <5>1, <5>2, <3>1 DEF Accounted
      <4>3. QED  BY <4>1, <4>2
    <3>7. Told(s)'
      BY <1>1, <3>1, <3>2 DEF Told
    <3>8. QED  BY <3>5, <3>6, <3>7
  <2>3. QED  BY <2>0, <2>1, <2>2, <1>7, <1>2 DEF Messages, Push!Open, RealtimeTypes
<1>14. QED  BY <1>8, <1>11, <1>12, <1>13 DEF RealtimeInv

\* A socket closes; the listener connects; the shutdown is asked for.
LEMMA OthersKeep ==
    ASSUME Push!Assumptions, RealtimeInv, Push!Connect \/ Push!RequestShutdown
    PROVE  RealtimeInv'
<1>1. /\ listener' = listener \/ (listener = "away" /\ listener' = "listening")
      /\ UNCHANGED <<posted, wire, channel, socket, received, missed>>
  BY DEF Push!Connect, Push!RequestShutdown
<1>2. RealtimeTypes'
  BY <1>1 DEF RealtimeInv, RealtimeTypes, Left
<1>3. ChannelsAreOrdered' /\ NextIsInChannel'
  BY <1>1 DEF RealtimeInv, ChannelsAreOrdered, Ordered, Left, NextIsInChannel, Messages
<1>4. ASSUME NEW s \in Connected.sockets  PROVE ReceivedIsBehind(s)' /\ Accounted(s)' /\ Told(s)'
  <2>1. ReceivedIsBehind(s) /\ Accounted(s) /\ Told(s)
    BY DEF RealtimeInv
  <2>2. Left' = Left /\ Got(s)' = Got(s) /\ Ahead(s)' = Ahead(s)
    BY <1>1 DEF Left, Got, Ahead, Messages
  <2>3. QED  BY <1>1, <2>1, <2>2 DEF ReceivedIsBehind, Accounted, Told, Ordered
<1>5. QED  BY <1>2, <1>3, <1>4 DEF RealtimeInv

\* What a socket does leaves the others alone.
LEMMA OneSocketMoves ==
    ASSUME Push!Assumptions, RealtimeInv, NEW s \in Connected.sockets,
           UNCHANGED <<posted, listener, wire, channel>>,
           socket' \in [Connected.sockets -> [state : {"new", "open", "closed"}, next : Nat]],
           received' \in [Connected.sockets -> Seq(Nat)], missed' \in [Connected.sockets -> SUBSET Nat],
           \A r \in Connected.sockets : r # s =>
             socket'[r] = socket[r] /\ received'[r] = received[r] /\ missed'[r] = missed[r],
           socket'[s].next \in 1..(Len(Messages(s)) + 1),
           ReceivedIsBehind(s)', Accounted(s)', Told(s)'
    PROVE  RealtimeInv'
<1>1. RealtimeTypes'
  BY DEF RealtimeInv, RealtimeTypes, Left
<1>2. ChannelsAreOrdered'
  BY DEF RealtimeInv, ChannelsAreOrdered, Ordered, Left
<1>3. NextIsInChannel'
  BY DEF RealtimeInv, NextIsInChannel, Messages
<1>4. ASSUME NEW r \in Connected.sockets, r # s  PROVE ReceivedIsBehind(r)' /\ Accounted(r)' /\ Told(r)'
  <2>1. ReceivedIsBehind(r) /\ Accounted(r) /\ Told(r)
    BY DEF RealtimeInv
  <2>2. socket'[r] = socket[r] /\ received'[r] = received[r] /\ missed'[r] = missed[r]
    BY <1>4
  <2>3. Left' = Left /\ Got(r)' = Got(r) /\ Ahead(r)' = Ahead(r)
    BY <2>2 DEF Left, Got, Ahead, Messages
  <2>4. QED  BY <2>1, <2>2, <2>3 DEF ReceivedIsBehind, Accounted, Told, Ordered
<1>5. QED  BY <1>1, <1>2, <1>3, <1>4 DEF RealtimeInv

LEMMA SubscribeKeeps ==
    ASSUME Push!Assumptions, RealtimeInv, NEW s \in Connected.sockets, Push!Subscribe(s)
    PROVE  RealtimeInv'
<1> PICK k : k = Len(Messages(s)) + 1  OBVIOUS
<1>1. /\ socket[s].state = "new"
      /\ socket' = [socket EXCEPT ![s] = [state |-> "open", next |-> k]]
      /\ UNCHANGED <<posted, listener, wire, channel, received, missed>>
  BY DEF Push!Subscribe, Messages
<1>2. RealtimeTypes /\ Messages(s) \in Seq(Nat)
  BY DEF RealtimeInv, RealtimeTypes, Messages, Push!Assumptions
<1>3. k \in Nat /\ k \in 1..(Len(Messages(s)) + 1) /\ \A i \in DOMAIN Messages(s) : i < k
  BY <1>2
<1>4. /\ socket' \in [Connected.sockets -> [state : {"new", "open", "closed"}, next : Nat]]
      /\ socket'[s].next = k /\ socket'[s].state = "open"
      /\ \A r \in Connected.sockets : r # s => socket'[r] = socket[r]
  BY <1>1, <1>2, <1>3 DEF RealtimeTypes
<1>5. received[s] = <<>> /\ Ordered(received[s], Connected.tenantOf[s])
  BY <1>1 DEF RealtimeInv, ReceivedIsBehind
<1>6. Got(s)' = {} /\ Ahead(s)' = {}
  <2>1. Got(s)' = {}
    BY <1>1, <1>5 DEF Got
  <2>2. Ahead(s)' = {Messages(s)[i] : i \in {j \in DOMAIN Messages(s) : j >= k}}
    BY <1>1, <1>4 DEF Ahead, Messages
  <2>3. {j \in DOMAIN Messages(s) : j >= k} = {}
    BY <1>2, <1>3
  <2>4. QED  BY <2>1, <2>2, <2>3
<1>7. Ordered(received[s], Connected.tenantOf[s])'
  BY <1>1, <1>5 DEF Ordered, Left
<1>8. ReceivedIsBehind(s)' /\ Accounted(s)' /\ Told(s)'
  BY <1>1, <1>4, <1>5, <1>6, <1>7 DEF ReceivedIsBehind, Accounted, Told
<1>9. /\ received' \in [Connected.sockets -> Seq(Nat)] /\ missed' \in [Connected.sockets -> SUBSET Nat]
      /\ socket'[s].next \in 1..(Len(Messages(s)) + 1)
  BY <1>1, <1>2, <1>3, <1>4 DEF RealtimeTypes
<1>10. QED  BY <1>1, <1>4, <1>8, <1>9, OneSocketMoves

LEMMA CloseKeeps ==
    ASSUME Push!Assumptions, RealtimeInv, NEW s \in Connected.sockets, Push!Close(s)
    PROVE  RealtimeInv'
<1>1. /\ socket[s].state = "open"
      /\ socket' = [socket EXCEPT ![s].state = "closed"]
      /\ UNCHANGED <<posted, listener, wire, channel, received, missed>>
  BY DEF Push!Close
<1>2. RealtimeTypes
  BY DEF RealtimeInv
<1>3. /\ socket' \in [Connected.sockets -> [state : {"new", "open", "closed"}, next : Nat]]
      /\ socket'[s].next = socket[s].next /\ socket'[s].state = "closed"
      /\ \A r \in Connected.sockets : r # s => socket'[r] = socket[r]
  BY <1>1, <1>2 DEF RealtimeTypes
<1>4. ReceivedIsBehind(s) /\ Told(s) /\ socket[s].next \in 1..(Len(Messages(s)) + 1)
  BY DEF RealtimeInv, NextIsInChannel
<1>5. Got(s)' = Got(s) /\ Left' = Left
  BY <1>1 DEF Got, Left
<1>6. ReceivedIsBehind(s)' /\ Accounted(s)' /\ Told(s)'
  BY <1>1, <1>3, <1>4, <1>5 DEF ReceivedIsBehind, Ordered, Accounted, Told
<1>7. received' \in [Connected.sockets -> Seq(Nat)] /\ missed' \in [Connected.sockets -> SUBSET Nat]
  BY <1>1, <1>2 DEF RealtimeTypes
<1>8. QED  BY <1>1, <1>3, <1>4, <1>6, <1>7, OneSocketMoves
LEMMA MaxOfTwo ==
    ASSUME NEW a \in Int, NEW b \in Int
    PROVE  Push!Max({a, b}) \in {a, b} /\ Push!Max({a, b}) >= a /\ Push!Max({a, b}) >= b
<1>1. \E x \in {a, b} : \A y \in {a, b} : x >= y
  <2>1. CASE a >= b
    BY <2>1
  <2>2. CASE ~(a >= b)
    BY <2>2
  <2>3. QED  BY <2>1, <2>2
<1>2. QED  BY <1>1 DEF Push!Max

\* A receiver goes on with its next message, or with the oldest one kept.
LEMMA ResumeIs ==
    ASSUME Push!Assumptions, RealtimeInv, NEW s \in Connected.sockets,
           socket[s].next <= Len(Messages(s))
    PROVE  /\ Push!Oldest(s) \in Nat /\ Push!Oldest(s) <= Len(Messages(s))
           /\ Push!Resume(s) \in socket[s].next..Len(Messages(s))
           /\ Push!Resume(s) = socket[s].next \/ Push!Resume(s) = Push!Oldest(s)
<1> PICK k : k = socket[s].next  OBVIOUS
<1> PICK l : l = Len(Messages(s))  OBVIOUS
<1>1. k \in Nat /\ l \in Nat /\ k >= 1 /\ k <= l /\ Connected.bufferSize \in Nat /\ Connected.bufferSize >= 1
  BY DEF RealtimeInv, RealtimeTypes, NextIsInChannel, Messages, Push!Assumptions
<1> PICK o : o = Push!Oldest(s)  OBVIOUS
<1>2. o = Push!Max({1, l - Connected.bufferSize + 1})
  BY DEF Push!Oldest, Messages
<1>3. o \in {1, l - Connected.bufferSize + 1} /\ o >= 1
  <2> PICK b : b = l - Connected.bufferSize + 1  OBVIOUS
  <2>1. b \in Int /\ 1 \in Int
    BY <1>1
  <2>2. Push!Max({1, b}) \in {1, b} /\ Push!Max({1, b}) >= 1
    BY <2>1, MaxOfTwo
  <2>3. o = Push!Max({1, b})
    BY <1>2
  <2>4. QED  BY <2>2, <2>3
<1>4. o \in Nat /\ o <= l
  BY <1>1, <1>3
<1>5. Push!Resume(s) = Push!Max({k, o})
  BY DEF Push!Resume
<1>6. Push!Resume(s) \in {k, o} /\ Push!Resume(s) >= k
  <2>1. k \in Int /\ o \in Int
    BY <1>1, <1>4
  <2>2. Push!Max({k, o}) \in {k, o} /\ Push!Max({k, o}) >= k
    BY <2>1, MaxOfTwo
  <2>3. QED  BY <2>2, <1>5
<1>7. QED  BY <1>1, <1>4, <1>6

LEMMA SendKeeps ==
    ASSUME Push!Assumptions, RealtimeInv, NEW s \in Connected.sockets, Push!Send(s)
    PROVE  RealtimeInv'
<1> PICK q : q = Messages(s)  OBVIOUS
<1> PICK k : k = socket[s].next  OBVIOUS
<1> PICK o : o = Push!Oldest(s)  OBVIOUS
<1> PICK r : r = Push!Resume(s)  OBVIOUS
<1> PICK n : n = q[r]  OBVIOUS
<1> PICK g : g = received[s]  OBVIOUS
<1> PICK lost : lost = {q[i] : i \in k..(o - 1)}  OBVIOUS
<1>1. /\ socket[s].state = "open" /\ k <= Len(q)
      /\ socket' = [socket EXCEPT ![s].next = r + 1]
      /\ received' = [received EXCEPT ![s] = Append(@, n)]
      /\ missed' = [missed EXCEPT ![s] = @ \cup lost]
      /\ UNCHANGED <<posted, listener, wire, channel>>
  BY DEF Push!Send, Messages
<1>2. RealtimeTypes /\ Ordered(q, Connected.tenantOf[s]) /\ Connected.tenantOf[s] \in Connected.tenants
  BY DEF RealtimeInv, ChannelsAreOrdered, Messages, Push!Assumptions
<1>3. /\ k \in Nat /\ k >= 1 /\ o \in Nat /\ o <= Len(q) /\ r \in k..Len(q)
      /\ r = k \/ r = o
      /\ Len(q) \in Nat /\ DOMAIN q = 1..Len(q) /\ q \in Seq(Nat)
  <2>1. k \in 1..(Len(q) + 1) /\ Len(q) \in Nat /\ q \in Seq(Nat)
    BY <1>2 DEF RealtimeInv, NextIsInChannel, Ordered
  <2>2. o \in Nat /\ o <= Len(q) /\ r \in k..Len(q) /\ (r = k \/ r = o)
    BY <1>1, ResumeIs
  <2>3. QED  BY <2>1, <2>2
<1>4. r \in DOMAIN q /\ r \in Nat /\ n \in Nat /\ n \in 1..Left /\ posted[n] = Connected.tenantOf[s]
  BY <1>2, <1>3 DEF Ordered
<1>5. /\ ReceivedIsBehind(s) /\ Accounted(s) /\ g \in Seq(Nat) /\ Ordered(g, Connected.tenantOf[s])
  BY DEF RealtimeInv, ReceivedIsBehind, Ordered
<1>6. /\ Append(g, n) \in Seq(Nat) /\ Len(Append(g, n)) = Len(g) + 1 /\ Len(g) \in Nat
      /\ Append(g, n)[Len(g) + 1] = n /\ \A i \in DOMAIN g : Append(g, n)[i] = g[i]
      /\ DOMAIN g = 1..Len(g) /\ DOMAIN Append(g, n) = 1..(Len(g) + 1)
  BY <1>4, <1>5
<1>7. /\ socket' \in [Connected.sockets -> [state : {"new", "open", "closed"}, next : Nat]]
      /\ socket'[s].next = r + 1 /\ socket'[s].state = "open"
      /\ \A x \in Connected.sockets : x # s => socket'[x] = socket[x]
  BY <1>1, <1>2, <1>4 DEF RealtimeTypes
<1>8. /\ received' \in [Connected.sockets -> Seq(Nat)] /\ received'[s] = Append(g, n)
      /\ \A x \in Connected.sockets : x # s => received'[x] = received[x]
  BY <1>1, <1>2, <1>6 DEF RealtimeTypes
<1>9. /\ missed' \in [Connected.sockets -> SUBSET Nat] /\ missed'[s] = missed[s] \cup lost
      /\ \A x \in Connected.sockets : x # s => missed'[x] = missed[x]
  <2>1. \A i \in k..(o - 1) : i \in DOMAIN q
    BY <1>3
  <2>2. lost \subseteq Nat
    BY <2>1, <1>3
  <2>3. QED  BY <2>2, <1>1, <1>2 DEF RealtimeTypes
<1>10. Got(s)' = Got(s) \cup {n} /\ Left' = Left
  <2>1. \A i \in DOMAIN Append(g, n) : (i \in DOMAIN g /\ Append(g, n)[i] = g[i])
            \/ (i = Len(g) + 1 /\ Append(g, n)[i] = n)
    BY <1>6
  <2>2. \A i \in DOMAIN g : i \in DOMAIN Append(g, n) /\ Append(g, n)[i] = g[i]
    BY <1>6
  <2>3. Len(g) + 1 \in DOMAIN Append(g, n) /\ Append(g, n)[Len(g) + 1] = n
    BY <1>6
  <2> PICK h : h = Append(g, n)  OBVIOUS
  <2>4. Got(s)' = {h[i] : i \in DOMAIN h} /\ Got(s) = {g[i] : i \in DOMAIN g}
    BY <1>8 DEF Got
  <2>5. {h[i] : i \in DOMAIN h} = {g[i] : i \in DOMAIN g} \cup {n}
    BY <2>1, <2>2, <2>3
  <2>6. Left' = Left
    BY <1>1 DEF Left
  <2>7. QED  BY <2>4, <2>5, <2>6
<1>11. /\ Ahead(s) = {q[i] : i \in {j \in DOMAIN q : j >= k}}
       /\ Ahead(s)' = {q[i] : i \in {j \in DOMAIN q : j >= r + 1}}
  BY <1>1, <1>7 DEF Ahead, Messages
<1>12. /\ n \in Ahead(s) /\ Ahead(s)' \subseteq Ahead(s)
       /\ Ahead(s) \subseteq Ahead(s)' \cup {n} \cup lost
       /\ \A m \in Ahead(s)' : n < m
  <2>1. r >= k /\ \A j \in DOMAIN q : j >= r + 1 => j >= k
    BY <1>3, <1>4
  <2>2. n \in Ahead(s) /\ Ahead(s)' \subseteq Ahead(s)
    BY <2>1, <1>4, <1>11
  <2>3. ASSUME NEW i \in DOMAIN q, i >= k  PROVE q[i] \in Ahead(s)' \cup {n} \cup lost
    <3>1. CASE i >= r + 1
      BY <3>1, <1>11
    <3>2. CASE i = r
      BY <3>2
    <3>3. CASE i < r
      <4>1. i \in k..(o - 1)
        BY <1>3, <1>4, <2>3, <3>3
      <4>2. QED  BY <4>1
    <3>4. QED  BY <3>1, <3>2, <3>3, <1>3, <1>4
  <2>4. ASSUME NEW i \in DOMAIN q, i >= r + 1  PROVE n < q[i]
    <3>1. r < i
      BY <1>3, <1>4, <2>4
    <3>2. QED  BY <3>1, <1>2, <1>4 DEF Ordered
  <2>5. QED  BY <2>2, <2>3, <2>4, <1>11
<1>13. \A m \in Got(s) : m < n /\ \A a \in Ahead(s)' : m < a
  BY <1>1, <1>5, <1>12 DEF ReceivedIsBehind
<1>14. Ordered(Append(g, n), Connected.tenantOf[s])
  <2> PICK h : h = Append(g, n)  OBVIOUS
  <2>1. \A i \in DOMAIN h : (i \in DOMAIN g /\ h[i] = g[i]) \/ (i = Len(g) + 1 /\ h[i] = n)
    BY <1>6
  <2>2. \A i \in DOMAIN h : h[i] \in 1..Left /\ posted[h[i]] = Connected.tenantOf[s]
    BY <2>1, <1>4, <1>5 DEF Ordered
  <2>3. ASSUME NEW i \in DOMAIN h, NEW j \in DOMAIN h, i < j  PROVE h[i] < h[j]
    <3>1. i \in DOMAIN g /\ h[i] = g[i]
      BY <2>3, <1>6
    <3>2. CASE j \in DOMAIN g
      BY <3>1, <3>2, <2>3, <1>5, <1>6 DEF Ordered
    <3>3. CASE j = Len(g) + 1
      <4>1. h[j] = n /\ g[i] \in Got(s)
        BY <3>1, <3>3, <1>6 DEF Got
      <4>2. g[i] < n
        BY <4>1, <1>13
      <4>3. QED  BY <3>1, <4>1, <4>2
    <3>4. QED  BY <3>2, <3>3, <2>1
  <2>4. \A i, j \in DOMAIN h : i < j => h[i] < h[j]
    BY <2>3
  <2>5. h \in Seq(Nat)
    BY <1>6
  <2>6. Ordered(h, Connected.tenantOf[s])
    BY ZenonT(60), <2>2, <2>4, <2>5 DEF Ordered
  <2>7. QED  BY <2>6
<1>15. ReceivedIsBehind(s)'
  <2>1. Ordered(received[s], Connected.tenantOf[s])'
    BY <1>1, <1>8, <1>10, <1>14 DEF Ordered
  <2>2. \A m \in Got(s)', a \in Ahead(s)' : m < a
    BY <1>10, <1>12, <1>13
  <2>3. QED  BY <1>7, <2>1, <2>2 DEF ReceivedIsBehind
<1>16. Accounted(s)'
  <2> SUFFICES ASSUME NEW i \in 1..Left, NEW m \in Got(s)' \cup Ahead(s)',
                      posted[i] = Connected.tenantOf[s], m < i
               PROVE  i \in Got(s)' \cup missed'[s] \cup Ahead(s)'
    BY <1>1, <1>10 DEF Accounted
  <2>1. m \in Got(s) \cup Ahead(s)
    BY <1>10, <1>12
  <2>2. i \in Got(s) \cup missed[s] \cup Ahead(s)
    BY <2>1, <1>1, <1>5 DEF Accounted
  <2>3. QED  BY <2>2, <1>9, <1>10, <1>12
<1>17. Told(s)'
  <2> SUFFICES ASSUME NEW i \in DOMAIN posted, NEW m \in Got(s)', NEW x \in Got(s)',
                      posted[i] = Connected.tenantOf[s], m < i, i < x
               PROVE  i \in Got(s)' \cup missed'[s]
    BY <1>1 DEF Told
  <2>1. x \in 1..Left /\ i \in Nat /\ i >= 1 /\ Left \in Nat
    <3>1. x \in Got(s) => x \in 1..Left
      BY <1>5 DEF Ordered, Got
    <3>2. posted \in Seq(Connected.tenants) /\ i \in 1..Len(posted)
      BY <1>2 DEF RealtimeTypes
    <3>3. Left \in Nat
      BY <1>2 DEF RealtimeTypes, Left
    <3>4. QED  BY <3>1, <3>2, <3>3, <1>4, <1>10
  <2>2. i \in 1..Left
    BY <2>1
  <2>3. i \in Got(s)' \cup missed'[s] \cup Ahead(s)'
    BY <2>2, <1>1, <1>7, <1>10, <1>16 DEF Accounted
  <2>4. i \notin Ahead(s)'
    <3>1. i \in Ahead(s)' => x < i
      BY <1>10, <1>12, <1>13
    <3>2. QED  BY <3>1, <2>1
  <2>5. QED  BY <2>3, <2>4
<1>18. socket'[s].next \in 1..(Len(Messages(s)) + 1)
  BY <1>3, <1>4, <1>7
<1>19. QED  BY <1>1, <1>7, <1>8, <1>9, <1>15, <1>16, <1>17, <1>18, OneSocketMoves

LEMMA RealtimeStep ==
    ASSUME Push!Assumptions, RealtimeInv, Push!Next
    PROVE  RealtimeInv'
<1>1. CASE \E t \in Connected.tenants : Push!Post(t)
  BY <1>1, PostKeeps
<1>2. CASE Push!Connect \/ Push!Disconnect \/ Push!Listen \/ Push!RequestShutdown \/ Push!ListenerEnds
  BY <1>2, OthersKeep, ConnectionLost, ListenKeeps
<1>3. CASE \E s \in Connected.sockets : Push!Subscribe(s) \/ Push!Send(s) \/ Push!Close(s)
  BY <1>3, SubscribeKeeps, SendKeeps, CloseKeeps
<1>4. QED  BY <1>1, <1>2, <1>3 DEF Push!Next

LEMMA RealtimeStutter ==
    ASSUME RealtimeInv, UNCHANGED Push!vars
    PROVE  RealtimeInv'
<1>1. UNCHANGED <<posted, wire, listener, channel, socket, received, missed>>
  BY DEF Push!vars
<1>2. RealtimeTypes'
  BY <1>1 DEF RealtimeInv, RealtimeTypes, Left
<1>3. ChannelsAreOrdered' /\ NextIsInChannel'
  BY <1>1 DEF RealtimeInv, ChannelsAreOrdered, Ordered, Left, NextIsInChannel, Messages
<1>4. ASSUME NEW s \in Connected.sockets  PROVE ReceivedIsBehind(s)' /\ Accounted(s)' /\ Told(s)'
  <2>1. ReceivedIsBehind(s) /\ Accounted(s) /\ Told(s)
    BY DEF RealtimeInv
  <2>2. Left' = Left /\ Got(s)' = Got(s) /\ Ahead(s)' = Ahead(s)
    BY <1>1 DEF Left, Got, Ahead, Messages
  <2>3. QED  BY <1>1, <2>1, <2>2 DEF ReceivedIsBehind, Accounted, Told, Ordered
<1>5. QED  BY <1>2, <1>3, <1>4 DEF RealtimeInv

LEMMA RealtimeTells ==
    ASSUME RealtimeInv
    PROVE  Push!TypeOK /\ Push!SocketStory
<1>1. Push!TypeOK
  BY DEF RealtimeInv, RealtimeTypes, NextIsInChannel, Messages, Push!TypeOK
<1>2. ASSUME NEW s \in Connected.sockets
      PROVE  LET got == {received[s][i] : i \in DOMAIN received[s]}
             IN /\ \A i, j \in DOMAIN received[s] : i < j => received[s][i] < received[s][j]
                /\ \A n \in got : posted[n] = Connected.tenantOf[s]
                /\ \A n \in DOMAIN posted :
                     /\ posted[n] = Connected.tenantOf[s]
                     /\ \E m, k \in got : m < n /\ n < k
                     => n \in got \cup missed[s]
  <2>1. Ordered(received[s], Connected.tenantOf[s]) /\ Told(s)
    BY DEF RealtimeInv, ReceivedIsBehind
  <2>2. \A n \in Got(s) : posted[n] = Connected.tenantOf[s]
    BY <2>1 DEF Ordered, Got
  <2>3. QED  BY <2>1, <2>2 DEF Ordered, Told, Got
<1>3. QED  BY <1>1, <1>2 DEF Push!SocketStory

-----------------------------------------------------------------------------
(* Custody accounts and their assignments.                                 *)

AccountRow == [source : {"none", "pool", "user"},
               status : {"none", "available", "assigned", "disabled"},
               opened : {"none", "available", "assigned", "disabled"}]
AssignmentRow == [status : {"none", "active", "released"}, account : Custodian.addresses \cup {None}]
WatchedRow == [status : {"none", "active", "paused"}, bound : BOOLEAN]
EffectNames == {"no", "created", "reactivated", "bound", "unchanged"}
Call == [pc : {"idle", "watch", "commit"}, ref : Custodian.refs \cup {None}, account : Custodian.addresses \cup {None},
         todo : SUBSET Custody!Chains, held : [Custody!Chains -> EffectNames],
             edited : SUBSET Custody!Chains]
FullyWatched == [status |-> "active", bound |-> TRUE]

CustodyTypes ==
    /\ account \in [Custodian.addresses -> AccountRow]
    /\ assignment \in [Custodian.refs -> AssignmentRow]
    /\ assigner \in [Custodian.assigners -> Call]
    /\ DOMAIN watched = Custodian.addresses /\ watched = [a \in Custodian.addresses |-> watched[a]]
    /\ \A a \in Custodian.addresses : watched[a] \in [Custodian.configs[a] -> WatchedRow]

NoneIsUnbound ==
    \A a \in Custodian.addresses : \A c \in Custodian.configs[a] : watched[a][c].status = "none"
        => ~watched[a][c].bound

\* What an account of the pool is while it is assigned and while it is not.
AccountsAreHonest ==
    \A a \in Custodian.addresses :
      /\ Custody!Assigned(a) => account[a].source # "none"
      /\ account[a].source = "none" => account[a] = Custody!NoAccount
      /\ account[a].source = "pool" =>
           IF Custody!Assigned(a) THEN account[a].opened = "available" /\ account[a].status = "assigned"
           ELSE account[a].status = account[a].opened

OneReference ==
    \A q, r \in Custodian.refs : assignment[q].status = "active" /\ assignment[q] = assignment[r]
        => q = r

\* What a transaction did to a chain is what the row needs, unless the user
\* changed it since; what it bound is still there.
HeldIsOk(m, w) ==
    /\ m.todo \subseteq Custodian.configs[m.account]
    /\ \A c \in Custodian.configs[m.account] :
      /\ c \in m.todo <=> m.held[c] = "no"
      /\ m.held[c] = "bound" => w[c].status # "none"
      /\ c \notin m.edited =>
           /\ m.held[c] = "bound" => w[c].status = "active"
           /\ m.held[c] = "unchanged" => w[c] = FullyWatched

CallIsOk(t) ==
    /\ assigner[t].pc = "idle" => assigner[t] = Custody!Idle
    /\ assigner[t].pc # "idle" =>
         /\ assigner[t].account \in Custodian.addresses /\ assigner[t].ref \in Custodian.refs
         /\ account[assigner[t].account].source = "pool" =>
              account[assigner[t].account].status = "available"
         /\ HeldIsOk(assigner[t], watched[assigner[t].account])
    /\ assigner[t].pc = "commit" =>
         /\ assigner[t].todo = {}
         /\ assignment[assigner[t].ref].status = "none"
         /\ ~Custody!Assigned(assigner[t].account)

\* An account is locked by one transaction, a reference inserted by one.
OneHolder ==
    \A t, u \in Custodian.assigners :
      t # u =>
        /\ assigner[t].pc # "idle" /\ assigner[u].pc # "idle" =>
             assigner[t].account # assigner[u].account
        /\ assigner[t].pc = "commit" /\ assigner[u].pc = "commit" =>
             assigner[t].ref # assigner[u].ref

CustodyInv ==
    /\ CustodyTypes /\ NoneIsUnbound /\ AccountsAreHonest /\ OneReference /\ OneHolder
    /\ \A t \in Custodian.assigners : CallIsOk(t)

LEMMA IdleIsACall ==
    Custody!Idle \in Call /\ Custody!Idle.pc = "idle" /\ Custody!Idle.account = None
        /\ \A c \in Custody!Chains : Custody!Idle.held[c] = "no"
BY DEF Custody!Idle, Call, EffectNames

LEMMA CustodyInit ==
    ASSUME Custody!Assumptions, Custody!Init
    PROVE  CustodyInv
<1>1. CustodyTypes
  <2>1. assigner \in [Custodian.assigners -> Call]
    BY IdleIsACall DEF Custody!Init
  <2>2. account \in [Custodian.addresses -> AccountRow]
            /\ assignment \in [Custodian.refs -> AssignmentRow]
    BY DEF Custody!Init, AccountRow, Custody!NoAccount, AssignmentRow
  <2>3. DOMAIN watched = Custodian.addresses /\ watched = [a \in Custodian.addresses |-> watched[a]]
        /\ \A a \in Custodian.addresses : watched[a] \in [Custodian.configs[a] -> WatchedRow]
    BY ZenonT(60) DEF Custody!Init, WatchedRow, Custody!Unwatched
  <2>4. QED  BY ZenonT(60), <2>1, <2>2, <2>3 DEF CustodyTypes
<1>2. NoneIsUnbound
  BY DEF Custody!Init, NoneIsUnbound, Custody!Unwatched
<1>3. \A a : ~Custody!Assigned(a)
  BY DEF Custody!Init, Custody!Assigned
<1>4. AccountsAreHonest /\ OneReference
  BY <1>3 DEF Custody!Init, AccountsAreHonest, OneReference, Custody!NoAccount
<1>5. OneHolder /\ \A t \in Custodian.assigners : CallIsOk(t)
  BY ZenonT(60), IdleIsACall DEF Custody!Init, OneHolder, CallIsOk
<1>6. QED  BY <1>1, <1>2, <1>4, <1>5 DEF CustodyInv

\* A call stays as it should be while its account, its watched addresses and its
\* reference are left alone and nobody else gets its account.
LEMMA CallStays ==
    ASSUME CustodyInv, NEW t \in Custodian.assigners, assigner'[t] = assigner[t],
           assigner[t].pc # "idle" =>
             /\ account'[assigner[t].account] = account[assigner[t].account]
             /\ watched'[assigner[t].account] = watched[assigner[t].account],
           assigner[t].pc = "commit" =>
             /\ assignment'[assigner[t].ref] = assignment[assigner[t].ref]
             /\ Custody!Assigned(assigner[t].account)' => Custody!Assigned(assigner[t].account)
    PROVE  CallIsOk(t)'
<1> PICK m : m = assigner[t]  OBVIOUS
<1>1. CallIsOk(t)
  BY DEF CustodyInv
<1>2. m.pc # "idle" => HeldIsOk(m, watched'[m.account])
  BY <1>1 DEF CallIsOk
<1>3. m.pc = "commit" => ~Custody!Assigned(m.account)'
  BY <1>1 DEF CallIsOk
<1>4. Custody!Assigned(assigner[t].account)' <=> Custody!Assigned(m.account)'
  BY DEF Custody!Assigned
<1>5. QED  BY <1>1, <1>2, <1>3, <1>4 DEF CallIsOk

LEMMA CreateKeeps ==
    ASSUME Custody!Assumptions, CustodyInv, NEW b \in Custodian.addresses, Custody!CreateAccount(b)
    PROVE  CustodyInv'
<1> PICK g \in Custodian.given : account' = [account EXCEPT ![b] =
                                  [source |-> g.source, status |-> g.status, opened |-> g.status]]
  BY DEF Custody!CreateAccount
<1>1. /\ account[b] = Custody!NoAccount /\ ~Custody!Locked(b)
             /\ UNCHANGED <<assignment, watched, assigner>>
      /\ g.source \in {"pool", "user"} /\ g.status \in {"available", "assigned", "disabled"}
  BY DEF Custody!CreateAccount, Custody!Assumptions
<1>2. CustodyTypes'
  BY <1>1 DEF CustodyInv, CustodyTypes, AccountRow
<1>3. account'[b] = [source |-> g.source, status |-> g.status, opened |-> g.status]
      /\ \A a \in Custodian.addresses : a # b => account'[a] = account[a]
  BY DEF CustodyInv, CustodyTypes
<1>4. \A a : Custody!Assigned(a)' <=> Custody!Assigned(a)
  BY <1>1 DEF Custody!Assigned
<1>5. ~Custody!Assigned(b)
  BY <1>1 DEF CustodyInv, AccountsAreHonest, Custody!NoAccount
<1>6. AccountsAreHonest'
  BY <1>1, <1>3, <1>4, <1>5 DEF CustodyInv, AccountsAreHonest
<1>7. NoneIsUnbound' /\ OneReference' /\ OneHolder'
  BY <1>1 DEF CustodyInv, NoneIsUnbound, OneReference, OneHolder
<1>8. ASSUME NEW t \in Custodian.assigners  PROVE CallIsOk(t)'
  <2>1. assigner[t].pc # "idle" => assigner[t].account # b
            /\ assigner[t].account \in Custodian.addresses
    BY <1>1 DEF CustodyInv, CallIsOk, Custody!Locked
  <2>2. QED  BY <2>1, <1>1, <1>3, <1>4, CallStays
<1>9. QED  BY <1>2, <1>6, <1>7, <1>8 DEF CustodyInv

\* A step of one call that writes nothing yet.
LEMMA OneCallMoves ==
    ASSUME Custody!Assumptions, CustodyInv, NEW t \in Custodian.assigners, NEW m \in Call,
           assigner' = [assigner EXCEPT ![t] = m], UNCHANGED <<account, assignment, watched>>,
           m.pc = "idle" => m = Custody!Idle,
           m.pc # "idle" =>
             /\ m.account \in Custodian.addresses /\ m.ref \in Custodian.refs
             /\ account[m.account].source = "pool" => account[m.account].status = "available"
             /\ HeldIsOk(m, watched[m.account])
             /\ \A u \in Custodian.assigners : u # t => assigner[u].account # m.account,
           m.pc = "commit" =>
             /\ m.todo = {} /\ assignment[m.ref].status = "none" /\ ~Custody!Assigned(m.account)
             /\ \A u \in Custodian.assigners : u # t /\ assigner[u].pc = "commit"
                    => assigner[u].ref # m.ref
    PROVE  CustodyInv'
<1>1. assigner' \in [Custodian.assigners -> Call] /\ assigner'[t] = m
      /\ \A u \in Custodian.assigners : u # t => assigner'[u] = assigner[u]
  BY DEF CustodyInv, CustodyTypes
<1>2. CustodyTypes'
  BY <1>1 DEF CustodyInv, CustodyTypes
<1>3. NoneIsUnbound' /\ OneReference'
  BY DEF CustodyInv, NoneIsUnbound, OneReference
<1>4. \A a : Custody!Assigned(a)' <=> Custody!Assigned(a)
  BY DEF Custody!Assigned
<1>5. AccountsAreHonest'
  BY <1>4 DEF CustodyInv, AccountsAreHonest
<1>6. OneHolder'
  BY <1>1 DEF CustodyInv, OneHolder
<1>7. ASSUME NEW u \in Custodian.assigners, u # t  PROVE CallIsOk(u)'
  BY <1>1, <1>4, <1>7, CallStays
<1>8. CallIsOk(t)'
  <2>1. Custody!Assigned(assigner[t].account)' <=> Custody!Assigned(m.account)
    BY <1>1 DEF Custody!Assigned
  <2>2. QED  BY <1>1, <2>1 DEF CallIsOk
<1>9. QED  BY <1>2, <1>3, <1>5, <1>6, <1>7, <1>8 DEF CustodyInv

LEMMA FailureKeeps ==
    ASSUME Custody!Assumptions, CustodyInv, NEW t \in Custodian.assigners, Custody!Fails(t),
           UNCHANGED <<account, assignment, watched>>
    PROVE  CustodyInv'
BY IdleIsACall, OneCallMoves DEF Custody!Fails

LEMMA ClaimKeeps ==
    ASSUME Custody!Assumptions, CustodyInv, NEW t \in Custodian.assigners, NEW r \in Custodian.refs,
           NEW a \in Custodian.addresses,
           Custody!ClaimPoolAccount(t, r, a) \/ Custody!ClaimUserAccount(t, r, a)
    PROVE  CustodyInv'
<1> PICK m : m = [Custody!Idle EXCEPT !.pc = "watch", !.ref = r, !.account = a, !.todo = Custodian.configs[a]]
  OBVIOUS
<1>1. /\ ~Custody!Locked(a) /\ assigner' = [assigner EXCEPT ![t] = m]
             /\ UNCHANGED <<account, assignment, watched>>
      /\ account[a].source = "pool" => account[a].status = "available"
  BY DEF Custody!ClaimPoolAccount, Custody!ClaimUserAccount, Custody!Claims, Custody!NoAccount
<1>2. Custodian.configs[a] \subseteq Custody!Chains
  BY DEF Custody!Chains
<1>3. m \in Call /\ m.pc = "watch" /\ m.ref = r /\ m.account = a /\ m.todo = Custodian.configs[a]
          /\ m.held = Custody!Idle.held
  BY <1>2 DEF Custody!Idle, Call, EffectNames
<1>4. HeldIsOk(m, watched[a])
  BY <1>2, <1>3, IdleIsACall DEF HeldIsOk
<1>5. \A u \in Custodian.assigners : assigner[u].account # a
  BY <1>1 DEF Custody!Locked
<1>6. QED  BY <1>1, <1>3, <1>4, <1>5, OneCallMoves

LEMMA EnsureKeeps ==
    ASSUME Custody!Assumptions, CustodyInv, NEW t \in Custodian.assigners, Custody!EnsureWatched(t)
    PROVE  CustodyInv'
<1> PICK n : n = assigner[t]  OBVIOUS
<1> PICK a : a = n.account  OBVIOUS
<1> PICK w : w = watched[a]  OBVIOUS
<1> PICK c \in n.todo : assigner'
                            = [assigner EXCEPT ![t].todo = @ \ {c}, ![t].held[c] = Custody!Effect(w[c])]
  BY DEF Custody!EnsureWatched
<1>1. n.pc = "watch" /\ UNCHANGED <<account, assignment, watched>>
  BY DEF Custody!EnsureWatched
<1>2. /\ n \in Call /\ a \in Custodian.addresses /\ n.ref \in Custodian.refs /\ HeldIsOk(n, w)
      /\ account[a].source = "pool" => account[a].status = "available"
      /\ \A u \in Custodian.assigners : u # t /\ assigner[u].pc # "idle" => assigner[u].account # a
  BY <1>1 DEF CustodyInv, CustodyTypes, CallIsOk, OneHolder
<1> PICK e : e = Custody!Effect(w[c])  OBVIOUS
<1> PICK m : m = assigner'[t]  OBVIOUS
<1>3. c \in Custody!Chains /\ n.held \in [Custody!Chains -> EffectNames]
          /\ n.todo \subseteq Custody!Chains
  BY <1>2 DEF Call
<1>4. c \in Custodian.configs[a] => /\ e \in EffectNames /\ e # "no"
                                    /\ e = "bound" => w[c].status = "active"
                                    /\ e = "unchanged" => w[c] = FullyWatched
  <2> SUFFICES ASSUME c \in Custodian.configs[a]
               PROVE  /\ e \in EffectNames /\ e # "no"
                      /\ e = "bound" => w[c].status = "active"
                      /\ e = "unchanged" => w[c] = FullyWatched
    OBVIOUS
  <2>1. w[c] \in WatchedRow
    BY <1>2 DEF CustodyInv, CustodyTypes
  <2>2. CASE w[c].status = "none"
    BY <2>2 DEF Custody!Effect, EffectNames
  <2>3. CASE w[c].status = "paused"
    BY <2>3 DEF Custody!Effect, EffectNames
  <2>4. CASE w[c].status = "active"
    <3>1. e = IF w[c].bound THEN "unchanged" ELSE "bound"
      BY <2>4 DEF Custody!Effect
    <3>2. w[c].bound => w[c] = FullyWatched
      BY <2>1, <2>4 DEF WatchedRow, FullyWatched
    <3>3. QED  BY <2>4, <3>1, <3>2 DEF EffectNames
  <2>5. QED  BY <2>1, <2>2, <2>3, <2>4 DEF WatchedRow
<1>5. c \in Custodian.configs[a] /\ c \in Custody!Chains
  BY <1>2, <1>3 DEF HeldIsOk
<1> PICK h : h = [n.held EXCEPT ![c] = e]  OBVIOUS
<1> PICK todo : todo = n.todo \ {c}  OBVIOUS
<1>6. m = [n EXCEPT !.todo = todo, !.held = h] /\ assigner' = [assigner EXCEPT ![t] = m]
  BY <1>2, <1>3 DEF CustodyInv, CustodyTypes, Call
<1>7. h \in [Custody!Chains -> EffectNames] /\ todo \in SUBSET Custody!Chains
  BY <1>3, <1>4, <1>5
<1>8. /\ m \in Call /\ m.pc = "watch" /\ m.ref = n.ref /\ m.account = a /\ m.edited = n.edited
      /\ m.todo = todo /\ m.held = h
  <2>1. n \in Call /\ n.pc = "watch" /\ n.account = a
    BY <1>1, <1>2
  <2>2. /\ m.pc = n.pc /\ m.ref = n.ref /\ m.account = n.account /\ m.edited = n.edited
        /\ m.todo = todo /\ m.held = h
    BY <2>1, <1>6 DEF Call
  <2>3. m \in Call
    BY <2>1, <1>6, <1>7 DEF Call
  <2>4. QED  BY <2>1, <2>2, <2>3
<1>9. HeldIsOk(m, w)
  <2>1. Custodian.configs[a] \subseteq Custody!Chains
    BY <1>2 DEF Custody!Chains
  <2>2. m.held[c] = e /\ \A d \in Custodian.configs[a] : d # c => m.held[d] = n.held[d]
    <3>1. h[c] = e /\ \A d \in Custody!Chains : d # c => h[d] = n.held[d]
      <4>1. n.held \in [Custody!Chains -> EffectNames] /\ c \in Custody!Chains
        BY <1>3
      <4>2. QED  BY <4>1
    <3>2. QED  BY <1>5, <1>8, <2>1, <3>1
  <2>3. m.todo \subseteq Custodian.configs[a]
    BY <1>2, <1>8 DEF HeldIsOk
  <2>4. ASSUME NEW d \in Custodian.configs[a], d # c
        PROVE  /\ d \in m.todo <=> m.held[d] = "no"
               /\ m.held[d] = "bound" => w[d].status # "none"
               /\ d \notin m.edited =>
                    /\ m.held[d] = "bound" => w[d].status = "active"
                    /\ m.held[d] = "unchanged" => w[d] = FullyWatched
    <3>1. /\ d \in n.todo <=> n.held[d] = "no"
          /\ n.held[d] = "bound" => w[d].status # "none"
          /\ d \notin n.edited =>
               /\ n.held[d] = "bound" => w[d].status = "active"
               /\ n.held[d] = "unchanged" => w[d] = FullyWatched
      BY <1>2 DEF HeldIsOk
    <3>2. m.held[d] = n.held[d] /\ (d \in m.todo <=> d \in n.todo)
      BY <1>8, <2>2, <2>4
    <3>3. QED  BY <1>8, <3>1, <3>2
  <2>5. /\ c \notin m.todo /\ m.held[c] # "no"
        /\ m.held[c] = "bound" => w[c].status = "active"
        /\ m.held[c] = "unchanged" => w[c] = FullyWatched
    <3>1. c \notin m.todo
      BY <1>8
    <3>2. m.held[c] = e
      BY <2>2
    <3>3. QED  BY ZenonT(60), <1>4, <1>5, <3>1, <3>2
  <2>6. QED  BY <1>8, <2>3, <2>4, <2>5 DEF HeldIsOk
<1>10. \A u \in Custodian.assigners : u # t => assigner[u].account # a
  BY <1>2, IdleIsACall DEF CustodyInv, CallIsOk, Custody!Assumptions
<1>11. /\ m.pc # "idle" /\ m.pc # "commit" /\ m.account \in Custodian.addresses
              /\ m.ref \in Custodian.refs
       /\ account[m.account].source = "pool" => account[m.account].status = "available"
       /\ HeldIsOk(m, watched[m.account])
       /\ \A u \in Custodian.assigners : u # t => assigner[u].account # m.account
  BY <1>2, <1>8, <1>9, <1>10
<1>12. QED  BY <1>1, <1>6, <1>8, <1>11, OneCallMoves

LEMMA CustodyInsertKeeps ==
    ASSUME Custody!Assumptions, CustodyInv, NEW t \in Custodian.assigners, Custody!InsertAssignment(t)
    PROVE  CustodyInv'
<1> PICK n : n = assigner[t]  OBVIOUS
<1> PICK m : m = [n EXCEPT !.pc = "commit"]  OBVIOUS
<1>1. /\ n.pc = "watch" /\ n.todo = {} /\ UNCHANGED <<account, assignment, watched>>
      /\ \A u \in Custodian.assigners : assigner[u].pc = "commit" => assigner[u].ref # n.ref
  BY DEF Custody!InsertAssignment
<1>2. /\ n \in Call /\ n.account \in Custodian.addresses /\ n.ref \in Custodian.refs
             /\ HeldIsOk(n, watched[n.account])
      /\ account[n.account].source = "pool" => account[n.account].status = "available"
      /\ \A u \in Custodian.assigners : u # t /\ assigner[u].pc # "idle"
             => assigner[u].account # n.account
  BY <1>1 DEF CustodyInv, CustodyTypes, CallIsOk, OneHolder
<1>3. CASE Custody!Fails(t)
  BY <1>1, <1>3, FailureKeeps
<1>4. CASE ~Custody!Fails(t)
  <2>1. ~Custody!RefTaken(n.ref) /\ ~Custody!Assigned(n.account)
            /\ assigner' = [assigner EXCEPT ![t].pc = "commit"]
    BY <1>4 DEF Custody!InsertAssignment
  <2>2. assigner' = [assigner EXCEPT ![t] = m]
    BY <2>1 DEF CustodyInv, CustodyTypes
  <2>3. /\ m \in Call /\ m.pc = "commit" /\ m.ref = n.ref /\ m.account = n.account /\ m.todo = n.todo
        /\ m.held = n.held /\ m.edited = n.edited
    BY <1>2 DEF Call
  <2>4. HeldIsOk(m, watched[m.account])
    BY <1>2, <2>3 DEF HeldIsOk
  <2>5. \A u \in Custodian.assigners : u # t => assigner[u].account # m.account
    BY <1>2, <2>3, IdleIsACall DEF CustodyInv, CallIsOk, Custody!Assumptions
  <2>6. assignment[m.ref].status = "none"
    BY <2>1, <2>3 DEF Custody!RefTaken
  <2>7. /\ m.pc # "idle" /\ m.account \in Custodian.addresses /\ m.ref \in Custodian.refs /\ m.todo = {}
        /\ account[m.account].source = "pool" => account[m.account].status = "available"
        /\ ~Custody!Assigned(m.account)
        /\ \A u \in Custodian.assigners : u # t /\ assigner[u].pc = "commit" => assigner[u].ref # m.ref
    BY <1>1, <1>2, <2>1, <2>3
  <2>8. QED  BY <1>1, <2>2, <2>3, <2>4, <2>5, <2>6, <2>7, OneCallMoves
<1>5. QED  BY <1>3, <1>4

\* What a commit writes to a row is a row.
LEMMA AfterIsARow ==
    ASSUME NEW row \in WatchedRow, NEW e \in EffectNames,
           row.status = "none" => ~row.bound, e = "bound" => row.status # "none"
    PROVE  Custody!After(row, e) \in WatchedRow
               /\ (Custody!After(row, e).status = "none" => ~Custody!After(row, e).bound)
<1>1. CASE e \in {"created", "reactivated"}
  BY <1>1 DEF Custody!After, WatchedRow
<1>2. CASE e = "bound"
  <2>1. Custody!After(row, e) = [row EXCEPT !.bound = TRUE]
    BY <1>2 DEF Custody!After
  <2>2. QED  BY <1>2, <2>1 DEF WatchedRow
<1>3. CASE e \in {"no", "unchanged"}
  BY <1>3 DEF Custody!After
<1>4. QED  BY <1>1, <1>2, <1>3 DEF EffectNames

\* What holds where a transaction commits.
LEMMA CommitTells ==
    ASSUME CustodyInv, NEW t \in Custodian.assigners, Custody!Commit(t)
    PROVE  /\ assigner[t] \in Call /\ assigner[t].account \in Custodian.addresses
                  /\ assigner[t].ref \in Custodian.refs
           /\ assignment[assigner[t].ref].status = "none" /\ ~Custody!Assigned(assigner[t].account)
           /\ HeldIsOk(assigner[t], watched[assigner[t].account]) /\ assigner[t].todo = {}
           /\ assignment' = [assignment EXCEPT ![assigner[t].ref] =
                               [status |-> "active", account |-> assigner[t].account]]
           /\ watched'[assigner[t].account] =
                [c \in Custodian.configs[assigner[t].account] |->
                   Custody!After(watched[assigner[t].account][c], assigner[t].held[c])]
           /\ \A b \in Custodian.addresses : b # assigner[t].account => watched'[b] = watched[b]
<1> PICK n : n = assigner[t]  OBVIOUS
<1>1. /\ n.pc = "commit"
      /\ assignment' = [assignment EXCEPT ![n.ref] = [status |-> "active", account |-> n.account]]
      /\ watched' = [watched EXCEPT ![n.account] =
                       [c \in Custodian.configs[n.account] |-> Custody!After(@[c], n.held[c])]]
  BY DEF Custody!Commit
<1>2. /\ n \in Call /\ n.account \in Custodian.addresses /\ n.ref \in Custodian.refs
             /\ HeldIsOk(n, watched[n.account])
      /\ n.todo = {} /\ assignment[n.ref].status = "none" /\ ~Custody!Assigned(n.account)
  BY <1>1 DEF CustodyInv, CustodyTypes, CallIsOk, Custody!Assigned
<1>3. DOMAIN watched = Custodian.addresses
  BY ZenonT(60) DEF CustodyInv, CustodyTypes
<1>4. QED  BY <1>1, <1>2, <1>3

LEMMA CustodyCommitKeeps ==
    ASSUME Custody!Assumptions, CustodyInv, NEW t \in Custodian.assigners, Custody!Commit(t)
    PROVE  CustodyInv'
<1> PICK n : n = assigner[t]  OBVIOUS
<1> PICK a : a = n.account  OBVIOUS
<1> PICK r : r = n.ref  OBVIOUS
<1> PICK row : row = IF account[a]
                   = Custody!NoAccount THEN [source |-> "user", status |-> "assigned", opened |-> "assigned"]
                     ELSE [account[a] EXCEPT !.status = "assigned"]
  OBVIOUS
<1>1. /\ n \in Call /\ a \in Custodian.addresses /\ r \in Custodian.refs
             /\ assignment[r].status = "none" /\ ~Custody!Assigned(a)
      /\ HeldIsOk(n, watched[a]) /\ n.todo = {}
      /\ assignment' = [assignment EXCEPT ![r] = [status |-> "active", account |-> a]]
      /\ watched'[a] = [c \in Custodian.configs[a] |-> Custody!After(watched[a][c], n.held[c])]
      /\ \A b \in Custodian.addresses : b # a => watched'[b] = watched[b]
  BY CommitTells
<1>2. /\ n.pc = "commit" /\ account' = [account EXCEPT ![a] = row]
             /\ assigner' = [assigner EXCEPT ![t] = Custody!Idle]
      /\ watched' = [watched EXCEPT ![a] = [c \in Custodian.configs[a] |-> Custody!After(@[c], n.held[c])]]
  BY DEF Custody!Commit, Custody!Fails
<1>3. /\ assigner' \in [Custodian.assigners -> Call] /\ assigner'[t] = Custody!Idle
      /\ \A u \in Custodian.assigners : u # t => assigner'[u] = assigner[u]
  BY <1>2, IdleIsACall DEF CustodyInv, CustodyTypes
<1>4. /\ assignment'[r] = [status |-> "active", account |-> a]
      /\ \A q \in Custodian.refs : q # r => assignment'[q] = assignment[q]
  BY <1>1 DEF CustodyInv, CustodyTypes
<1>5. \A b : Custody!Assigned(b)' <=> (b = a \/ Custody!Assigned(b))
  <2>1. \A b : Custody!Assigned(b)' <=> \E q
            \in Custodian.refs : assignment'[q] = [status |-> "active", account |-> b]
    BY DEF Custody!Assigned
  <2>2. assignment[r] # [status |-> "active", account |-> a]
            /\ \A b : assignment[r] # [status |-> "active", account |-> b]
    BY <1>1
  <2>3. ASSUME NEW b, b # a, NEW q \in Custodian.refs
        PROVE  assignment'[q]
                   = [status |-> "active", account |-> b] <=> assignment[q]
                       = [status |-> "active", account |-> b]
    <3>1. CASE q = r
      BY <1>4, <2>2, <2>3, <3>1
    <3>2. CASE q # r
      BY <1>4, <3>2
    <3>3. QED  BY <3>1, <3>2
  <2>4. Custody!Assigned(a)'
    BY <1>1, <1>4, <2>1
  <2>5. QED  BY <1>1, <2>1, <2>3, <2>4 DEF Custody!Assigned
<1>6. account'[a] = row /\ \A b \in Custodian.addresses : b # a => account'[b] = account[b]
  BY <1>1, <1>2 DEF CustodyInv, CustodyTypes
<1>7. \A c \in Custodian.configs[a] : Custody!After(watched[a][c], n.held[c]) \in WatchedRow
                                      /\ (Custody!After(watched[a][c], n.held[c]).status = "none" => ~Custody!After(watched[a][c], n.held[c]).bound)
  <2> TAKE c \in Custodian.configs[a]
  <2>1. watched[a][c] \in WatchedRow /\ (watched[a][c].status = "none" => ~watched[a][c].bound)
    BY <1>1 DEF CustodyInv, CustodyTypes, NoneIsUnbound
  <2>2. n.held[c] \in EffectNames
    BY <1>1 DEF Call, Custody!Chains
  <2>3. n.held[c] = "bound" => watched[a][c].status # "none"
    BY <1>1 DEF HeldIsOk
  <2>4. QED  BY <2>1, <2>2, <2>3, AfterIsARow
<1>8. account[a] \in AccountRow /\ row \in AccountRow /\ row.status = "assigned" /\ row.source # "none"
      /\ (row.source = "pool" => row.opened = "available")
  <2>1. account[a] \in AccountRow
    BY <1>1 DEF CustodyInv, CustodyTypes
  <2>2. account[a].source = "none" => account[a] = Custody!NoAccount
    BY <1>1 DEF CustodyInv, AccountsAreHonest
  <2>3. account[a].source = "pool" => account[a].status = "available" /\ account[a].opened = "available"
    BY <1>1, <1>2 DEF CustodyInv, CallIsOk, AccountsAreHonest
  <2>4. CASE account[a] = Custody!NoAccount
    BY <2>1, <2>4 DEF AccountRow
  <2>5. CASE account[a] # Custody!NoAccount
    BY <2>1, <2>2, <2>3, <2>5 DEF AccountRow
  <2>6. QED  BY <2>4, <2>5
<1>9. CustodyTypes'
  <2>1. account' \in [Custodian.addresses -> AccountRow]
    BY <1>1, <1>2, <1>8 DEF CustodyInv, CustodyTypes
  <2>2. assignment' \in [Custodian.refs -> AssignmentRow]
    BY <1>1 DEF CustodyInv, CustodyTypes, AssignmentRow
  <2>3. watched'[a] \in [Custodian.configs[a] -> WatchedRow]
    BY <1>1, <1>7
  <2>4. \A b \in Custodian.addresses : watched'[b] \in [Custodian.configs[b] -> WatchedRow]
    BY <1>1, <2>3 DEF CustodyInv, CustodyTypes
  <2>5. DOMAIN watched' = Custodian.addresses /\ watched' = [b \in Custodian.addresses |-> watched'[b]]
    BY <1>2 DEF CustodyInv, CustodyTypes
  <2>6. QED  BY <1>3, <2>1, <2>2, <2>4, <2>5 DEF CustodyTypes
<1>10. NoneIsUnbound'
  <2>1. \A c \in Custodian.configs[a] : watched'[a][c].status = "none" => ~watched'[a][c].bound
    BY <1>1, <1>7
  <2>2. QED  BY <1>1, <2>1 DEF CustodyInv, NoneIsUnbound
<1>11. AccountsAreHonest'
  <2>1. ASSUME NEW b \in Custodian.addresses
        PROVE  /\ Custody!Assigned(b)' => account'[b].source # "none"
               /\ account'[b].source = "none" => account'[b] = Custody!NoAccount
               /\ account'[b].source = "pool" =>
                    IF Custody!Assigned(b)' THEN account'[b].opened = "available"
                        /\ account'[b].status = "assigned"
                    ELSE account'[b].status = account'[b].opened
    <3>1. CASE b = a
      BY <1>5, <1>6, <1>8, <3>1
    <3>2. CASE b # a
      BY <1>5, <1>6, <3>2 DEF CustodyInv, AccountsAreHonest
    <3>3. QED  BY <3>1, <3>2
  <2>2. QED  BY <2>1 DEF AccountsAreHonest
<1>12. OneReference'
  <2>1. ASSUME NEW p \in Custodian.refs, NEW q \in Custodian.refs, assignment'[p].status = "active",
               assignment'[p] = assignment'[q]
        PROVE  p = q
    <3>1. \A x \in Custodian.refs : x # r => assignment[x] # [status |-> "active", account |-> a]
      BY <1>1 DEF Custody!Assigned
    <3>2. QED  BY <1>4, <2>1, <3>1 DEF CustodyInv, OneReference
  <2>2. QED  BY <2>1 DEF OneReference
<1>13. OneHolder'
  BY <1>3, IdleIsACall DEF CustodyInv, OneHolder
<1>14. CallIsOk(t)'
  BY <1>3, IdleIsACall DEF CallIsOk
<1>15. ASSUME NEW u \in Custodian.assigners, u # t  PROVE CallIsOk(u)'
  <2>1. /\ assigner[u].pc # "idle" => assigner[u].account # a
               /\ assigner[u].account \in Custodian.addresses
        /\ assigner[u].pc = "commit" => assigner[u].ref # r /\ assigner[u].ref \in Custodian.refs
                                        /\ assigner[u].account # a
    BY <1>2, <1>15 DEF CustodyInv, OneHolder, CallIsOk
  <2>2. QED  BY <1>1, <1>3, <1>4, <1>5, <1>6, <1>15, <2>1, CallStays
<1>16. QED  BY <1>9, <1>10, <1>11, <1>12, <1>13, <1>14, <1>15 DEF CustodyInv

LEMMA ReleaseKeeps ==
    ASSUME Custody!Assumptions, CustodyInv, NEW r \in Custodian.refs, Custody!Release(r)
    PROVE  CustodyInv'
<1> PICK a : a = assignment[r].account  OBVIOUS
<1> PICK row : row = [account[a] EXCEPT !.status = IF account[a].source = "pool" THEN "available" ELSE account[a].status]
  OBVIOUS
<1>1. /\ assignment[r].status = "active" /\ ~Custody!Locked(a) /\ UNCHANGED <<watched, assigner>>
      /\ assignment' = [assignment EXCEPT ![r].status = "released"]
      /\ account' = [account EXCEPT ![a].status = IF account[a].source = "pool" THEN "available" ELSE @]
  BY DEF Custody!Release, Custody!MarkReleased
<1>2. assignment[r] \in AssignmentRow /\ assignment[r] = [status |-> "active", account |-> a]
  BY <1>1 DEF CustodyInv, CustodyTypes, AssignmentRow
<1>3. /\ assignment'[r] = [status |-> "released", account |-> a]
      /\ \A q \in Custodian.refs : q # r => assignment'[q] = assignment[q]
      /\ assignment' \in [Custodian.refs -> AssignmentRow]
  BY <1>1, <1>2 DEF CustodyInv, CustodyTypes, AssignmentRow
<1>4. \A q \in Custodian.refs : q # r => assignment[q] # [status |-> "active", account |-> a]
  <2> SUFFICES ASSUME NEW q \in Custodian.refs, assignment[q] = [status |-> "active", account |-> a]
               PROVE  q = r
    OBVIOUS
  <2>1. assignment[r].status = "active" /\ assignment[r] = assignment[q]
    BY <1>1, <1>2
  <2>2. QED  BY <2>1 DEF CustodyInv, OneReference
<1>5. ~Custody!Assigned(a)' /\ \A b : b # a => (Custody!Assigned(b)' <=> Custody!Assigned(b))
  <2>1. \A b : Custody!Assigned(b)' <=> \E q
            \in Custodian.refs : assignment'[q] = [status |-> "active", account |-> b]
    BY DEF Custody!Assigned
  <2>2. \A b : b # a => assignment[r] # [status |-> "active", account |-> b]
    BY <1>2
  <2>3. \A b : assignment'[r] # [status |-> "active", account |-> b]
    BY <1>3
  <2>4. QED  BY <1>3, <1>4, <2>1, <2>2, <2>3 DEF Custody!Assigned
<1>6. a \in Custodian.addresses => account[a] \in AccountRow
  BY ZenonT(60) DEF CustodyInv, CustodyTypes
<1>7. /\ a \in Custodian.addresses => account'[a] = row
      /\ \A b \in Custodian.addresses : b # a => account'[b] = account[b]
      /\ account' \in [Custodian.addresses -> AccountRow]
  <2>1. CASE a \notin Custodian.addresses
    BY <1>1, <2>1 DEF CustodyInv, CustodyTypes
  <2>2. CASE a \in Custodian.addresses
    <3>1. row \in AccountRow /\ account' = [account EXCEPT ![a] = row]
      BY <1>1, <1>6, <2>2 DEF CustodyInv, CustodyTypes, AccountRow
    <3>2. QED  BY <2>2, <3>1 DEF CustodyInv, CustodyTypes
  <2>3. QED  BY <2>1, <2>2
<1>8. CustodyTypes'
  BY <1>1, <1>3, <1>7 DEF CustodyInv, CustodyTypes
<1>9. Custody!Assigned(a)
  BY <1>2 DEF Custody!Assigned
<1>10. AccountsAreHonest'
  <2>1. ASSUME NEW b \in Custodian.addresses
        PROVE  /\ Custody!Assigned(b)' => account'[b].source # "none"
               /\ account'[b].source = "none" => account'[b] = Custody!NoAccount
               /\ account'[b].source = "pool" =>
                    IF Custody!Assigned(b)' THEN account'[b].opened = "available"
                        /\ account'[b].status = "assigned"
                    ELSE account'[b].status = account'[b].opened
    <3>1. CASE b = a
      <4>1. account[b].source # "none"
                /\ (account[b].source = "pool" => account[b].opened = "available")
        BY <1>9, <3>1 DEF CustodyInv, AccountsAreHonest
      <4>2. row.source = account[b].source /\ row.opened = account[b].opened
            /\ (account[b].source = "pool" => row.status = "available")
        BY <1>6, <3>1 DEF AccountRow
      <4>3. account'[b] = row /\ ~Custody!Assigned(b)'
        BY <1>5, <1>7, <3>1
      <4>4. QED  BY <4>1, <4>2, <4>3
    <3>2. CASE b # a
      <4>1. (Custody!Assigned(b)' <=> Custody!Assigned(b)) /\ account'[b] = account[b]
        BY <1>5, <1>7, <3>2
      <4>2. /\ Custody!Assigned(b) => account[b].source # "none"
            /\ account[b].source = "none" => account[b] = Custody!NoAccount
            /\ account[b].source = "pool" =>
                 IF Custody!Assigned(b) THEN account[b].opened = "available"
                     /\ account[b].status = "assigned"
                 ELSE account[b].status = account[b].opened
        BY DEF CustodyInv, AccountsAreHonest
      <4>3. QED  BY <4>1, <4>2
    <3>3. QED  BY <3>1, <3>2
  <2>2. QED  BY <2>1 DEF AccountsAreHonest
<1>11. OneReference'
  BY <1>3 DEF CustodyInv, OneReference
<1>12. NoneIsUnbound' /\ OneHolder'
  BY <1>1 DEF CustodyInv, NoneIsUnbound, OneHolder
<1>13. ASSUME NEW u \in Custodian.assigners  PROVE CallIsOk(u)'
  <2>1. /\ assigner[u].pc # "idle" => assigner[u].account # a
               /\ assigner[u].account \in Custodian.addresses
        /\ assigner[u].pc = "commit" =>
             assigner[u].pc # "idle" /\ assigner[u].ref # r /\ assigner[u].ref \in Custodian.refs
    BY <1>1 DEF CustodyInv, CallIsOk, Custody!Locked
  <2>2. QED  BY <1>1, <1>3, <1>5, <1>7, <2>1, CallStays
<1>14. QED  BY <1>8, <1>10, <1>11, <1>12, <1>13 DEF CustodyInv

LEMMA CustodyEditKeeps ==
    ASSUME Custody!Assumptions, CustodyInv, NEW a \in Custodian.addresses,
           NEW c \in Custodian.configs[a], Custody!Edit(a, c)
    PROVE  CustodyInv'
<1> PICK row \in [status : {"none", "active", "paused"}, bound : BOOLEAN] :
      /\ row # watched[a][c]
      /\ row.status = "none" => row = Custody!Unwatched /\ "bound" \notin Custody!Effects(a, c)
      /\ watched' = [watched EXCEPT ![a][c] = row]
  BY DEF Custody!Edit
<1>1. /\ Custody!Effects(a, c) \cap {"created", "reactivated"} = {} /\ UNCHANGED <<account, assignment>>
      /\ assigner' = [t \in Custodian.assigners |->
           IF t \in Custody!Touches(a, c) THEN [assigner[t] EXCEPT !.edited = @ \cup {c}] ELSE assigner[t]]
  BY DEF Custody!Edit
<1>2. watched[a] \in [Custodian.configs[a] -> WatchedRow] /\ row \in WatchedRow
  BY DEF CustodyInv, CustodyTypes, WatchedRow
<1>3. /\ watched'[a] = [watched[a] EXCEPT ![c] = row]
      /\ \A b \in Custodian.addresses : b # a => watched'[b] = watched[b]
      /\ DOMAIN watched' = Custodian.addresses /\ watched' = [b \in Custodian.addresses |-> watched'[b]]
  BY DEF CustodyInv, CustodyTypes
<1>4. \A b \in Custodian.addresses : watched'[b] \in [Custodian.configs[b] -> WatchedRow]
  BY <1>2, <1>3 DEF CustodyInv, CustodyTypes
<1>5. ASSUME NEW t \in Custodian.assigners
      PROVE  /\ assigner'[t] \in Call /\ assigner'[t].pc = assigner[t].pc
                    /\ assigner'[t].ref = assigner[t].ref
             /\ assigner'[t].account = assigner[t].account /\ assigner'[t].todo = assigner[t].todo
             /\ assigner'[t].held = assigner[t].held
             /\ assigner'[t].edited = IF t \in Custody!Touches(a, c) THEN assigner[t].edited
                    \cup {c} ELSE assigner[t].edited
             /\ t \notin Custody!Touches(a, c) => assigner'[t] = assigner[t]
  <2>1. assigner[t] \in Call /\ c \in Custody!Chains
    BY DEF CustodyInv, CustodyTypes, Custody!Chains
  <2>2. CASE t \in Custody!Touches(a, c)
    <3> PICK ed : ed = assigner[t].edited \cup {c}  OBVIOUS
    <3>1. ed \in SUBSET Custody!Chains
      BY <2>1 DEF Call
    <3>2. assigner'[t] = [assigner[t] EXCEPT !.edited = ed]
      BY <1>1, <2>2
    <3>3. QED  BY <2>1, <2>2, <3>1, <3>2 DEF Call
  <2>3. CASE t \notin Custody!Touches(a, c)
    BY <1>1, <2>1, <2>3
  <2>4. QED  BY <2>2, <2>3
<1>6. CustodyTypes'
  <2>1. assigner' \in [Custodian.assigners -> Call]
    BY <1>1, <1>5
  <2>2. QED  BY <1>1, <1>3, <1>4, <2>1 DEF CustodyInv, CustodyTypes
<1>7. NoneIsUnbound'
  BY <1>2, <1>3 DEF CustodyInv, NoneIsUnbound, Custody!Unwatched
<1>8. \A b : Custody!Assigned(b)' <=> Custody!Assigned(b)
  BY <1>1 DEF Custody!Assigned
<1>9. AccountsAreHonest' /\ OneReference'
  BY <1>1, <1>8 DEF CustodyInv, AccountsAreHonest, OneReference
<1>10. OneHolder'
  <2>1. \A t \in Custodian.assigners : /\ assigner'[t].pc = assigner[t].pc /\ assigner'[t].ref = assigner[t].ref
                                        /\ assigner'[t].account = assigner[t].account
    BY <1>5
  <2>2. QED  BY <2>1 DEF CustodyInv, OneHolder
<1>11. ASSUME NEW t \in Custodian.assigners, assigner[t].pc # "idle"
       PROVE  HeldIsOk(assigner'[t], watched'[assigner[t].account])
  <2>1. HeldIsOk(assigner[t], watched[assigner[t].account])
            /\ assigner[t].account \in Custodian.addresses
    BY <1>11 DEF CustodyInv, CallIsOk
  <2>2. CASE assigner[t].account # a
    <3>1. t \notin Custody!Touches(a, c)
      BY <2>2 DEF Custody!Touches
    <3>2. QED  BY <1>3, <1>5, <2>1, <2>2, <3>1
  <2>3. CASE assigner[t].account = a
    <3> PICK n : n = assigner[t]  OBVIOUS
    <3> PICK m : m = assigner'[t]  OBVIOUS
    <3>1. /\ m.account = a /\ m.todo = n.todo /\ m.held = n.held
                 /\ n.todo \subseteq Custodian.configs[a]
          /\ m.edited = IF t \in Custody!Touches(a, c) THEN n.edited \cup {c} ELSE n.edited
      BY <1>5, <2>1, <2>3 DEF HeldIsOk
    <3>2. t \in Custody!Touches(a, c) <=> n.held[c] # "no"
      BY <2>3 DEF Custody!Touches
    <3>3. \A d \in Custodian.configs[a] :
            /\ d \in n.todo <=> n.held[d] = "no"
            /\ n.held[d] = "bound" => watched[a][d].status # "none"
            /\ d \notin n.edited =>
                 /\ n.held[d] = "bound" => watched[a][d].status = "active"
                 /\ n.held[d] = "unchanged" => watched[a][d] = FullyWatched
      BY <2>1, <2>3 DEF HeldIsOk
    <3>4. n.held[c] = "bound" => row.status # "none"
      BY <3>2 DEF Custody!Effects
    <3>5. watched'[a][c] = row /\ \A d \in Custodian.configs[a] : d # c
              => watched'[a][d] = watched[a][d]
      BY <1>2, <1>3
    <3>6. ASSUME NEW d \in Custodian.configs[a]
          PROVE  /\ d \in m.todo <=> m.held[d] = "no"
                 /\ m.held[d] = "bound" => watched'[a][d].status # "none"
                 /\ d \notin m.edited =>
                      /\ m.held[d] = "bound" => watched'[a][d].status = "active"
                      /\ m.held[d] = "unchanged" => watched'[a][d] = FullyWatched
      <4>1. CASE d = c
        BY <3>1, <3>2, <3>3, <3>4, <3>5, <4>1
      <4>2. CASE d # c
        BY <3>1, <3>3, <3>5, <4>2
      <4>3. QED  BY <4>1, <4>2
    <3>7. HeldIsOk(m, watched'[a])
      BY <3>1, <3>6 DEF HeldIsOk
    <3>8. QED  BY <2>3, <3>7
  <2>4. QED  BY <2>2, <2>3
<1>12. ASSUME NEW t \in Custodian.assigners  PROVE CallIsOk(t)'
  <2>1. CASE assigner[t].pc = "idle"
    <3>1. t \notin Custody!Touches(a, c)
      BY <2>1, IdleIsACall DEF CustodyInv, CallIsOk, Custody!Touches, Custody!Assumptions
    <3>2. QED  BY <1>5, <2>1, <3>1, CallStays
  <2>2. CASE assigner[t].pc # "idle"
    <3>1. CallIsOk(t)
      BY DEF CustodyInv
    <3>2. Custody!Assigned(assigner[t].account)' <=> Custody!Assigned(assigner[t].account)
      <4>1. assigner'[t].account = assigner[t].account
        BY <1>5
      <4>2. QED  BY <1>1, <4>1 DEF Custody!Assigned
    <3>3. /\ HeldIsOk(assigner[t], watched[assigner[t].account])'
          /\ assigner[t].pc' # "idle" /\ assigner[t].account' \in Custodian.addresses
                 /\ assigner[t].ref' \in Custodian.refs
          /\ account[assigner[t].account]'.source = "pool"
                 => account[assigner[t].account]'.status = "available"
      BY <1>1, <1>5, <1>11, <2>2, <3>1 DEF CallIsOk
    <3>4. assigner[t].pc' = "commit" =>
            assigner[t].todo' = {} /\ assignment[assigner[t].ref]'.status = "none"
                /\ ~Custody!Assigned(assigner[t].account)'
      BY <1>1, <1>5, <3>1, <3>2 DEF CallIsOk
    <3>5. QED  BY <3>3, <3>4 DEF CallIsOk
  <2>3. QED  BY <2>1, <2>2
<1>13. QED  BY <1>6, <1>7, <1>9, <1>10, <1>12 DEF CustodyInv

LEMMA CustodyStep ==
    ASSUME Custody!Assumptions, CustodyInv, Custody!Next
    PROVE  CustodyInv'
<1>1. ASSUME NEW a \in Custodian.addresses, Custody!CreateAccount(a)  PROVE CustodyInv'
  BY <1>1, CreateKeeps
<1>2. ASSUME NEW a \in Custodian.addresses, NEW c \in Custodian.configs[a], Custody!Edit(a, c) 
     PROVE CustodyInv'
  BY <1>2, CustodyEditKeeps
<1>3. ASSUME NEW t \in Custodian.assigners, Custody!AssignStep(t)  PROVE CustodyInv'
  BY <1>3, ClaimKeeps, EnsureKeeps, CustodyInsertKeeps, CustodyCommitKeeps DEF Custody!AssignStep
<1>4. ASSUME NEW t \in Custodian.assigners, Custody!Rollback(t)  PROVE CustodyInv'
  BY <1>4, FailureKeeps DEF Custody!Rollback
<1>5. ASSUME NEW r \in Custodian.refs, Custody!Release(r)  PROVE CustodyInv'
  BY <1>5, ReleaseKeeps
<1>6. QED  BY <1>1, <1>2, <1>3, <1>4, <1>5 DEF Custody!Next

LEMMA CustodyStutter ==
    ASSUME CustodyInv, UNCHANGED Custody!vars
    PROVE  CustodyInv'
<1>1. UNCHANGED <<account, assignment, watched, assigner>>
  BY DEF Custody!vars
<1>2. \A a : Custody!Assigned(a)' <=> Custody!Assigned(a)
  BY <1>1 DEF Custody!Assigned
<1>3. CustodyTypes' /\ NoneIsUnbound' /\ OneReference' /\ OneHolder'
  BY <1>1 DEF CustodyInv, CustodyTypes, NoneIsUnbound, OneReference, OneHolder
<1>4. AccountsAreHonest'
  BY <1>1, <1>2 DEF CustodyInv, AccountsAreHonest
<1>5. ASSUME NEW t \in Custodian.assigners  PROVE CallIsOk(t)'
  BY <1>1, <1>2, CallStays
<1>6. QED  BY <1>3, <1>4, <1>5 DEF CustodyInv

LEMMA CustodyTells ==
    ASSUME CustodyInv
    PROVE  Custody!TypeOK /\ Custody!PoolIsHonest
<1>1. Custody!TypeOK
  BY ZenonT(60) DEF CustodyInv, CustodyTypes, NoneIsUnbound, AccountRow, AssignmentRow, Custody!TypeOK
<1>2. Custody!PoolIsHonest
  BY DEF CustodyInv, OneReference, AccountsAreHonest, Custody!PoolIsHonest
<1>3. QED  BY <1>1, <1>2

LEMMA ReferenceStays ==
    ASSUME CustodyInv, Custody!Next \/ UNCHANGED Custody!vars, NEW r \in Custodian.refs
    PROVE  Custody!AssignedOnce(r)
<1>1. CASE UNCHANGED assignment
  BY <1>1 DEF Custody!AssignedOnce
<1>2. CASE \E t \in Custodian.assigners : Custody!Commit(t)
  <2> PICK t \in Custodian.assigners : Custody!Commit(t)  BY <1>2
  <2>1. CASE assigner[t].ref = r
    BY <2>1, CommitTells DEF Custody!AssignedOnce
  <2>2. CASE assigner[t].ref # r
    BY <2>2, CommitTells DEF Custody!AssignedOnce, CustodyInv, CustodyTypes
  <2>3. QED  BY <2>1, <2>2
<1>3. CASE \E q \in Custodian.refs : Custody!Release(q)
  <2> PICK q \in Custodian.refs : Custody!Release(q)  BY <1>3
  <2>1. assignment[q].status = "active" /\ assignment' = [assignment EXCEPT ![q].status = "released"]
    BY DEF Custody!Release
  <2>2. assignment[q] \in AssignmentRow
    BY DEF CustodyInv, CustodyTypes
  <2>3. QED  BY <2>1, <2>2 DEF Custody!AssignedOnce, CustodyInv, CustodyTypes, AssignmentRow
<1>4. QED
  BY ZenonT(60), <1>1, <1>2, <1>3 DEF Custody!Next, Custody!AssignStep, Custody!CreateAccount, Custody!Edit,
     Custody!ClaimPoolAccount, Custody!ClaimUserAccount, Custody!Claims,
     Custody!EnsureWatched, Custody!InsertAssignment, Custody!Rollback, Custody!vars

LEMMA CommitWatches ==
    ASSUME CustodyInv, Custody!Next \/ UNCHANGED Custody!vars, NEW t \in Custodian.assigners
    PROVE  Custody!WatchedAtCommit(t)
<1> SUFFICES ASSUME assigner[t].pc = "commit",
                    assignment'[assigner[t].ref] # assignment[assigner[t].ref],
                    NEW c \in Custodian.configs[assigner[t].account] \ assigner[t].edited
             PROVE  watched'[assigner[t].account][c] = [status |-> "active", bound |-> TRUE]
  BY DEF Custody!WatchedAtCommit
<1>1. assignment[assigner[t].ref].status = "none" /\ assigner[t].ref \in Custodian.refs
  BY DEF CustodyInv, CallIsOk
<1>2. ASSUME NEW q \in Custodian.refs, Custody!Release(q)  PROVE FALSE
  <2>1. q # assigner[t].ref /\ assignment' = [assignment EXCEPT ![q].status = "released"]
    BY <1>1, <1>2 DEF Custody!Release
  <2>2. QED  BY <1>1, <2>1 DEF CustodyInv, CustodyTypes
<1>3. ASSUME NEW u \in Custodian.assigners, Custody!Commit(u), u # t  PROVE FALSE
  <2>1. assigner[u].ref # assigner[t].ref
    BY <1>3 DEF Custody!Commit, CustodyInv, OneHolder
  <2>2. QED  BY <1>1, <1>3, <2>1, CommitTells DEF CustodyInv, CustodyTypes
<1>4. Custody!Commit(t)
  BY ZenonT(60), <1>2, <1>3 DEF Custody!Next, Custody!AssignStep, Custody!CreateAccount, Custody!Edit,
     Custody!ClaimPoolAccount, Custody!ClaimUserAccount, Custody!Claims,
     Custody!EnsureWatched, Custody!InsertAssignment, Custody!Rollback, Custody!vars
<1> PICK n : n = assigner[t]  OBVIOUS
<1> PICK row : row = watched[n.account][c]  OBVIOUS
<1>5. /\ HeldIsOk(n, watched[n.account]) /\ n.todo = {} /\ n \in Call
             /\ n.account \in Custodian.addresses
      /\ watched'[n.account][c] = Custody!After(row, n.held[c])
  <2>1. /\ HeldIsOk(n, watched[n.account]) /\ n.todo = {} /\ n \in Call
        /\ n.account \in Custodian.addresses
    BY <1>4, CommitTells
  <2>2. watched'[assigner[t].account] =
          [d \in Custodian.configs[assigner[t].account] |->
             Custody!After(watched[assigner[t].account][d], assigner[t].held[d])]
    BY <1>4, CommitTells
  <2>3. watched'[assigner[t].account][c] =
          Custody!After(watched[assigner[t].account][c], assigner[t].held[c])
    BY <2>2
  <2>4. QED  BY <2>1, <2>3
<1>6. /\ n.held[c] # "no"
      /\ n.held[c] = "bound" => row.status = "active"
      /\ n.held[c] = "unchanged" => row = FullyWatched
  BY <1>5 DEF HeldIsOk
<1>7. n.held[c] \in EffectNames /\ row \in WatchedRow
  <2>1. watched[n.account] \in [Custodian.configs[n.account] -> WatchedRow]
    BY <1>5 DEF CustodyInv, CustodyTypes
  <2>4. c \in Custodian.configs[n.account] /\ c \in Custody!Chains
    BY <1>5 DEF Custody!Chains
  <2>2. n.held \in [Custody!Chains -> EffectNames]
    BY <1>5 DEF Call
  <2>3. QED  BY <2>1, <2>2, <2>4
<1>8. CASE n.held[c] \in {"created", "reactivated"}
  BY <1>5, <1>8 DEF Custody!After
<1>9. CASE n.held[c] = "bound"
  <2>1. Custody!After(row, n.held[c]) = [row EXCEPT !.bound = TRUE]
    BY <1>9 DEF Custody!After
  <2>2. QED  BY <1>5, <1>6, <1>7, <1>9, <2>1 DEF WatchedRow
<1>10. CASE n.held[c] = "unchanged"
  BY <1>5, <1>6, <1>10 DEF Custody!After, FullyWatched
<1>11. QED  BY <1>6, <1>7, <1>8, <1>9, <1>10 DEF EffectNames

-----------------------------------------------------------------------------
(* Rescans of a transaction, with parameters k.                            *)

\* The events an inclusion can have.
Known(k, i) ==
    {Rescan(k)!Transfer(a, l.token, k.inclusions[i].base + l.n, i) :
        a \in k.addresses, l \in {m \in k.logs : k.inclusions[i].ok}}
    \cup {Rescan(k)!Transfer(a, k.native, "none", i) : a \in {b \in k.addresses : k.inclusions[i].ok /\ k.value # 0}}
    \cup {Rescan(k)!Fee(a, i) : a \in {b \in k.addresses : ~k.inclusions[i].ok \/ k.value = 0}}
KnownUpTo(k, n) == UNION {Known(k, i) : i \in 1..n}

RescanStages == {"new", "receipt", "list", "select", "done", "failed"}
RescanCall(k) == [pc : RescanStages, tx : Nat, receipt : Nat, todo : SUBSET k.addresses,
                  drafts : SUBSET KnownUpTo(k, Len(k.inclusions)),
                      made : SUBSET (k.addresses \X SUBSET Rescan(k)!Assets)]

RescanTypes(k) ==
    /\ mined \in 0..Len(k.inclusions)
    /\ watched \in [k.addresses -> [active : BOOLEAN, selected : SUBSET Rescan(k)!Assets]]
    /\ call \in [k.rescans -> RescanCall(k)]

\* What a rescan of an inclusion inserts for an address.
DraftsOf(k, a, i, selected) ==
    Rescan(k)!TokenTransfers(a, i, selected) \cup Rescan(k)!NativeTransfers(a, i, i, selected)
        \cup Rescan(k)!Fees(a, i, i, selected)

\* Each draft of an address the rescan looked at waits or has its event.
Covered(k, m, evs) ==
    \A pair \in m.made : \A d \in DraftsOf(k, pair[1], m.receipt, pair[2]) :
        d \in m.drafts \/ \E e \in evs : Rescan(k)!SameEvent(d, e)

CallFollows(k, m, n, evs) ==
    /\ m.pc \in {"new", "receipt", "list"} => m.drafts = {} /\ m.made = {}
    /\ m.pc = "receipt" => m.tx \in 0..n
    /\ m.pc \in {"list", "select"} =>
         m.tx = m.receipt /\ m.receipt \in 1..n /\ m.drafts \subseteq Known(k, m.receipt)
             /\ Covered(k, m, evs)

RescanInv(k) ==
    /\ RescanTypes(k)
    /\ events \subseteq KnownUpTo(k, mined)
    /\ \A r \in k.rescans : CallFollows(k, call[r], mined, events)

LEMMA ElementIsTyped ==
    ASSUME NEW S, NEW q \in Seq(S), NEW i \in 1..Len(q)
    PROVE  q[i] \in S
OBVIOUS

LEMMA InclusionIsTyped ==
    ASSUME NEW k, Rescan(k)!Assumptions, NEW i \in 1..Len(k.inclusions)
    PROVE  k.inclusions[i].ok \in BOOLEAN /\ k.inclusions[i].base \in Nat
<1> PICK S : S = [base : Nat, ok : BOOLEAN]  OBVIOUS
<1>1. k.inclusions \in Seq(S)
  BY DEF Rescan!Assumptions
<1>2. k.inclusions[i] \in S
  BY <1>1, ElementIsTyped
<1>3. QED  BY <1>2

LEMMA DraftsAreKnown ==
    ASSUME NEW k, Rescan(k)!Assumptions, NEW i \in 1..Len(k.inclusions), NEW a \in k.addresses, NEW s
    PROVE  /\ Rescan(k)!TokenTransfers(a, i, s) \subseteq Known(k, i)
           /\ Rescan(k)!NativeTransfers(a, i, i, s) \subseteq Known(k, i)
           /\ Rescan(k)!Fees(a, i, i, s) \subseteq Known(k, i)
<1>1. Rescan(k)!TokenTransfers(a, i, s) \subseteq Known(k, i)
  BY DEF Rescan!TokenTransfers, Known
<1>2. Rescan(k)!NativeTransfers(a, i, i, s) \subseteq Known(k, i)
  BY DEF Rescan!NativeTransfers, Known
<1>3. Rescan(k)!Fees(a, i, i, s) \subseteq Known(k, i)
  BY DEF Rescan!Fees, Known
<1>4. QED  BY <1>1, <1>2, <1>3

\* An event is of its inclusion, and of the one kind its asset and outcome allow.
LEMMA KnownTells ==
    ASSUME NEW k, Rescan(k)!Assumptions, NEW i \in 1..Len(k.inclusions), NEW e \in Known(k, i)
    PROVE  /\ e.block = i /\ e.address \in k.addresses /\ e.asset \in Rescan(k)!Assets
           /\ \/ e.asset # k.native /\ e = Rescan(k)!Transfer(e.address, e.asset, e.log, i)
                     /\ k.inclusions[i].ok
                 /\ \E l \in k.logs : l.token = e.asset /\ e.log = k.inclusions[i].base + l.n
              \/ e.asset = k.native /\ e = Rescan(k)!Transfer(e.address, k.native, "none", i)
                     /\ e.type = "transfer"
                 /\ k.inclusions[i].ok /\ k.value # 0
              \/ e.asset = k.native /\ e = Rescan(k)!Fee(e.address, i) /\ e.type = "fee_only_change"
                 /\ (~k.inclusions[i].ok \/ k.value = 0)
<1>1. CASE e \in {Rescan(k)!Transfer(a, l.token, k.inclusions[i].base + l.n, i) :
                    a \in k.addresses, l \in {m \in k.logs : k.inclusions[i].ok}}
  <2> PICK a \in k.addresses, l \in k.logs :
        k.inclusions[i].ok /\ e = Rescan(k)!Transfer(a, l.token, k.inclusions[i].base + l.n, i)
    BY <1>1
  <2>1. l.token # k.native /\ l.token \in Rescan(k)!Assets
    BY DEF Rescan!Assumptions, Rescan!Assets
  <2>2. QED  BY <2>1 DEF Rescan!Transfer
<1>2. CASE e \in {Rescan(k)!Transfer(a, k.native, "none", i) : a \in {b \in k.addresses : k.inclusions[i].ok /\ k.value # 0}}
  <2> PICK a \in k.addresses : k.inclusions[i].ok /\ k.value # 0
                                   /\ e = Rescan(k)!Transfer(a, k.native, "none", i)
    BY <1>2
  <2>1. QED  BY DEF Rescan!Transfer, Rescan!Assets
<1>3. CASE e \in {Rescan(k)!Fee(a, i) : a \in {b \in k.addresses : ~k.inclusions[i].ok \/ k.value = 0}}
  <2> PICK a \in k.addresses : (~k.inclusions[i].ok \/ k.value = 0) /\ e = Rescan(k)!Fee(a, i)
    BY <1>3
  <2>1. QED  BY DEF Rescan!Fee, Rescan!Assets
<1>4. QED  BY <1>1, <1>2, <1>3 DEF Known

LEMMA EventsHaveTwoShapes ==
    ASSUME NEW k, Rescan(k)!Assumptions, RescanInv(k), NEW e \in events
    PROVE  e = Rescan(k)!Transfer(e.address, e.asset, e.log, e.block)
               \/ e = Rescan(k)!Fee(e.address, e.block)
<1>1. e \in KnownUpTo(k, mined)
  BY DEF RescanInv
<1> PICK i \in 1..Len(k.inclusions) : e \in Known(k, i)
  BY <1>1 DEF KnownUpTo, RescanInv, RescanTypes
<1>2. CASE e = Rescan(k)!Transfer(e.address, e.asset, e.log, i) \/ e = Rescan(k)!Fee(e.address, i)
  BY <1>2, KnownTells
<1>3. CASE e = Rescan(k)!Transfer(e.address, k.native, "none", i) /\ e.asset = k.native
  <2>1. e.log = "none"
    BY <1>3 DEF Rescan!Transfer
  <2>2. QED  BY <1>3, <2>1, KnownTells
<1>4. QED  BY <1>2, <1>3, KnownTells

LEMMA KnownGrow ==
    ASSUME NEW k, NEW m \in Nat, NEW n \in Nat, m <= n
    PROVE  KnownUpTo(k, m) \subseteq KnownUpTo(k, n)
BY DEF KnownUpTo

LEMMA RescanInit ==
    ASSUME NEW k, Rescan(k)!Assumptions, Rescan(k)!Init
    PROVE  RescanInv(k)
<1>1. Rescan(k)!NoCall \in RescanCall(k)
  BY DEF Rescan!NoCall, RescanCall, RescanStages
<1>2. Len(k.inclusions) \in Nat
  BY DEF Rescan!Assumptions
<1>3. watched \in [k.addresses -> [active : BOOLEAN, selected : SUBSET Rescan(k)!Assets]]
  BY DEF Rescan!Init, Rescan!Assets
<1>4. QED  BY <1>1, <1>2, <1>3 DEF Rescan!Init, RescanInv, RescanTypes, CallFollows, Rescan!NoCall

\* More inclusions and more events leave a call as it should be.
LEMMA MoreIsFine ==
    ASSUME NEW k, NEW m, NEW i \in Nat, NEW j \in Nat, i <= j, NEW A, NEW B, A \subseteq B,
           CallFollows(k, m, i, A)
    PROVE  CallFollows(k, m, j, B)
BY DEF CallFollows, Covered

\* A step of one rescan that inserts nothing.
LEMMA OneRescanMoves ==
    ASSUME NEW k, RescanInv(k), NEW r \in k.rescans, NEW m \in RescanCall(k),
           CallFollows(k, m, mined, events),
           call' = [call EXCEPT ![r] = m], UNCHANGED <<mined, watched, events>>
    PROVE  RescanInv(k)'
<1>1. RescanTypes(k)'
  BY DEF RescanInv, RescanTypes
<1>2. ASSUME NEW q \in k.rescans  PROVE CallFollows(k, call'[q], mined, events)
  BY DEF RescanInv, RescanTypes
<1>3. QED  BY <1>1, <1>2 DEF RescanInv

LEMMA IncludeKeeps ==
    ASSUME NEW k, Rescan(k)!Assumptions, RescanInv(k), Rescan(k)!Include
    PROVE  RescanInv(k)'
<1>1. /\ mined' = mined + 1 /\ mined \in Nat /\ mined' \in 0..Len(k.inclusions)
      /\ UNCHANGED <<watched, events, call>>
  BY DEF Rescan!Include, RescanInv, RescanTypes, Rescan!Assumptions
<1>2. RescanTypes(k)'
  BY <1>1 DEF RescanInv, RescanTypes
<1>3. events' \subseteq KnownUpTo(k, mined')
  BY <1>1, KnownGrow DEF RescanInv
<1>4. \A r \in k.rescans : CallFollows(k, call[r], mined', events)
  BY <1>1, MoreIsFine DEF RescanInv
<1>5. QED  BY <1>1, <1>2, <1>3, <1>4 DEF RescanInv

\* A row is inserted once, by whoever comes first.
LEMMA InsertionKeeps ==
    ASSUME NEW k, Rescan(k)!Assumptions, RescanInv(k), NEW d \in KnownUpTo(k, mined),
           events' = Rescan(k)!InsertedOnce(d)
    PROVE  /\ events \subseteq events' /\ events' \subseteq KnownUpTo(k, mined)
           /\ \E e \in events' : Rescan(k)!SameEvent(d, e)
<1>1. Rescan(k)!SameEvent(d, d)
  BY DEF Rescan!SameEvent
<1>2. QED  BY <1>1 DEF Rescan!InsertedOnce, RescanInv

LEMMA ScanKeeps ==
    ASSUME NEW k, Rescan(k)!Assumptions, RescanInv(k), NEW a \in k.addresses, Rescan(k)!Scan(a)
    PROVE  RescanInv(k)'
<1> PICK d \in Rescan(k)!TokenTransfers(a, mined, watched[a].selected) : events' = Rescan(k)!InsertedOnce(d)
  BY DEF Rescan!Scan
<1>1. mined \in 1..Len(k.inclusions) /\ mined \in Nat /\ UNCHANGED <<mined, watched, call>>
  BY DEF Rescan!Scan, RescanInv, RescanTypes
<1>2. d \in Known(k, mined)
  BY <1>1, DraftsAreKnown
<1>3. d \in KnownUpTo(k, mined)
  BY <1>1, <1>2 DEF KnownUpTo
<1>4. events \subseteq events' /\ events' \subseteq KnownUpTo(k, mined)
  BY <1>3, InsertionKeeps
<1>5. \A r \in k.rescans : CallFollows(k, call[r], mined, events')
  BY <1>1, <1>4, MoreIsFine DEF RescanInv
<1>6. RescanTypes(k)'
  BY <1>1 DEF RescanInv, RescanTypes
<1>7. QED  BY <1>1, <1>4, <1>5, <1>6 DEF RescanInv

LEMMA RescanEditKeeps ==
    ASSUME NEW k, RescanInv(k), NEW a \in k.addresses, Rescan(k)!Edit(a)
    PROVE  RescanInv(k)'
<1>1. RescanTypes(k)'
  BY DEF RescanInv, RescanTypes, Rescan!Edit
<1>2. QED  BY <1>1 DEF RescanInv, Rescan!Edit

LEMMA RescanReadingKeeps ==
    ASSUME NEW k, Rescan(k)!Assumptions, RescanInv(k), NEW r \in k.rescans,
           Rescan(k)!ReadTx(r) \/ Rescan(k)!ReadReceipt(r) \/ Rescan(k)!ListAddresses(r)
               \/ Rescan(k)!Respond(r) \/ Rescan(k)!Fails(r) \/ Rescan(k)!Again(r)
    PROVE  RescanInv(k)'
<1> PICK n : n = call[r]  OBVIOUS
<1>1. n \in RescanCall(k) /\ CallFollows(k, n, mined, events) /\ mined \in Nat
  BY DEF RescanInv, RescanTypes
<1>2. UNCHANGED <<mined, watched, events>> /\ call \in [k.rescans -> RescanCall(k)]
  BY DEF RescanInv, RescanTypes, Rescan!ReadTx, Rescan!ReadReceipt, Rescan!ListAddresses,
     Rescan!Respond, Rescan!Fails, Rescan!Again
<1>3. CASE Rescan(k)!ReadTx(r)
  <2> PICK m : m = [n EXCEPT !.pc = "receipt", !.tx = mined]  OBVIOUS
  <2>1. call' = [call EXCEPT ![r] = m] /\ n.pc = "new"
    BY <1>2, <1>3 DEF Rescan!ReadTx
  <2>2. m \in RescanCall(k)
    BY <1>1 DEF RescanCall, RescanStages
  <2>3. CallFollows(k, m, mined, events)
    BY <1>1, <2>1 DEF CallFollows, RescanCall
  <2>4. QED  BY <1>2, <2>1, <2>2, <2>3, OneRescanMoves
<1>4. CASE Rescan(k)!ReadReceipt(r)
  <2>1. CASE Rescan(k)!Consistent(n.tx, mined)
    <3> PICK m : m = [n EXCEPT !.pc = "list", !.receipt = mined]  OBVIOUS
    <3>1. call' = [call EXCEPT ![r] = m] /\ n.pc = "receipt"
      BY <1>2, <1>4, <2>1 DEF Rescan!ReadReceipt
    <3>2. m \in RescanCall(k)
      BY <1>1 DEF RescanCall, RescanStages
    <3>3. m.pc = "list" /\ m.drafts = {} /\ m.made = {} /\ m.tx = m.receipt /\ m.receipt \in 1..mined
      BY <1>1, <2>1, <3>1 DEF CallFollows, RescanCall, Rescan!Consistent
    <3>4. CallFollows(k, m, mined, events)
      BY <3>3 DEF CallFollows, Covered
    <3>5. QED  BY <1>2, <3>1, <3>2, <3>4, OneRescanMoves
  <2>2. CASE ~Rescan(k)!Consistent(n.tx, mined)
    <3> PICK m : m = [n EXCEPT !.pc = "failed"]  OBVIOUS
    <3>1. call' = [call EXCEPT ![r] = m]
      BY <1>2, <1>4, <2>2 DEF Rescan!ReadReceipt, Rescan!Goto
    <3>2. m \in RescanCall(k) /\ m.pc = "failed"
      BY <1>1 DEF RescanCall, RescanStages
    <3>3. QED  BY <1>2, <3>1, <3>2, OneRescanMoves DEF CallFollows
  <2>3. QED  BY <2>1, <2>2
<1>5. CASE Rescan(k)!ListAddresses(r)
  <2> PICK todo : todo = {a \in k.addresses : watched[a].active}  OBVIOUS
  <2> PICK m : m = [n EXCEPT !.pc = "select", !.todo = todo]  BY ZenonT(60)
  <2>1. call' = [call EXCEPT ![r] = m] /\ n.pc = "list" /\ todo \in SUBSET k.addresses
    BY <1>2, <1>5 DEF Rescan!ListAddresses
  <2>2. m \in RescanCall(k)
    BY ZenonT(60), <1>1, <2>1 DEF RescanCall, RescanStages
  <2>3. CallFollows(k, m, mined, events)
    <3>1. /\ m.pc = "select" /\ m.tx = n.tx /\ m.receipt = n.receipt /\ m.drafts = n.drafts
                 /\ m.made = n.made
      BY <1>1 DEF RescanCall
    <3>2. QED  BY <1>1, <2>1, <3>1 DEF CallFollows, Covered
  <2>4. QED  BY ZenonT(60), <1>2, <2>1, <2>2, <2>3, OneRescanMoves
<1>6. CASE Rescan(k)!Respond(r) \/ Rescan(k)!Fails(r)
  <2> PICK pc \in {"done", "failed"} : call' = [call EXCEPT ![r].pc = pc]
    BY <1>6 DEF Rescan!Respond, Rescan!Fails, Rescan!Goto
  <2> PICK m : m = [n EXCEPT !.pc = pc]  OBVIOUS
  <2>1. call' = [call EXCEPT ![r] = m]
    BY <1>2
  <2>2. m \in RescanCall(k) /\ m.pc = pc
    BY <1>1 DEF RescanCall, RescanStages
  <2>3. QED  BY <1>2, <2>1, <2>2, OneRescanMoves DEF CallFollows
<1>7. CASE Rescan(k)!Again(r)
  <2>1. Rescan(k)!NoCall \in RescanCall(k) /\ CallFollows(k, Rescan(k)!NoCall, mined, events)
    BY DEF Rescan!NoCall, RescanCall, RescanStages, CallFollows
  <2>2. QED  BY <1>2, <1>7, <2>1, OneRescanMoves DEF Rescan!Again
<1>8. QED  BY <1>3, <1>4, <1>5, <1>6, <1>7

LEMMA SelectKeeps ==
    ASSUME NEW k, Rescan(k)!Assumptions, RescanInv(k), NEW r \in k.rescans, Rescan(k)!SelectAssets(r)
    PROVE  RescanInv(k)'
<1> PICK n : n = call[r]  OBVIOUS
<1>1. n \in RescanCall(k) /\ CallFollows(k, n, mined, events) /\ n.pc = "select" /\ n.drafts = {}
      /\ UNCHANGED <<mined, watched, events>> /\ call \in [k.rescans -> RescanCall(k)]
  BY DEF RescanInv, RescanTypes, Rescan!SelectAssets
<1>2. n.tx = n.receipt /\ n.receipt \in 1..mined /\ n.receipt \in 1..Len(k.inclusions)
          /\ n.todo \subseteq k.addresses
  BY <1>1 DEF CallFollows, RescanInv, RescanTypes, RescanCall
<1> PICK a \in n.todo : call' = [call EXCEPT ![r].todo = @ \ {a},
        ![r].drafts = DraftsOf(k, a, n.receipt, watched[a].selected), ![r].made = @
            \cup {<<a, watched[a].selected>>}]
  BY ZenonT(60), <1>2 DEF Rescan!SelectAssets, DraftsOf
<1> PICK s : s = watched[a].selected  OBVIOUS
<1> PICK drafts : drafts = DraftsOf(k, a, n.receipt, s)  OBVIOUS
<1> PICK todo : todo = n.todo \ {a}  OBVIOUS
<1> PICK seen : seen = n.made \cup {<<a, s>>}  OBVIOUS
<1> PICK m : m = [n EXCEPT !.todo = todo, !.drafts = drafts, !.made = seen]  OBVIOUS
<1>3. call' = [call EXCEPT ![r] = m]
  BY <1>1
<1>4. a \in k.addresses /\ s \in SUBSET Rescan(k)!Assets
  BY <1>2 DEF RescanInv, RescanTypes
<1>5. drafts \subseteq Known(k, n.receipt)
  BY <1>2, <1>4, DraftsAreKnown DEF DraftsOf
<1>6. drafts \in SUBSET KnownUpTo(k, Len(k.inclusions)) /\ todo \in SUBSET k.addresses
  BY <1>2, <1>5 DEF KnownUpTo
<1>7. seen \in SUBSET (k.addresses \X SUBSET Rescan(k)!Assets)
  BY <1>1, <1>4 DEF RescanCall
<1>8. /\ m \in RescanCall(k) /\ m.pc = "select" /\ m.tx = n.tx /\ m.receipt = n.receipt
      /\ m.drafts = drafts /\ m.made = seen
  BY <1>1, <1>6, <1>7 DEF RescanCall
<1>9. Covered(k, m, events)
  <2>1. ASSUME NEW pair \in n.made, NEW d \in DraftsOf(k, pair[1], n.receipt, pair[2])
        PROVE  \E e \in events : Rescan(k)!SameEvent(d, e)
    BY <1>1 DEF CallFollows, Covered
  <2>2. ASSUME NEW pair \in seen, NEW d \in DraftsOf(k, pair[1], n.receipt, pair[2])
        PROVE  d \in drafts \/ \E e \in events : Rescan(k)!SameEvent(d, e)
    <3>1. CASE pair \in n.made
      BY <2>1, <3>1
    <3>2. CASE pair = <<a, s>>
      BY <3>2
    <3>3. QED  BY <3>1, <3>2
  <2>3. QED  BY <1>8, <2>2 DEF Covered
<1>10. CallFollows(k, m, mined, events)
  BY <1>2, <1>5, <1>8, <1>9 DEF CallFollows
<1>11. QED  BY <1>1, <1>3, <1>8, <1>10, OneRescanMoves

LEMMA InsertDraftKeeps ==
    ASSUME NEW k, Rescan(k)!Assumptions, RescanInv(k), NEW r \in k.rescans, Rescan(k)!InsertDraft(r)
    PROVE  RescanInv(k)'
<1> PICK n : n = call[r]  OBVIOUS
<1> PICK d \in n.drafts : events' = Rescan(k)!InsertedOnce(d)
                              /\ call' = [call EXCEPT ![r].drafts = @ \ {d}]
  BY DEF Rescan!InsertDraft
<1> PICK drafts : drafts = n.drafts \ {d}  OBVIOUS
<1> PICK m : m = [n EXCEPT !.drafts = drafts]  OBVIOUS
<1>1. n \in RescanCall(k) /\ CallFollows(k, n, mined, events) /\ n.pc = "select"
      /\ UNCHANGED <<mined, watched>> /\ call \in [k.rescans -> RescanCall(k)] /\ mined \in Nat
  BY DEF RescanInv, RescanTypes, Rescan!InsertDraft
<1>2. n.tx = n.receipt /\ n.receipt \in 1..mined /\ n.drafts \subseteq Known(k, n.receipt)
          /\ Covered(k, n, events)
  BY <1>1 DEF CallFollows
<1>3. d \in KnownUpTo(k, mined)
  BY <1>2 DEF KnownUpTo
<1>4. events \subseteq events' /\ events' \subseteq KnownUpTo(k, mined)
          /\ \E e \in events' : Rescan(k)!SameEvent(d, e)
  BY <1>3, InsertionKeeps
<1>5. call' = [call EXCEPT ![r] = m]
  BY <1>1
<1>6. drafts \in SUBSET KnownUpTo(k, Len(k.inclusions))
  BY <1>1 DEF RescanCall
<1>7. /\ m \in RescanCall(k) /\ m.pc = "select" /\ m.tx = n.tx /\ m.receipt = n.receipt
      /\ m.drafts = drafts /\ m.made = n.made
  BY <1>1, <1>6 DEF RescanCall
<1>8. Covered(k, m, events')
  BY <1>2, <1>4, <1>7 DEF Covered
<1>9. CallFollows(k, m, mined, events')
  BY <1>2, <1>7, <1>8 DEF CallFollows
<1>10. RescanTypes(k)'
  BY <1>1, <1>5, <1>7 DEF RescanInv, RescanTypes
<1>11. ASSUME NEW q \in k.rescans  PROVE CallFollows(k, call'[q], mined, events')
  <2>1. CASE q = r
    BY <1>1, <1>5, <1>9, <2>1
  <2>2. CASE q # r
    <3>1. call'[q] = call[q] /\ CallFollows(k, call[q], mined, events)
      BY <1>1, <1>5, <2>2 DEF RescanInv
    <3>2. QED  BY <1>1, <1>4, <3>1, MoreIsFine
  <2>3. QED  BY <2>1, <2>2
<1>12. QED  BY <1>1, <1>4, <1>10, <1>11 DEF RescanInv

LEMMA RescanStep ==
    ASSUME NEW k, Rescan(k)!Assumptions, RescanInv(k), Rescan(k)!Next
    PROVE  RescanInv(k)'
BY IncludeKeeps, RescanEditKeeps, ScanKeeps, RescanReadingKeeps, SelectKeeps, InsertDraftKeeps
   DEF Rescan!Next

LEMMA RescanStutter ==
    ASSUME NEW k, RescanInv(k), UNCHANGED Rescan(k)!vars
    PROVE  RescanInv(k)'
<1>1. UNCHANGED <<mined, watched, events, call>>
  BY DEF Rescan!vars
<1>2. RescanTypes(k)'
  BY <1>1 DEF RescanInv, RescanTypes
<1>3. QED  BY <1>1, <1>2 DEF RescanInv

LEMMA RescanTells ==
    ASSUME NEW k, Rescan(k)!Assumptions, RescanInv(k)
    PROVE  Rescan(k)!TypeOK /\ Rescan(k)!EventsAreReal /\ Rescan(k)!OneEventEach
<1>1. mined \in 0..Len(k.inclusions)
  BY DEF RescanInv, RescanTypes
<1>2. ASSUME NEW e \in events
      PROVE  \E i \in 1..Len(k.inclusions) : i <= mined /\ e \in Known(k, i)
  BY <1>1, <1>2 DEF RescanInv, KnownUpTo
<1>3. \A e \in events : e.address \in k.addresses /\ e.asset \in Rescan(k)!Assets
  BY <1>2, KnownTells
<1>4. \A r \in k.rescans : call[r].pc \in RescanStages
  BY DEF RescanInv, RescanTypes, RescanCall
<1>5. Rescan(k)!TypeOK
  BY <1>1, <1>3, <1>4 DEF Rescan!TypeOK, RescanStages
<1>6. Rescan(k)!EventsAreReal
  <2>1. ASSUME NEW e \in events
        PROVE  LET ok == k.inclusions[e.block].ok
               IN IF e.asset = k.native
                  THEN IF e.type = "transfer" THEN ok /\ k.value # 0 ELSE ~ok \/ k.value = 0
                  ELSE ok /\ \E l \in k.logs : l.token = e.asset
                      /\ e.log = k.inclusions[e.block].base + l.n
    <3> PICK i \in 1..Len(k.inclusions) : e \in Known(k, i)
      BY <1>2
    <3>1. QED  BY KnownTells
  <2>2. QED  BY <2>1 DEF Rescan!EventsAreReal
<1>7. Rescan(k)!OneEventEach
  <2> SUFFICES ASSUME mined = 1, NEW d \in events, NEW e \in events,
                      d.address = e.address, d.asset = e.asset, d.log = e.log \/ d.asset = k.native
               PROVE  d = e
    BY DEF Rescan!OneEventEach
  <2>1. 1 \in 1..Len(k.inclusions) /\ d \in Known(k, 1) /\ e \in Known(k, 1)
    BY <1>1, <1>2
  <2>2. QED  BY <2>1, KnownTells, InclusionIsTyped
<1>8. QED  BY <1>5, <1>6, <1>7

LEMMA AnswerIsComplete ==
    ASSUME NEW k, Rescan(k)!Assumptions, RescanInv(k), Rescan(k)!Next \/ UNCHANGED Rescan(k)!vars,
           NEW r \in k.rescans
    PROVE  Rescan(k)!RescanIsComplete(r)
<1> SUFFICES ASSUME call[r].pc = "select", call'[r].pc = "done"
             PROVE  Rescan(k)!RescanIsComplete(r)
  BY DEF Rescan!RescanIsComplete
<1>1. Rescan(k)!Respond(r)
  <2>1. call \in [k.rescans -> RescanCall(k)]
    BY DEF RescanInv, RescanTypes
  <2>2. ASSUME NEW q \in k.rescans,
               Rescan(k)!ReadTx(q) \/ Rescan(k)!ReadReceipt(q) \/ Rescan(k)!ListAddresses(q)
                   \/ Rescan(k)!Fails(q) \/ Rescan(k)!Again(q)
        PROVE  FALSE
    BY <2>1, <2>2 DEF Rescan!ReadTx, Rescan!ReadReceipt, Rescan!ListAddresses, Rescan!Fails,
       Rescan!Again, Rescan!Goto, Rescan!NoCall, RescanCall
  <2>3. ASSUME NEW q \in k.rescans, Rescan(k)!SelectAssets(q) \/ Rescan(k)!InsertDraft(q)
        PROVE  call'[r].pc = call[r].pc
    <3>1. CASE Rescan(k)!SelectAssets(q)
      BY <2>1, <3>1 DEF Rescan!SelectAssets, RescanCall
    <3>2. CASE Rescan(k)!InsertDraft(q)
      BY <2>1, <3>2 DEF Rescan!InsertDraft, RescanCall
    <3>3. QED  BY <2>3, <3>1, <3>2
  <2>4. ASSUME NEW q \in k.rescans, q # r, Rescan(k)!Respond(q)
        PROVE  FALSE
    BY <2>1, <2>4 DEF Rescan!Respond, Rescan!Goto
  <2>5. QED  BY <2>2, <2>3, <2>4 DEF Rescan!Next, Rescan!Include, Rescan!Edit, Rescan!Scan, Rescan!vars
<1> PICK n : n = call[r]  OBVIOUS
<1>2. /\ n.drafts = {} /\ Covered(k, n, events) /\ n.receipt \in 1..Len(k.inclusions)
      /\ n.made \subseteq k.addresses \X SUBSET Rescan(k)!Assets
  BY <1>1 DEF Rescan!Respond, RescanInv, RescanTypes, RescanCall, CallFollows
<1>3. ASSUME NEW pair \in n.made
      PROVE  /\ \A l \in k.logs :
                  k.inclusions[n.receipt].ok /\ l.token \in pair[2] /\ pair[1] \in {l.from, l.to} =>
                    \E e \in events : /\ e.address = pair[1] /\ e.asset = l.token
                                      /\ e.log = k.inclusions[n.receipt].base + l.n
             /\ pair[1] = k.from /\ k.native \in pair[2] =>
                  \E e \in events : e.address = pair[1] /\ e.asset = k.native
  <2> PICK a : a = pair[1]  OBVIOUS
  <2> PICK s : s = pair[2]  OBVIOUS
  <2> PICK i : i = n.receipt  OBVIOUS
  <2>1. \A d \in DraftsOf(k, a, i, s) : \E e \in events : Rescan(k)!SameEvent(d, e)
    BY <1>2 DEF Covered
  <2>2. ASSUME NEW x, NEW asset, NEW log, NEW e,
               Rescan(k)!SameEvent(Rescan(k)!Transfer(x, asset, log, i), e), e \in events
        PROVE  e.address = x /\ e.asset = asset /\ e.log = log
    <3>1. e = Rescan(k)!Transfer(e.address, e.asset, e.log, e.block)
              \/ e = Rescan(k)!Fee(e.address, e.block)
      BY <2>2, EventsHaveTwoShapes
    <3>2. QED  BY <2>2, <3>1 DEF Rescan!SameEvent, Rescan!Transfer, Rescan!Fee
  <2>3. ASSUME NEW l \in k.logs, k.inclusions[i].ok, l.token \in s, a \in {l.from, l.to}
        PROVE  \E e \in events : /\ e.address = a /\ e.asset = l.token
                                 /\ e.log = k.inclusions[i].base + l.n
    <3>1. Rescan(k)!Transfer(a, l.token, k.inclusions[i].base + l.n, i) \in DraftsOf(k, a, i, s)
      BY <2>3 DEF DraftsOf, Rescan!TokenTransfers
    <3>2. QED  BY <2>1, <2>2, <3>1
  <2>4. ASSUME a = k.from, k.native \in s
        PROVE  \E e \in events : e.address = a /\ e.asset = k.native
    <3>1. CASE k.inclusions[i].ok /\ k.value # 0
      <4>1. Rescan(k)!Transfer(a, k.native, "none", i) \in DraftsOf(k, a, i, s)
        BY <2>4, <3>1 DEF DraftsOf, Rescan!NativeTransfers
      <4>2. QED  BY <2>1, <2>2, <4>1
    <3>2. CASE ~k.inclusions[i].ok \/ k.value = 0
      <4>1. Rescan(k)!Fee(a, i) \in DraftsOf(k, a, i, s)
        BY <2>4, <3>2 DEF DraftsOf, Rescan!Fees
      <4>2. Rescan(k)!Fee(a, i)
                = [Rescan(k)!Transfer(a, k.native, "none", i) EXCEPT !.type = "fee_only_change"]
        BY DEF Rescan!Fee, Rescan!Transfer
      <4>3. ASSUME NEW e \in events, Rescan(k)!SameEvent(Rescan(k)!Fee(a, i), e) 
           PROVE e.address = a /\ e.asset = k.native
        <5>1. e = Rescan(k)!Transfer(e.address, e.asset, e.log, e.block)
                  \/ e = Rescan(k)!Fee(e.address, e.block)
          BY EventsHaveTwoShapes
        <5>2. QED  BY <4>3, <5>1 DEF Rescan!SameEvent, Rescan!Transfer, Rescan!Fee
      <4>4. QED  BY <2>1, <4>1, <4>3
    <3>3. QED  BY <3>1, <3>2
  <2>5. QED  BY <2>3, <2>4
<1>4. QED  BY <1>3 DEF Rescan!RescanIsComplete

-----------------------------------------------------------------------------
(* Edits of an address, with parameters k.                                 *)

AddressRow(k) == [chain : k.chains, status : {"none", "active", "paused"}, assets : SUBSET Address(k)!Assets]
EditorRow(k) == [pc : {"idle", "delete", "insert"}, chain : k.chains \cup {None},
                 status : {"none", "active", "paused"}, assets : SUBSET Address(k)!Assets,
                     removed : SUBSET Address(k)!Assets]
BinderRow(k) == [pc : {"idle", "activate", "bind"}, chain : k.chains \cup {None}, todo : SUBSET Address(k)!Assets,
                 bound : SUBSET Address(k)!Assets, activates : BOOLEAN, epoch : Nat]
ScanRow(k) == [pc : {"idle", "context", "scanning"}, chain : k.chains \cup {None}, assets : SUBSET Address(k)!Assets,
               read : Nat, selected : Nat]
RuleRow(k) == [pc : {"none", "checked", "saved"}, chain : k.chains \cup {None}, named : BOOLEAN,
               asset : Address(k)!Assets \cup {None}, epoch : Nat]

AddressTypes(k) ==
    /\ address \in AddressRow(k) /\ editor \in [k.editors -> EditorRow(k)]
           /\ binder \in [k.binders -> BinderRow(k)]
    /\ scan \in [k.scans -> ScanRow(k)] /\ rule \in [k.rules -> RuleRow(k)]
    /\ epoch \in 0..k.maxMoves /\ mixed \in BOOLEAN

\* An edit is alone with the row, a move is alone with its assets too.
RowIsLocked(k) ==
    /\ \A d, e \in Address(k)!Editing : d = e
    /\ Address(k)!Editing # {} => Address(k)!Exists /\ Address(k)!Activating = {}
    /\ Address(k)!Moving # {} => Address(k)!Binding = {} /\ epoch < k.maxMoves

\* A move deletes all there is before it inserts.
EditOk(k, m, row) ==
    m.pc # "idle" =>
      /\ m.chain \in k.chains /\ m.status \in {"active", "paused"}
      /\ m.assets # {} /\ m.assets \subseteq k.assetsOf[m.chain]
      /\ m.pc = "insert" /\ m.chain # row.chain => row.assets \subseteq m.removed

RowIsOk(k, row, mix) ==
    /\ row.status = "none" => row.assets = {}
    /\ row.status # "none" /\ ~mix => row.assets # {} /\ row.assets \subseteq k.assetsOf[row.chain]

\* What was read in the present epoch is of the chain the address is on.
BinderOk(k, m, chain, n) ==
    m.pc # "idle" => /\ m.chain \in k.chains /\ m.todo \subseteq k.assetsOf[m.chain]
                     /\ m.bound \subseteq k.assetsOf[m.chain]
                     /\ m.epoch <= n /\ (m.epoch = n => m.chain = chain)
ScanOk(k, m, chain, n, mix) ==
    /\ m.pc = "context" => m.read <= n /\ (m.read = n => m.chain = chain)
    /\ m.pc = "scanning" /\ m.read = m.selected /\ ~mix => m.assets \subseteq k.assetsOf[m.chain]
RuleOk(k, m, chain, n) ==
    m.pc \in {"checked", "saved"} /\ m.named =>
      m.epoch <= n
          /\ (m.epoch = n => m.chain \in {None, chain} /\ m.asset \in {None} \cup k.assetsOf[chain])

AddressInv(k) ==
    /\ AddressTypes(k) /\ RowIsLocked(k) /\ RowIsOk(k, address, mixed)
    /\ \A e \in k.editors : EditOk(k, editor[e], address)
    /\ \A b \in k.binders : BinderOk(k, binder[b], address.chain, epoch)
    /\ \A s \in k.scans : ScanOk(k, scan[s], address.chain, epoch, mixed)
    /\ \A r \in k.rules : RuleOk(k, rule[r], address.chain, epoch)

LEMMA ChainsHaveAssets ==
    ASSUME NEW k, Address(k)!Assumptions, NEW c \in k.chains
    PROVE  k.assetsOf[c] \subseteq Address(k)!Assets /\ k.assetsOf[c] # {}
BY DEF Address!Assumptions, Address!Assets

LEMMA AssetsHaveAChain ==
    ASSUME NEW k, Address(k)!Assumptions, NEW a \in Address(k)!Assets
    PROVE  Address(k)!ChainOf(a) \in k.chains /\ a \in k.assetsOf[Address(k)!ChainOf(a)]
BY DEF Address!Assets, Address!ChainOf

LEMMA IdleRows ==
    ASSUME NEW k
    PROVE  /\ Address(k)!IdleEditor \in EditorRow(k) /\ Address(k)!IdleEditor.pc = "idle"
       /\ Address(k)!IdleBinder \in BinderRow(k) /\ Address(k)!IdleBinder.pc = "idle"
              /\ Address(k)!IdleBinder.bound = {} /\ ~Address(k)!IdleBinder.activates
       /\ Address(k)!IdleScan \in ScanRow(k) /\ Address(k)!IdleScan.pc = "idle"
       /\ Address(k)!NoRule \in RuleRow(k) /\ Address(k)!NoRule.pc = "none"
<1>1. Address(k)!IdleEditor \in EditorRow(k) /\ Address(k)!IdleEditor.pc = "idle"
  BY DEF Address!IdleEditor, EditorRow
<1>2. Address(k)!IdleBinder \in BinderRow(k) /\ Address(k)!IdleBinder.pc = "idle"
          /\ Address(k)!IdleBinder.bound = {} /\ ~Address(k)!IdleBinder.activates
  BY DEF Address!IdleBinder, BinderRow
<1>3. Address(k)!IdleScan \in ScanRow(k) /\ Address(k)!IdleScan.pc = "idle"
  BY DEF Address!IdleScan, ScanRow
<1>4. Address(k)!NoRule \in RuleRow(k) /\ Address(k)!NoRule.pc = "none"
  BY DEF Address!NoRule, RuleRow
<1>5. QED  BY <1>1, <1>2, <1>3, <1>4

LEMMA AddressInit ==
    ASSUME NEW k, Address(k)!Assumptions, Address(k)!Init
    PROVE  AddressInv(k)
<1> PICK c \in k.chains : address = [chain |-> c, status |-> "active", assets |-> k.assetsOf[c]]
  BY DEF Address!Init
<1>1. address \in AddressRow(k) /\ address.chain = c /\ address.status = "active"
          /\ address.assets = k.assetsOf[c]
  BY ChainsHaveAssets DEF AddressRow
<1>2. AddressTypes(k)
  <2>1. editor \in [k.editors -> EditorRow(k)] /\ binder \in [k.binders -> BinderRow(k)]
    BY IdleRows DEF Address!Init
  <2>2. scan \in [k.scans -> ScanRow(k)] /\ rule \in [k.rules -> RuleRow(k)]
    BY IdleRows DEF Address!Init
  <2>3. epoch \in 0..k.maxMoves
    BY DEF Address!Init, Address!Assumptions
  <2>4. QED  BY <1>1, <2>1, <2>2, <2>3 DEF Address!Init, AddressTypes
<1>3. Address(k)!Editing = {} /\ Address(k)!Moving = {}
  BY IdleRows DEF Address!Init, Address!Editing, Address!Moving
<1>4. RowIsLocked(k)
  BY <1>3 DEF RowIsLocked
<1>5. RowIsOk(k, address, mixed)
  BY <1>1, ChainsHaveAssets DEF RowIsOk
<1>6. QED  BY <1>2, <1>4, <1>5, IdleRows DEF Address!Init, AddressInv, EditOk, BinderOk, ScanOk, RuleOk

\* What waits stays as it should be when the address stays on its chain, or moves
\* and the epoch ends.
LEMMA EpochsKeep ==
    ASSUME NEW k, NEW m, NEW c, NEW d, NEW n \in Nat, NEW kk \in Nat, (kk = n /\ d = c)
               \/ kk = n + 1, NEW x, NEW y, x => y
    PROVE  /\ (m.epoch \in Nat /\ BinderOk(k, m, c, n)) => BinderOk(k, m, d, kk)
           /\ (m.read \in Nat /\ ScanOk(k, m, c, n, x)) => ScanOk(k, m, d, kk, y)
           /\ (m.epoch \in Nat /\ RuleOk(k, m, c, n)) => RuleOk(k, m, d, kk)
<1>1. CASE kk = n /\ d = c
  BY <1>1 DEF BinderOk, ScanOk, RuleOk
<1>2. CASE kk = n + 1
  BY <1>2 DEF BinderOk, ScanOk, RuleOk
<1>3. QED  BY <1>1, <1>2

LEMMA AddressOthersStay ==
    ASSUME NEW k, AddressInv(k), epoch' \in Nat, (epoch' = epoch /\ address'.chain = address.chain)
               \/ epoch' = epoch + 1,
           mixed => mixed'
    PROVE  /\ \A b \in k.binders : BinderOk(k, binder[b], address'.chain, epoch')
           /\ \A s \in k.scans : ScanOk(k, scan[s], address'.chain, epoch', mixed')
           /\ \A r \in k.rules : RuleOk(k, rule[r], address'.chain, epoch')
<1>1. epoch \in Nat /\ \A b \in k.binders : binder[b].epoch \in Nat
  BY DEF AddressInv, AddressTypes, BinderRow
<1>2. (\A s \in k.scans : scan[s].read \in Nat) /\ (\A r \in k.rules : rule[r].epoch \in Nat)
  BY DEF AddressInv, AddressTypes, ScanRow, RuleRow
<1>3. \A b \in k.binders : BinderOk(k, binder[b], address.chain, epoch)
  BY DEF AddressInv
<1>4. \A s \in k.scans : ScanOk(k, scan[s], address.chain, epoch, mixed)
  BY DEF AddressInv
<1>5. \A r \in k.rules : RuleOk(k, rule[r], address.chain, epoch)
  BY DEF AddressInv
<1>6. QED  BY <1>1, <1>2, <1>3, <1>4, <1>5, EpochsKeep

LEMMA UpdateKeeps ==
    ASSUME NEW k, Address(k)!Assumptions, AddressInv(k), NEW e \in k.editors, Address(k)!UpdateRow(e)
    PROVE  AddressInv(k)'
<1>1. /\ editor[e].pc = "idle" /\ Address(k)!Exists /\ Address(k)!Editing = {}
             /\ Address(k)!Activating = {}
      /\ UNCHANGED <<address, binder, scan, rule, epoch, faults, mixed>>
  BY DEF Address!UpdateRow
<1> PICK c \in k.chains, status \in {"active", "paused"}, assets \in SUBSET Address(k)!Assets :
      /\ assets \in (SUBSET k.assetsOf[c]) \ {{}}
      /\ c # address.chain => epoch < k.maxMoves /\ Address(k)!Binding = {}
      /\ editor' = [editor EXCEPT ![e] =
           [pc |-> "delete", chain |-> c, status |-> status, assets |-> assets, removed |-> {}]]
  BY ChainsHaveAssets DEF Address!UpdateRow
<1> PICK m : m = [pc |-> "delete", chain |-> c, status |-> status, assets |-> assets, removed |-> {}]
  OBVIOUS
<1>2. m \in EditorRow(k) /\ EditOk(k, m, address)
  BY ChainsHaveAssets DEF EditorRow, EditOk
<1>3. editor'[e] = m /\ \A d \in k.editors : d # e => (editor'[d] = editor[d] /\ editor[d].pc = "idle")
  BY <1>1 DEF AddressInv, AddressTypes, Address!Editing
<1>4. AddressTypes(k)'
  BY <1>1, <1>2 DEF AddressInv, AddressTypes
<1>5. Address(k)!Editing' = {e} /\ (Address(k)!Moving' # {} => c # address.chain)
  BY <1>1, <1>3 DEF Address!Editing, Address!Moving
<1>6. RowIsLocked(k)'
  BY <1>1, <1>5 DEF RowIsLocked, Address!Exists, Address!Activating, Address!Binding
<1>7. \A d \in k.editors : EditOk(k, editor'[d], address)
  BY <1>2, <1>3 DEF AddressInv
<1>8. QED  BY <1>1, <1>4, <1>6, <1>7 DEF AddressInv

LEMMA DeleteAssetsKeeps ==
    ASSUME NEW k, Address(k)!Assumptions, AddressInv(k), NEW e \in k.editors, Address(k)!DeleteAssets(e)
    PROVE  AddressInv(k)'
<1> PICK n : n = editor[e]  OBVIOUS
<1> PICK m : m = [n EXCEPT !.pc = "insert", !.removed = address.assets]  OBVIOUS
<1>1. /\ n.pc = "delete" /\ editor' = [editor EXCEPT ![e] = m] /\ n \in EditorRow(k)
      /\ UNCHANGED <<address, binder, scan, rule, epoch, faults, mixed>> /\ address \in AddressRow(k)
  BY DEF Address!DeleteAssets, Address!Removed, AddressInv, AddressTypes
<1>2. m \in EditorRow(k) /\ m.chain = n.chain /\ m.pc = "insert" /\ m.removed = address.assets
      /\ m.assets = n.assets /\ m.status = n.status
  BY <1>1 DEF EditorRow, AddressRow
<1>3. EditOk(k, m, address)
  BY <1>1, <1>2 DEF EditOk, AddressInv
<1>4. editor'[e] = m /\ \A d \in k.editors : d # e => editor'[d] = editor[d]
  BY <1>1 DEF AddressInv, AddressTypes
<1>5. AddressTypes(k)'
  BY <1>1, <1>2 DEF AddressInv, AddressTypes
<1>6. Address(k)!Editing' = Address(k)!Editing /\ Address(k)!Moving' = Address(k)!Moving
  BY <1>1, <1>2, <1>4 DEF Address!Editing, Address!Moving
<1>7. RowIsLocked(k)'
  BY <1>1, <1>6 DEF AddressInv, RowIsLocked, Address!Exists, Address!Activating, Address!Binding
<1>8. QED  BY <1>1, <1>3, <1>4, <1>5, <1>7 DEF AddressInv

LEMMA AddressInsertKeeps ==
    ASSUME NEW k, Address(k)!Assumptions, AddressInv(k), NEW e \in k.editors, Address(k)!InsertAssets(e)
    PROVE  AddressInv(k)'
<1> PICK m : m = editor[e]  OBVIOUS
<1> PICK left : left = address.assets \ m.removed  OBVIOUS
<1>1. /\ m.pc = "insert" /\ UNCHANGED <<binder, scan, rule, faults, mixed>>
      /\ address' = [chain |-> m.chain, status |-> m.status, assets |-> left \cup m.assets]
      /\ epoch' = IF m.chain # address.chain THEN epoch + 1 ELSE epoch
      /\ editor' = [editor EXCEPT ![e] = Address(k)!IdleEditor]
  BY DEF Address!InsertAssets
<1>2. /\ m \in EditorRow(k) /\ EditOk(k, m, address) /\ address \in AddressRow(k)
             /\ epoch \in 0..k.maxMoves
      /\ RowIsOk(k, address, mixed) /\ RowIsLocked(k)
  BY DEF AddressInv, AddressTypes
<1>3. e \in Address(k)!Editing /\ (m.chain # address.chain => e \in Address(k)!Moving)
  BY <1>1 DEF Address!Editing, Address!Moving
<1>4. Address(k)!Exists /\ Address(k)!Activating = {} /\ (m.chain # address.chain => epoch < k.maxMoves)
  BY <1>2, <1>3 DEF RowIsLocked
<1>5. /\ m.chain \in k.chains /\ m.status \in {"active", "paused"} /\ m.assets # {}
      /\ m.assets \subseteq k.assetsOf[m.chain] /\ (m.chain # address.chain => left = {})
  BY <1>1, <1>2 DEF EditOk
<1>6. left \cup m.assets \in SUBSET Address(k)!Assets
  BY <1>2 DEF AddressRow, EditorRow
<1>7. address' \in AddressRow(k)
  BY <1>1, <1>5, <1>6 DEF AddressRow
<1>8. epoch' \in 0..k.maxMoves /\ epoch' \in Nat
  BY <1>1, <1>2, <1>4 DEF Address!Assumptions
<1>9. editor' \in [k.editors -> EditorRow(k)] /\ editor'[e] = Address(k)!IdleEditor
      /\ \A d \in k.editors : d # e => editor'[d] = editor[d]
  BY <1>1, IdleRows DEF AddressInv, AddressTypes
<1>10. AddressTypes(k)'
  BY <1>1, <1>7, <1>8, <1>9 DEF AddressInv, AddressTypes
<1>11. \A d \in k.editors : editor'[d].pc = "idle"
  BY <1>2, <1>3, <1>9, IdleRows DEF RowIsLocked, Address!Editing
<1>12. Address(k)!Editing' = {} /\ Address(k)!Moving' = {}
  BY <1>11 DEF Address!Editing, Address!Moving
<1>13. RowIsLocked(k)'
  BY <1>12 DEF RowIsLocked
<1>14. ~mixed => left \subseteq k.assetsOf[m.chain]
  BY <1>2, <1>4, <1>5 DEF RowIsOk, Address!Exists
<1>15. RowIsOk(k, address', mixed')
  BY <1>1, <1>5, <1>14 DEF RowIsOk
<1>16. (epoch' = epoch /\ address'.chain = address.chain) \/ epoch' = epoch + 1
  BY <1>1
<1>17. /\ \A b \in k.binders : BinderOk(k, binder[b], address'.chain, epoch')
       /\ \A s \in k.scans : ScanOk(k, scan[s], address'.chain, epoch', mixed')
       /\ \A r \in k.rules : RuleOk(k, rule[r], address'.chain, epoch')
  BY <1>1, <1>8, <1>16, AddressOthersStay
<1>18. \A d \in k.editors : EditOk(k, editor'[d], address')
  BY <1>11 DEF EditOk
<1>19. QED  BY <1>1, <1>10, <1>13, <1>15, <1>17, <1>18 DEF AddressInv

LEMMA DeleteAddressKeeps ==
    ASSUME NEW k, Address(k)!Assumptions, AddressInv(k), Address(k)!DeleteAddress
    PROVE  AddressInv(k)'
<1>1. /\ Address(k)!Editing = {} /\ UNCHANGED <<editor, binder, scan, epoch, faults, mixed>>
      /\ address' = [address EXCEPT !.status = "none", !.assets = {}]
      /\ rule' = [r \in k.rules |-> IF rule[r].pc = "saved" /\ rule[r].named THEN Address(k)!NoRule ELSE rule[r]]
  BY DEF Address!DeleteAddress
<1>2. address \in AddressRow(k) /\ epoch \in Nat
  BY DEF AddressInv, AddressTypes, Address!Assumptions
<1>3. address' \in AddressRow(k) /\ address'.chain = address.chain /\ address'.status = "none"
          /\ address'.assets = {}
  BY <1>1, <1>2 DEF AddressRow
<1>4. rule' \in [k.rules -> RuleRow(k)] /\ \A r \in k.rules : rule'[r] \in {Address(k)!NoRule, rule[r]}
  BY <1>1, IdleRows DEF AddressInv, AddressTypes
<1>5. AddressTypes(k)'
  BY <1>1, <1>3, <1>4 DEF AddressInv, AddressTypes
<1>6. \A d \in k.editors : editor[d].pc = "idle"
  BY <1>1 DEF Address!Editing
<1>7. Address(k)!Editing' = {} /\ Address(k)!Moving' = {}
  BY <1>1, <1>6 DEF Address!Editing, Address!Moving
<1>8. RowIsLocked(k)' /\ RowIsOk(k, address', mixed')
  BY <1>3, <1>7 DEF RowIsLocked, RowIsOk
<1>9. /\ \A b \in k.binders : BinderOk(k, binder[b], address'.chain, epoch')
      /\ \A s \in k.scans : ScanOk(k, scan[s], address'.chain, epoch', mixed')
      /\ \A r \in k.rules : RuleOk(k, rule[r], address'.chain, epoch')
  BY <1>1, <1>2, <1>3, AddressOthersStay
<1>10. \A r \in k.rules : RuleOk(k, rule'[r], address'.chain, epoch')
  BY <1>4, <1>9, IdleRows DEF RuleOk
<1>11. \A d \in k.editors : EditOk(k, editor'[d], address')
  BY <1>1, <1>6 DEF EditOk
<1>12. QED  BY <1>1, <1>5, <1>8, <1>9, <1>10, <1>11 DEF AddressInv

\* A step of one assignment that does not write the row yet.
LEMMA OneBinderMoves ==
    ASSUME NEW k, AddressInv(k), NEW b \in k.binders, NEW m \in BinderRow(k),
           BinderOk(k, m, address.chain, epoch),
           binder' = [binder EXCEPT ![b] = m], UNCHANGED <<address, editor, scan, rule, epoch, mixed>>,
           m.activates /\ ~binder[b].activates => Address(k)!Editing = {},
           m.bound # {} /\ binder[b].bound = {} => Address(k)!Moving = {}
    PROVE  AddressInv(k)'
<1>1. binder' \in [k.binders -> BinderRow(k)] /\ binder'[b] = m
      /\ \A c \in k.binders : c # b => binder'[c] = binder[c]
  BY DEF AddressInv, AddressTypes
<1>2. AddressTypes(k)'
  BY <1>1 DEF AddressInv, AddressTypes
<1>3. Address(k)!Editing' = Address(k)!Editing /\ Address(k)!Moving' = Address(k)!Moving
          /\ (Address(k)!Exists' <=> Address(k)!Exists)
  BY DEF Address!Editing, Address!Moving, Address!Exists
<1>4. Address(k)!Editing # {} => Address(k)!Activating' = {}
  BY <1>1 DEF AddressInv, RowIsLocked, Address!Activating
<1>5. Address(k)!Moving # {} => Address(k)!Binding' = {}
  BY <1>1 DEF AddressInv, RowIsLocked, Address!Binding
<1>6. RowIsLocked(k)'
  BY <1>3, <1>4, <1>5 DEF AddressInv, RowIsLocked
<1>7. \A c \in k.binders : BinderOk(k, binder'[c], address.chain, epoch)
  BY <1>1 DEF AddressInv
<1>8. QED  BY <1>2, <1>6, <1>7 DEF AddressInv

LEMMA IdlingKeeps ==
    ASSUME NEW k, AddressInv(k), NEW b \in k.binders,
           binder' = [binder EXCEPT ![b] = Address(k)!IdleBinder],
           UNCHANGED <<address, editor, scan, rule, epoch, mixed>>
    PROVE  AddressInv(k)'
<1>1. BinderOk(k, Address(k)!IdleBinder, address.chain, epoch)
  BY IdleRows DEF BinderOk
<1>2. QED  BY <1>1, IdleRows, OneBinderMoves

LEMMA FindKeeps ==
    ASSUME NEW k, Address(k)!Assumptions, AddressInv(k), NEW b \in k.binders, Address(k)!FindAddress(b)
    PROVE  AddressInv(k)'
<1> PICK assets \in (SUBSET k.assetsOf[address.chain]) \ {{}}, pc \in {"bind", "activate"} :
      binder' = [binder EXCEPT ![b] =
        [Address(k)!IdleBinder EXCEPT !.pc = pc, !.chain = address.chain, !.todo = assets, !.epoch = epoch]]
  BY ZenonT(60) DEF Address!FindAddress
<1> PICK m : m = [Address(k)!IdleBinder EXCEPT !.pc = pc, !.chain = address.chain, !.todo = assets, !.epoch = epoch]
  OBVIOUS
<1>1. address.chain \in k.chains /\ epoch \in Nat
          /\ UNCHANGED <<address, editor, scan, rule, epoch, mixed>>
  BY DEF Address!FindAddress, AddressInv, AddressTypes, AddressRow, Address!Assumptions
<1>2. assets \in SUBSET Address(k)!Assets /\ assets \subseteq k.assetsOf[address.chain]
  BY <1>1, ChainsHaveAssets
<1>3. m \in BinderRow(k)
  BY <1>1, <1>2 DEF BinderRow, Address!IdleBinder
<1>4. m.chain = address.chain /\ m.todo = assets /\ m.bound = {} /\ ~m.activates /\ m.epoch = epoch
  BY DEF Address!IdleBinder
<1>5. BinderOk(k, m, address.chain, epoch)
  BY <1>1, <1>2, <1>4 DEF BinderOk
<1>6. QED  BY <1>1, <1>3, <1>4, <1>5, OneBinderMoves

LEMMA ActivateKeeps ==
    ASSUME NEW k, Address(k)!Assumptions, AddressInv(k), NEW b \in k.binders, Address(k)!Activate(b)
    PROVE  AddressInv(k)'
<1> PICK n : n = binder[b]  OBVIOUS
<1>1. /\ n \in BinderRow(k) /\ n.pc = "activate" /\ Address(k)!Editing = {}
             /\ BinderOk(k, n, address.chain, epoch)
      /\ UNCHANGED <<address, editor, scan, rule, epoch, mixed>>
             /\ binder \in [k.binders -> BinderRow(k)]
  BY DEF Address!Activate, AddressInv, AddressTypes
<1>2. CASE Address(k)!Exists
  <2> PICK m : m = [n EXCEPT !.pc = "bind", !.activates = TRUE]  OBVIOUS
  <2>1. binder' = [binder EXCEPT ![b] = m]
    BY <1>1, <1>2 DEF Address!Activate
  <2>2. /\ m \in BinderRow(k) /\ m.chain = n.chain /\ m.todo = n.todo /\ m.bound = n.bound
        /\ m.epoch = n.epoch
    BY <1>1 DEF BinderRow
  <2>3. BinderOk(k, m, address.chain, epoch)
    BY <1>1, <2>2 DEF BinderOk
  <2>4. QED  BY <1>1, <2>1, <2>2, <2>3, OneBinderMoves
<1>3. CASE ~Address(k)!Exists
  BY <1>1, <1>3, IdlingKeeps DEF Address!Activate
<1>4. QED  BY <1>2, <1>3

LEMMA BindKeeps ==
    ASSUME NEW k, Address(k)!Assumptions, AddressInv(k), NEW b \in k.binders, Address(k)!BindAsset(b)
    PROVE  AddressInv(k)'
<1> PICK n : n = binder[b]  OBVIOUS
<1> PICK a \in n.todo :
      /\ ~Address(k)!InTheWay(a)
      /\ binder' = IF Address(k)!Exists
                   THEN [binder EXCEPT ![b].todo = @ \ {a}, ![b].bound = @ \cup ({a} \ address.assets)]
                   ELSE [binder EXCEPT ![b] = Address(k)!IdleBinder]
  BY DEF Address!BindAsset
<1>1. /\ n \in BinderRow(k) /\ n.pc = "bind" /\ BinderOk(k, n, address.chain, epoch)
             /\ Address(k)!Moving = {}
      /\ UNCHANGED <<address, editor, scan, rule, epoch, mixed>>
             /\ binder \in [k.binders -> BinderRow(k)]
  BY DEF Address!BindAsset, Address!InTheWay, AddressInv, AddressTypes
<1>2. CASE Address(k)!Exists
  <2> PICK todo : todo = n.todo \ {a}  OBVIOUS
  <2> PICK bound : bound = n.bound \cup ({a} \ address.assets)  OBVIOUS
  <2> PICK m : m = [n EXCEPT !.todo = todo, !.bound = bound]  OBVIOUS
  <2>1. binder' = [binder EXCEPT ![b] = m]
    BY <1>1, <1>2
  <2>2. /\ n.todo \in SUBSET Address(k)!Assets /\ n.bound \in SUBSET Address(k)!Assets
               /\ n.chain \in k.chains
        /\ n.todo \subseteq k.assetsOf[n.chain] /\ n.bound \subseteq k.assetsOf[n.chain]
    BY <1>1 DEF BinderRow, BinderOk
  <2>3. /\ todo \in SUBSET Address(k)!Assets /\ bound \in SUBSET Address(k)!Assets
        /\ todo \subseteq k.assetsOf[n.chain] /\ bound \subseteq k.assetsOf[n.chain]
    BY <2>2
  <2>4. /\ m \in BinderRow(k) /\ m.pc = n.pc /\ m.chain = n.chain /\ m.todo = todo /\ m.bound = bound
        /\ m.epoch = n.epoch /\ m.activates = n.activates
    BY <1>1, <2>3 DEF BinderRow
  <2>5. BinderOk(k, m, address.chain, epoch)
    BY <1>1, <2>3, <2>4 DEF BinderOk
  <2>6. ~(m.activates /\ ~binder[b].activates)
    BY <2>4, Zenon
  <2>7. QED  BY <1>1, <2>1, <2>4, <2>5, <2>6, OneBinderMoves
<1>3. CASE ~Address(k)!Exists
  BY <1>1, <1>3, IdlingKeeps
<1>4. QED  BY <1>2, <1>3

LEMMA AddressCommitKeeps ==
    ASSUME NEW k, Address(k)!Assumptions, AddressInv(k), NEW b \in k.binders,
           Address(k)!CommitBinding(b)
    PROVE  AddressInv(k)'
<1> PICK n : n = binder[b]  OBVIOUS
<1>1. /\ n.pc = "bind" /\ UNCHANGED <<editor, scan, rule, epoch, faults>>
      /\ mixed' = (mixed \/ n.epoch # epoch) /\ binder' = [binder EXCEPT ![b] = Address(k)!IdleBinder]
      /\ address' = IF ~Address(k)!Exists THEN address
                    ELSE [address EXCEPT !.assets = @ \cup n.bound,
                                         !.status = IF n.activates THEN "active" ELSE @]
  BY DEF Address!CommitBinding
<1>2. /\ n \in BinderRow(k) /\ BinderOk(k, n, address.chain, epoch) /\ address \in AddressRow(k)
             /\ epoch \in Nat
      /\ RowIsOk(k, address, mixed) /\ RowIsLocked(k) /\ mixed \in BOOLEAN
  BY DEF AddressInv, AddressTypes, Address!Assumptions
<1>3. n.bound \in SUBSET Address(k)!Assets /\ address.assets \in SUBSET Address(k)!Assets
  BY <1>2 DEF BinderRow, AddressRow
<1>4. /\ address' \in AddressRow(k) /\ address'.chain = address.chain
      /\ address.status = "none" => address' = address
      /\ address.status # "none" => address'.assets = address.assets \cup n.bound
             /\ address'.status # "none"
  <2>1. CASE ~Address(k)!Exists
    BY <1>1, <1>2, <2>1 DEF Address!Exists
  <2>2. CASE Address(k)!Exists
    <3> PICK assets : assets = address.assets \cup n.bound  OBVIOUS
    <3> PICK status : status = IF n.activates THEN "active" ELSE address.status  OBVIOUS
    <3>1. address' = [address EXCEPT !.assets = assets, !.status = status]
      BY <1>1, <2>2
    <3>2. assets \in SUBSET Address(k)!Assets /\ status \in {"none", "active", "paused"}
              /\ status # "none"
      BY <1>2, <1>3, <2>2 DEF AddressRow, Address!Exists
    <3>3. QED  BY <1>2, <2>2, <3>1, <3>2 DEF AddressRow, Address!Exists
  <2>3. QED  BY <2>1, <2>2
<1>5. binder' \in [k.binders -> BinderRow(k)] /\ binder'[b] = Address(k)!IdleBinder
      /\ \A c \in k.binders : c # b => binder'[c] = binder[c]
  BY <1>1, IdleRows DEF AddressInv, AddressTypes
<1>6. mixed' \in BOOLEAN /\ (mixed => mixed')
  BY <1>1
<1>7. AddressTypes(k)'
  BY <1>1, <1>4, <1>5, <1>6 DEF AddressInv, AddressTypes
<1>8. Address(k)!Editing' = Address(k)!Editing /\ Address(k)!Moving' = Address(k)!Moving
  BY <1>1, <1>4 DEF Address!Editing, Address!Moving
<1>9. Address(k)!Activating' \subseteq Address(k)!Activating
          /\ Address(k)!Binding' \subseteq Address(k)!Binding
  BY <1>5, IdleRows DEF Address!Activating, Address!Binding
<1>10. Address(k)!Exists => Address(k)!Exists'
  BY <1>4 DEF Address!Exists
<1>11. RowIsLocked(k)'
  BY <1>1, <1>2, <1>8, <1>9, <1>10 DEF RowIsLocked
<1>12. RowIsOk(k, address', mixed')
  <2>1. ~mixed' => n.bound \subseteq k.assetsOf[address.chain]
    BY <1>1, <1>2 DEF BinderOk
  <2>2. CASE address.status = "none"
    BY <1>2, <1>4, <2>2 DEF RowIsOk
  <2>3. CASE address.status # "none"
    BY <1>2, <1>4, <1>6, <2>1, <2>3 DEF RowIsOk
  <2>4. QED  BY <2>2, <2>3
<1>13. \A d \in k.editors : EditOk(k, editor'[d], address')
  <2> SUFFICES ASSUME NEW d \in k.editors  PROVE EditOk(k, editor[d], address')
    BY <1>1
  <2>1. EditOk(k, editor[d], address)
    BY DEF AddressInv
  <2>2. editor[d].pc # "idle" /\ editor[d].chain # address.chain => address'.assets = address.assets
    <3> SUFFICES ASSUME editor[d].pc # "idle", editor[d].chain # address.chain
                 PROVE  address'.assets = address.assets
      OBVIOUS
    <3>1. d \in Address(k)!Moving
      BY DEF Address!Moving, Address!Editing
    <3>2. n.bound = {}
      BY <1>2, <3>1 DEF RowIsLocked, Address!Binding
    <3>3. QED  BY <1>4, <3>2
  <2>3. QED  BY <1>4, <2>1, <2>2 DEF EditOk
<1>14. /\ \A c \in k.binders : BinderOk(k, binder[c], address'.chain, epoch')
       /\ \A s \in k.scans : ScanOk(k, scan[s], address'.chain, epoch', mixed')
       /\ \A r \in k.rules : RuleOk(k, rule[r], address'.chain, epoch')
  BY <1>1, <1>2, <1>4, <1>6, AddressOthersStay
<1>15. \A c \in k.binders : BinderOk(k, binder'[c], address'.chain, epoch')
  BY <1>5, <1>14, IdleRows DEF BinderOk
<1>16. QED  BY <1>1, <1>7, <1>11, <1>12, <1>13, <1>14, <1>15 DEF AddressInv

LEMMA EditorLeaves ==
    ASSUME NEW k, AddressInv(k), NEW e \in k.editors,
           editor' = [editor EXCEPT ![e] = Address(k)!IdleEditor],
           UNCHANGED <<address, binder, scan, rule, epoch, mixed>>
    PROVE  AddressInv(k)'
<1>1. editor' \in [k.editors -> EditorRow(k)] /\ editor'[e] = Address(k)!IdleEditor
      /\ \A d \in k.editors : d # e => editor'[d] = editor[d]
  BY IdleRows DEF AddressInv, AddressTypes
<1>2. AddressTypes(k)'
  BY <1>1 DEF AddressInv, AddressTypes
<1>3. Address(k)!Editing' \subseteq Address(k)!Editing /\ Address(k)!Moving' \subseteq Address(k)!Moving
  BY <1>1, IdleRows DEF Address!Editing, Address!Moving
<1>4. RowIsLocked(k)'
  BY <1>3 DEF AddressInv, RowIsLocked, Address!Exists, Address!Activating, Address!Binding
<1>5. \A d \in k.editors : EditOk(k, editor'[d], address)
  BY <1>1, IdleRows DEF AddressInv, EditOk
<1>6. QED  BY <1>2, <1>4, <1>5 DEF AddressInv

LEMMA RollbackKeeps ==
    ASSUME NEW k, Address(k)!Assumptions, AddressInv(k), Address(k)!Rollback
    PROVE  AddressInv(k)'
BY EditorLeaves, IdlingKeeps DEF Address!Rollback, Address!Editing

\* A step of a scan or of a rule leaves the rest alone.
LEMMA ReaderMoves ==
    ASSUME NEW k, AddressInv(k), UNCHANGED <<address, editor, binder, epoch, mixed>>,
           scan' \in [k.scans -> ScanRow(k)], rule' \in [k.rules -> RuleRow(k)],
           \A s \in k.scans : ScanOk(k, scan'[s], address.chain, epoch, mixed),
           \A r \in k.rules : RuleOk(k, rule'[r], address.chain, epoch)
    PROVE  AddressInv(k)'
<1>1. AddressTypes(k)'
  BY DEF AddressInv, AddressTypes
<1>2. RowIsLocked(k)'
  BY DEF AddressInv, RowIsLocked, Address!Editing, Address!Moving, Address!Exists,
     Address!Activating, Address!Binding
<1>3. QED  BY <1>1, <1>2 DEF AddressInv

LEMMA OneScanMoves ==
    ASSUME NEW k, AddressInv(k), NEW s \in k.scans, NEW m \in ScanRow(k),
           ScanOk(k, m, address.chain, epoch, mixed),
           scan' = [scan EXCEPT ![s] = m], UNCHANGED <<address, editor, binder, rule, epoch, mixed>>
    PROVE  AddressInv(k)'
<1>1. scan' \in [k.scans -> ScanRow(k)]
          /\ \A t \in k.scans : ScanOk(k, scan'[t], address.chain, epoch, mixed)
  BY DEF AddressInv, AddressTypes
<1>2. rule' \in [k.rules -> RuleRow(k)] /\ \A r \in k.rules : RuleOk(k, rule'[r], address.chain, epoch)
  BY DEF AddressInv, AddressTypes
<1>3. QED  BY <1>1, <1>2, ReaderMoves

LEMMA OneRuleMoves ==
    ASSUME NEW k, AddressInv(k), NEW r \in k.rules, NEW m \in RuleRow(k),
           RuleOk(k, m, address.chain, epoch),
           rule' = [rule EXCEPT ![r] = m], UNCHANGED <<address, editor, binder, scan, epoch, mixed>>
    PROVE  AddressInv(k)'
<1>1. rule' \in [k.rules -> RuleRow(k)] /\ \A q \in k.rules : RuleOk(k, rule'[q], address.chain, epoch)
  BY DEF AddressInv, AddressTypes
<1>2. scan' \in [k.scans -> ScanRow(k)]
          /\ \A s \in k.scans : ScanOk(k, scan'[s], address.chain, epoch, mixed)
  BY DEF AddressInv, AddressTypes
<1>3. QED  BY <1>1, <1>2, ReaderMoves

LEMMA AddressReadingKeeps ==
    ASSUME NEW k, Address(k)!Assumptions, AddressInv(k), NEW s \in k.scans,
           Address(k)!ReadContext(s) \/ Address(k)!ReadAssets(s)
    PROVE  AddressInv(k)'
<1>1. /\ address \in AddressRow(k) /\ epoch \in Nat /\ scan \in [k.scans -> ScanRow(k)]
      /\ UNCHANGED <<address, editor, binder, rule, epoch, mixed>>
      /\ ScanOk(k, scan[s], address.chain, epoch, mixed) /\ RowIsOk(k, address, mixed)
  BY DEF AddressInv, AddressTypes, Address!Assumptions, Address!ReadContext, Address!ReadAssets
<1>2. address.chain \in k.chains /\ address.assets \in SUBSET Address(k)!Assets
  BY <1>1 DEF AddressRow
<1>3. CASE Address(k)!ReadContext(s)
  <2> PICK m : m = [Address(k)!IdleScan EXCEPT !.pc = "context", !.chain = address.chain, !.read = epoch]  OBVIOUS
  <2>1. m \in ScanRow(k)
    BY <1>1, <1>2 DEF ScanRow, Address!IdleScan
  <2>2. m.pc = "context" /\ m.chain = address.chain /\ m.read = epoch
    BY DEF Address!IdleScan
  <2>3. ScanOk(k, m, address.chain, epoch, mixed)
    BY <1>1, <2>2 DEF ScanOk
  <2>4. QED  BY <1>1, <1>3, <2>1, <2>3, OneScanMoves DEF Address!ReadContext
<1>4. CASE Address(k)!ReadAssets(s)
  <2> PICK n : n = scan[s]  OBVIOUS
  <2> PICK m : m = [n EXCEPT !.pc = "scanning", !.assets = address.assets, !.selected = epoch]  OBVIOUS
  <2>1. n.pc = "context" /\ scan' = [scan EXCEPT ![s] = m]
    BY <1>1, <1>4 DEF Address!ReadAssets
  <2>2. /\ m \in ScanRow(k) /\ m.pc = "scanning" /\ m.assets = address.assets /\ m.selected = epoch
        /\ m.read = n.read /\ m.chain = n.chain
    BY <1>1, <1>2 DEF ScanRow
  <2>3. n.read = epoch => n.chain = address.chain
    BY <1>1, <2>1 DEF ScanOk
  <2>4. ~mixed => address.assets \subseteq k.assetsOf[address.chain]
    BY <1>1 DEF RowIsOk
  <2>5. ScanOk(k, m, address.chain, epoch, mixed)
    BY <2>2, <2>3, <2>4 DEF ScanOk
  <2>6. QED  BY <1>1, <2>1, <2>2, <2>5, OneScanMoves
<1>5. QED  BY <1>3, <1>4

LEMMA RuleKeeps ==
    ASSUME NEW k, Address(k)!Assumptions, AddressInv(k), NEW r \in k.rules, Address(k)!CheckRule(r)
               \/ Address(k)!SaveRule(r)
    PROVE  AddressInv(k)'
<1>1. /\ address.chain \in k.chains /\ epoch \in Nat /\ rule \in [k.rules -> RuleRow(k)]
      /\ UNCHANGED <<address, editor, binder, scan, epoch, mixed>>
      /\ RuleOk(k, rule[r], address.chain, epoch)
  BY DEF AddressInv, AddressTypes, AddressRow, Address!Assumptions, Address!CheckRule, Address!SaveRule
<1>2. CASE Address(k)!CheckRule(r)
  <2> PICK chain \in k.chains \cup {None}, named \in BOOLEAN, asset \in Address(k)!Assets \cup {None} :
        /\ Address(k)!Consistent(chain, IF named THEN address.chain ELSE None,
                                        IF asset = None THEN None ELSE Address(k)!ChainOf(asset))
        /\ rule' = [rule EXCEPT ![r] =
             [pc |-> "checked", chain |-> chain, named |-> named, asset |-> asset, epoch |-> epoch]]
    BY <1>2 DEF Address!CheckRule
  <2> PICK m : m = [pc |-> "checked", chain |-> chain, named |-> named, asset |-> asset, epoch |-> epoch]
    OBVIOUS
  <2>1. m \in RuleRow(k)
    BY <1>1 DEF RuleRow
  <2>2. None \notin k.chains /\ None \notin Address(k)!Assets
    BY DEF Address!Assumptions
  <2>3. named => chain \in {None, address.chain}
    BY <1>1, <2>2 DEF Address!Consistent, Address!AgreesWithChain
  <2>4. named /\ asset # None => asset \in k.assetsOf[address.chain]
    BY <1>1, <2>2, AssetsHaveAChain DEF Address!Consistent, Address!AgreesWithChain
  <2>5. RuleOk(k, m, address.chain, epoch)
    BY <1>1, <2>3, <2>4 DEF RuleOk
  <2>6. QED  BY <1>1, <2>1, <2>5, OneRuleMoves
<1>3. CASE Address(k)!SaveRule(r)
  <2>1. CASE rule[r].named /\ ~Address(k)!Exists
    <3>1. RuleOk(k, Address(k)!NoRule, address.chain, epoch)
      BY IdleRows DEF RuleOk
    <3>2. QED  BY <1>1, <1>3, <2>1, <3>1, IdleRows, OneRuleMoves DEF Address!SaveRule
  <2>2. CASE ~(rule[r].named /\ ~Address(k)!Exists)
    <3> PICK n : n = rule[r]  OBVIOUS
    <3> PICK m : m = [n EXCEPT !.pc = "saved"]  OBVIOUS
    <3>1. n.pc = "checked" /\ rule' = [rule EXCEPT ![r] = m] /\ n \in RuleRow(k)
      BY <1>1, <1>3, <2>2 DEF Address!SaveRule
    <3>2. m \in RuleRow(k) /\ m.named = n.named /\ m.epoch = n.epoch /\ m.chain = n.chain
              /\ m.asset = n.asset
      BY <3>1 DEF RuleRow
    <3>3. RuleOk(k, m, address.chain, epoch)
      BY <1>1, <3>1, <3>2 DEF RuleOk
    <3>4. QED  BY <1>1, <3>1, <3>2, <3>3, OneRuleMoves
  <2>3. QED  BY <2>1, <2>2
<1>4. QED  BY <1>2, <1>3

LEMMA AddressStep ==
    ASSUME NEW k, Address(k)!Assumptions, AddressInv(k), Address(k)!Next
    PROVE  AddressInv(k)'
<1>1. ASSUME NEW e \in k.editors, Address(k)!UpdateRow(e) \/ Address(k)!DeleteAssets(e)
                 \/ Address(k)!InsertAssets(e)  PROVE AddressInv(k)'
  BY <1>1, UpdateKeeps, DeleteAssetsKeeps, AddressInsertKeeps
<1>2. ASSUME NEW b \in k.binders, Address(k)!FindAddress(b) \/ Address(k)!Activate(b)
                 \/ Address(k)!BindAsset(b) \/ Address(k)!CommitBinding(b)
      PROVE  AddressInv(k)'
  BY <1>2, FindKeeps, ActivateKeeps, BindKeeps, AddressCommitKeeps
<1>3. ASSUME NEW s \in k.scans, Address(k)!ReadContext(s) \/ Address(k)!ReadAssets(s) 
     PROVE AddressInv(k)'
  BY <1>3, AddressReadingKeeps
<1>4. ASSUME NEW r \in k.rules, Address(k)!CheckRule(r) \/ Address(k)!SaveRule(r)  PROVE AddressInv(k)'
  BY <1>4, RuleKeeps
<1>5. QED  BY <1>1, <1>2, <1>3, <1>4, DeleteAddressKeeps, RollbackKeeps DEF Address!Next

LEMMA AddressStutter ==
    ASSUME NEW k, AddressInv(k), UNCHANGED Address(k)!vars
    PROVE  AddressInv(k)'
<1>1. UNCHANGED <<address, editor, binder, scan, rule, epoch, mixed>>
  BY DEF Address!vars
<1>2. QED  BY <1>1, ReaderMoves DEF AddressInv, AddressTypes

LEMMA AddressTells ==
    ASSUME NEW k, Address(k)!Assumptions, AddressInv(k)
    PROVE  Address(k)!TypeOK /\ Address(k)!SelectionBelongs /\ Address(k)!ScanIsOfOneChain
               /\ Address(k)!RuleCanMatch
<1>1. address \in AddressRow(k) /\ address.chain \in k.chains
  BY DEF AddressInv, AddressTypes, AddressRow
<1>2. Address(k)!TypeOK
  BY <1>1 DEF AddressInv, AddressTypes, AddressRow, EditorRow, Address!TypeOK
<1>3. Address(k)!SelectionBelongs
  BY DEF AddressInv, RowIsOk, Address!Exists, Address!SelectionBelongs
<1>4. Address(k)!ScanIsOfOneChain
  BY DEF AddressInv, ScanOk, Address!ScanIsOfOneChain
<1>5. ASSUME NEW r \in k.rules, rule[r].pc = "saved", rule[r].named, rule[r].epoch = epoch
      PROVE  \E a \in k.assetsOf[address.chain] : Address(k)!Matches(r, [chain |-> address.chain, asset |-> a])
  <2>1. rule[r].chain \in {None, address.chain} /\ rule[r].asset \in {None}
            \cup k.assetsOf[address.chain]
    BY <1>5 DEF AddressInv, RuleOk
  <2>2. CASE rule[r].asset = None
    BY <1>1, <2>1, <2>2, ChainsHaveAssets DEF Address!Matches
  <2>3. CASE rule[r].asset # None
    BY <2>1, <2>3 DEF Address!Matches
  <2>4. QED  BY <2>2, <2>3
<1>6. Address(k)!RuleCanMatch
  BY <1>5 DEF Address!RuleCanMatch
<1>7. QED  BY <1>2, <1>3, <1>4, <1>6

-----------------------------------------------------------------------------
(* The services together: one of them moves, the others are not there.     *)

ServicesInv ==
    /\ part = "custody" => CustodyInv
    /\ part = "pollers" => Polling!TelegramInv
    /\ part = "webhook" => Webhook!TelegramInv
    /\ part = "realtime" => RealtimeInv
    /\ \A k \in Rescanned : part = "rescan" /\ setup = k => RescanInv(k)
    /\ part = "supervisor" => SupervisorInv
    /\ part = "wake" => WakeInv
    /\ part = "config" => ConfigInv
    /\ \A k \in Relocated : part = "address" /\ setup = k => AddressInv(k)
    /\ part = "answers" => AnswersInv

LEMMA ServicesInvInit ==
    ASSUME Init
    PROVE  ServicesInv
<1>1. ASSUME part = "custody"  PROVE CustodyInv
  BY <1>1, PartsAssumption, CustodyInit DEF Init
<1>2. ASSUME part = "pollers"  PROVE Polling!TelegramInv
  BY <1>2, PartsAssumption, Polling!TelegramInvInit DEF Init
<1>3. ASSUME part = "webhook"  PROVE Webhook!TelegramInv
  BY <1>3, PartsAssumption, Webhook!TelegramInvInit DEF Init
<1>4. ASSUME part = "realtime"  PROVE RealtimeInv
  BY <1>4, PartsAssumption, RealtimeInit DEF Init
<1>5. ASSUME NEW k \in Rescanned, part = "rescan", setup = k  PROVE RescanInv(k)
  <2>1. Rescan(k)!Init
    BY <1>5 DEF Init
  <2>2. Rescan(k)!Assumptions
    BY PartsAssumption
  <2>3. QED  BY <2>1, <2>2, RescanInit
<1>6. ASSUME part = "supervisor"  PROVE SupervisorInv
  BY <1>6, PartsAssumption, SupervisorInit DEF Init
<1>7. ASSUME part = "wake"  PROVE WakeInv
  BY <1>7, PartsAssumption, WakeInit DEF Init
<1>8. ASSUME part = "config"  PROVE ConfigInv
  BY <1>8, PartsAssumption, ConfigInit DEF Init
<1>9. ASSUME NEW k \in Relocated, part = "address", setup = k  PROVE AddressInv(k)
  <2>1. Address(k)!Init
    BY <1>9 DEF Init
  <2>2. Address(k)!Assumptions
    BY PartsAssumption
  <2>3. QED  BY <2>1, <2>2, AddressInit
<1>10. ASSUME part = "answers"  PROVE AnswersInv
  BY <1>10, AnswersInit DEF Init
<1>11. QED
  BY <1>1, <1>2, <1>3, <1>4, <1>5, <1>6, <1>7, <1>8, <1>9, <1>10 DEF ServicesInv

\* A step is a step of the part the behaviour is about, with its parameters.
LEMMA PartIsKept ==
    ASSUME [Next]_all
    PROVE  part' = part /\ setup' = setup
BY DEF Next, all, chosen, CustodyRest, TelegramRest, RealtimeRest, RescanRest, SupervisorRest,
       WakeRest, ConfigRest, AddressRest

LEMMA RescanMoves ==
    ASSUME [Next]_all, NEW k \in Rescanned, part = "rescan", setup = k
    PROVE  Rescan(k)!Next \/ UNCHANGED Rescan(k)!vars
<1>1. CASE UNCHANGED all
  BY <1>1 DEF all, rescan, Rescan!vars
<1>2. CASE Next
  BY <1>2 DEF Next
<1>3. QED  BY <1>1, <1>2

LEMMA AddressMoves ==
    ASSUME [Next]_all, NEW k \in Relocated, part = "address", setup = k
    PROVE  Address(k)!Next \/ UNCHANGED Address(k)!vars
<1>1. CASE UNCHANGED all
  BY <1>1 DEF all, address_, Address!vars
<1>2. CASE Next
  BY <1>2 DEF Next
<1>3. QED  BY <1>1, <1>2

LEMMA CustodyMoves ==
    ASSUME [Next]_all, part = "custody"
    PROVE  Custody!Next \/ UNCHANGED Custody!vars
<1>1. CASE UNCHANGED all
  BY <1>1 DEF all, custody, Custody!vars
<1>2. CASE Next
  BY <1>2 DEF Next
<1>3. QED  BY <1>1, <1>2

LEMMA ServicesInvStep ==
    ASSUME ServicesInv, [Next]_all
    PROVE  ServicesInv'
<1>1. ASSUME part = "custody"  PROVE CustodyInv'
  BY <1>1, PartsAssumption, CustodyMoves, CustodyStep, CustodyStutter DEF ServicesInv
<1>2. ASSUME part = "pollers"  PROVE Polling!TelegramInv'
  <2>1. [Polling!Next]_(Polling!vars)
    BY <1>2 DEF Next, all, telegram, Polling!vars
  <2>2. QED  BY <1>2, <2>1, PartsAssumption, Polling!TelegramInvStep DEF ServicesInv
<1>3. ASSUME part = "webhook"  PROVE Webhook!TelegramInv'
  <2>1. [Webhook!Next]_(Webhook!vars)
    BY <1>3 DEF Next, all, telegram, Webhook!vars
  <2>2. QED  BY <1>3, <2>1, PartsAssumption, Webhook!TelegramInvStep DEF ServicesInv
<1>4. ASSUME part = "realtime"  PROVE RealtimeInv'
  <2>1. Push!Next \/ UNCHANGED Push!vars
    BY <1>4 DEF Next, all, realtime, Push!vars
  <2>2. QED  BY <1>4, <2>1, PartsAssumption, RealtimeStep, RealtimeStutter DEF ServicesInv
<1>5. ASSUME NEW k \in Rescanned, part = "rescan", setup = k  PROVE RescanInv(k)'
  <2>1. Rescan(k)!Assumptions /\ RescanInv(k)
    BY <1>5, PartsAssumption DEF ServicesInv
  <2>2. Rescan(k)!Next \/ UNCHANGED Rescan(k)!vars
    BY <1>5, RescanMoves
  <2>3. CASE Rescan(k)!Next
    BY <2>1, <2>3, RescanStep
  <2>4. CASE UNCHANGED Rescan(k)!vars
    BY <2>1, <2>4, RescanStutter
  <2>5. QED  BY <2>2, <2>3, <2>4
<1>6. ASSUME part = "supervisor"  PROVE SupervisorInv'
  <2>1. AllInOne!Next \/ UNCHANGED AllInOne!vars
    BY <1>6 DEF Next, all, supervisor, AllInOne!vars
  <2>2. QED  BY <1>6, <2>1, PartsAssumption, SupervisorStep, SupervisorStutter DEF ServicesInv
<1>7. ASSUME part = "wake"  PROVE WakeInv'
  <2>1. Wake!Next \/ UNCHANGED Wake!vars
    BY <1>7 DEF Next, all, wake, Wake!vars
  <2>2. QED  BY <1>7, <2>1, PartsAssumption, WakeStep, WakeStutter DEF ServicesInv
<1>8. ASSUME part = "config"  PROVE ConfigInv'
  <2>1. Config!Next \/ UNCHANGED Config!vars
    BY <1>8 DEF Next, all, config, Config!vars
  <2>2. QED  BY <1>8, <2>1, PartsAssumption, ConfigStep, ConfigStutter DEF ServicesInv
<1>9. ASSUME NEW k \in Relocated, part = "address", setup = k  PROVE AddressInv(k)'
  <2>1. Address(k)!Assumptions /\ AddressInv(k)
    BY <1>9, PartsAssumption DEF ServicesInv
  <2>2. Address(k)!Next \/ UNCHANGED Address(k)!vars
    BY <1>9, AddressMoves
  <2>3. CASE Address(k)!Next
    BY <2>1, <2>3, AddressStep
  <2>4. CASE UNCHANGED Address(k)!vars
    BY <2>1, <2>4, AddressStutter
  <2>5. QED  BY <2>2, <2>3, <2>4
<1>10. ASSUME part = "answers"  PROVE AnswersInv'
  <2>1. exchange' = exchange
    BY <1>10 DEF Next, all
  <2>2. AnswersInv
    BY <1>10 DEF ServicesInv
  <2>3. QED
    BY <2>1, <2>2 DEF AnswersInv, Answer!OutcomeIsAllowed, Answer!SuccessIsSeen, Answer!Outcome
<1>11. part' = part /\ setup' = setup
  BY PartIsKept
<1>12. QED
  BY <1>1, <1>2, <1>3, <1>4, <1>5, <1>6, <1>7, <1>8, <1>9, <1>10, <1>11 DEF ServicesInv

LEMMA SpecServicesInv == Spec => []ServicesInv
<1>1. Init => ServicesInv
  BY ServicesInvInit
<1>2. ServicesInv /\ [Next]_all => ServicesInv'
  BY ServicesInvStep
<1>3. QED  BY <1>1, <1>2, PTL DEF Spec

-----------------------------------------------------------------------------
\* The types of the state of each part, of every part the behaviour may be about.
THEOREM ServiceTypesAreRight == Spec => []TypesOK
<1>1. ServicesInv => TypesOK
  <2> SUFFICES ASSUME ServicesInv  PROVE TypesOK
    OBVIOUS
  <2>1. ASSUME part = "custody"  PROVE Custody!TypeOK
    BY <2>1, CustodyTells DEF ServicesInv
  <2>2. ASSUME part = "pollers"  PROVE Polling!TypeOK
    BY <2>2, PartsAssumption, Polling!TelegramInvTells DEF ServicesInv
  <2>3. ASSUME part = "webhook"  PROVE Webhook!TypeOK
    BY <2>3, PartsAssumption, Webhook!TelegramInvTells DEF ServicesInv
  <2>4. ASSUME part = "realtime"  PROVE Push!TypeOK
    BY <2>4, RealtimeTells DEF ServicesInv
  <2>5. ASSUME NEW k \in Rescanned, part = "rescan", setup = k  PROVE Rescan(k)!TypeOK
    <3>1. Rescan(k)!Assumptions /\ RescanInv(k)
      BY <2>5, PartsAssumption DEF ServicesInv
    <3>2. QED  BY <3>1, RescanTells
  <2>6. ASSUME part = "supervisor"  PROVE AllInOne!TypeOK
    BY <2>6, PartsAssumption, SupervisorTells DEF ServicesInv
  <2>7. ASSUME part = "wake"  PROVE Wake!TypeOK
    BY <2>7, WakeTells DEF ServicesInv
  <2>8. ASSUME part = "config"  PROVE Config!TypeOK
    BY <2>8, ConfigTells DEF ServicesInv
  <2>9. ASSUME NEW k \in Relocated, part = "address", setup = k  PROVE Address(k)!TypeOK
    <3>1. Address(k)!Assumptions /\ AddressInv(k)
      BY <2>9, PartsAssumption DEF ServicesInv
    <3>2. QED  BY <3>1, AddressTells
  <2>10. QED  BY <2>1, <2>2, <2>3, <2>4, <2>5, <2>6, <2>7, <2>8, <2>9 DEF TypesOK
<1>2. QED  BY <1>1, SpecServicesInv, PTL

\* However assign_custody_account and release_custody_assignment are retried or
\* raced: an account serves one business reference at a time, the pool offers
\* exactly the accounts that serve none, a reference keeps its account until it is
\* released for good, and a committed assignment has its address watched on every
\* configured chain, but for what the user undid.
THEOREM CustodyStaysExclusive == Spec => CustodyIsExclusive
<1>1. ServicesInv => (part = "custody" => Custody!PoolIsHonest)
  BY CustodyTells DEF ServicesInv
<1>2. ServicesInv /\ [Next]_all =>
        [part = "custody" => /\ \A r \in Custodian.refs : Custody!AssignedOnce(r)
                             /\ \A t \in Custodian.assigners : Custody!WatchedAtCommit(t)]_all
  <2> SUFFICES ASSUME ServicesInv, [Next]_all, part = "custody"
               PROVE  /\ \A r \in Custodian.refs : Custody!AssignedOnce(r)
                      /\ \A t \in Custodian.assigners : Custody!WatchedAtCommit(t)
    OBVIOUS
  <2>1. CustodyInv /\ (Custody!Next \/ UNCHANGED Custody!vars)
    BY CustodyMoves DEF ServicesInv
  <2>2. \A r \in Custodian.refs : Custody!AssignedOnce(r)
    BY <2>1, ReferenceStays
  <2>3. \A t \in Custodian.assigners : Custody!WatchedAtCommit(t)
    BY <2>1, CommitWatches
  <2>4. QED  BY <2>2, <2>3
<1>3. QED  BY <1>1, <1>2, SpecServicesInv, PTL DEF Spec, CustodyIsExclusive

\* upsert_telegram_update_offset passes no update that was not processed, and a
\* request is confirmed to one chat, once, the one it is bound to, whichever
\* pollers overlap with each other or the webhook or end between a binding and
\* their offset.
THEOREM BindingsHappenOnce == Spec => []UpdatesBindOnce
<1>1. ServicesInv => UpdatesBindOnce
  <2>1. ASSUME ServicesInv, part = "pollers"  PROVE Polling!UpdatesBindOnce
    BY <2>1, PartsAssumption, Polling!TelegramInvTells DEF ServicesInv
  <2>2. ASSUME ServicesInv, part = "webhook"  PROVE Webhook!UpdatesBindOnce
    BY <2>2, PartsAssumption, Webhook!TelegramInvTells DEF ServicesInv
  <2>3. QED  BY <2>1, <2>2 DEF UpdatesBindOnce
<1>2. QED  BY <1>1, SpecServicesInv, PTL

\* websocket_connection sends a socket the notifications of its tenant, in order and
\* once, and lacks only what a lag or the disconnected listener lost.
THEOREM SocketsAreToldInOrder == Spec => []SocketStory
<1>1. ServicesInv => SocketStory
  BY RealtimeTells DEF ServicesInv, SocketStory
<1>2. QED  BY <1>1, SpecServicesInv, PTL

\* rescan_evm_transaction, beside other rescans and scans: one event of each log and
\* address and of the sender's value or fee, none that mixes two inclusions, and
\* none missing of the inclusion it answers for.
THEOREM RescansTellTheChain == Spec => RescanTellsTheChain
<1>1. ServicesInv => \A k \in Rescanned :
        part = "rescan" /\ setup = k => Rescan(k)!EventsAreReal /\ Rescan(k)!OneEventEach
  <2> SUFFICES ASSUME ServicesInv, NEW k \in Rescanned, part = "rescan", setup = k
               PROVE  Rescan(k)!EventsAreReal /\ Rescan(k)!OneEventEach
    OBVIOUS
  <2>1. Rescan(k)!Assumptions /\ RescanInv(k)
    BY PartsAssumption DEF ServicesInv
  <2>2. QED  BY <2>1, RescanTells
<1>2. ServicesInv /\ [Next]_all =>
        [\A k \in Rescanned :
            part = "rescan" /\ setup = k => \A r \in k.rescans : Rescan(k)!RescanIsComplete(r)]_all
  <2> SUFFICES ASSUME ServicesInv, [Next]_all, NEW k \in Rescanned, part = "rescan", setup = k,
                      NEW r \in k.rescans
               PROVE  Rescan(k)!RescanIsComplete(r)
    OBVIOUS
  <2>1. Rescan(k)!Assumptions /\ RescanInv(k)
    BY PartsAssumption DEF ServicesInv
  <2>2. Rescan(k)!Next \/ UNCHANGED Rescan(k)!vars
    BY RescanMoves
  <2>3. QED  BY <2>1, <2>2, AnswerIsComplete
<1>3. QED  BY <1>1, <1>2, SpecServicesInv, PTL DEF Spec, RescanTellsTheChain

\* main of all-in-one awaits every service and heartbeat and returns the error that
\* made it shut down, if there was one; a running service is shown as stale only
\* if the waits of run_service_heartbeat, one and one more for each failed write,
\* and the time its writes took exceed SERVICE_HEARTBEAT_STALE_SECONDS.
THEOREM ShutdownsAreComplete == Spec => []ShutdownIsComplete
<1>1. ServicesInv => ShutdownIsComplete
  BY PartsAssumption, SupervisorTells DEF ServicesInv, ShutdownIsComplete
<1>2. QED  BY <1>1, SpecServicesInv, PTL

\* run_worker waits for no signal while a signalled job is due, unless a signal is on
\* its way, although SIGNAL_SCRIPT keeps one in the list at most.
THEOREM WorkersAreWoken == Spec => []NobodySleepsThroughAJob
<1>1. ServicesInv => NobodySleepsThroughAJob
  BY WakeTells DEF ServicesInv, NobodySleepsThroughAJob
<1>2. QED  BY <1>1, SpecServicesInv, PTL

\* A verified bot has a token Telegram accepted and that token's user name, unless
\* update_telegram_bot replaced it between the two statements of a verification;
\* calls of get_or_create_default_in_app_channel agree on one channel, active while
\* they ran, whoever edits it.
THEOREM SettingsStayUsable == Spec => []SettingsAreUsable
<1>1. ServicesInv => SettingsAreUsable
  BY ConfigTells DEF ServicesInv, SettingsAreUsable
<1>2. QED  BY <1>1, SpecServicesInv, PTL

\* update_watched_address leaves an address with assets of its own chain; a scan looks
\* for the assets of another chain only if the address moved between its two
\* statements, and a rule about an address that
\* validate_notification_rule_references accepts can match an event of its chain.
THEOREM AddressesKeepOneChain == Spec => []AddressIsOfOneChain
<1>1. ServicesInv => AddressIsOfOneChain
  <2> SUFFICES ASSUME ServicesInv, NEW k \in Relocated, part = "address", setup = k
               PROVE  Address(k)!SelectionBelongs /\ Address(k)!ScanIsOfOneChain /\ Address(k)!RuleCanMatch
    BY DEF AddressIsOfOneChain
  <2>1. Address(k)!Assumptions /\ AddressInv(k)
    BY PartsAssumption DEF ServicesInv
  <2>2. QED  BY <2>1, AddressTells
<1>2. QED  BY <1>1, SpecServicesInv, PTL

\* What classify_telegram_response, classify_telegram_verify_response and
\* classify_webhook_response make of every answer: sent only of what was done, given
\* up only what was not, and no success whose answer arrives is missed.
THEOREM AnswersStayUnderstood == Spec => []AnswersAreUnderstood
<1>1. ServicesInv => AnswersAreUnderstood
  BY DEF ServicesInv, AnswersInv, AnswersAreUnderstood
<1>2. QED  BY <1>1, SpecServicesInv, PTL
=============================================================================
