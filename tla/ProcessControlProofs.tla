------------------------ MODULE ProcessControlProofs ------------------------
(***************************************************************************)
(* Proofs about ProcessControl, for any number of processes and of events  *)
(* from outside.                                                           *)
(***************************************************************************)
EXTENDS ProcessControl, TLAPS

(* A start between its check and the pid file keeps everybody else out,    *)
(* unless they raced.                                                      *)
Exclusive ==
    ~raced => \A p \in Window : \A q \in Procs \ {p} :
                  q \notin Window /\ (q \in Announced => exitCh[q])

(* A process is named by the file only after it has written it, ...        *)
WrittenLate ==
    \A p \in Procs : pidFile = p => pc[p] \notin {"free", "check", "setup", "listening", "leaving",
                                                "refused"}

(* ... an upgrade that has written it has replaced its parent, ...         *)
ChildReplaces ==
    \A p \in Procs : child[p] # None =>
        /\ pc[p] \in {"announce", "serving", "draining"}
        /\ handler[p] = "upgrade" /\ ~exitCh[p]
        /\ child[p] # p
        /\ pc[child[p]] \in {"announce", "serving"} => pidFile # p

(* ... and a process that is to end removes the file, if it still is named *)
(* by it.                                                                  *)
OwnerRemoves ==
    \A p \in Procs : pidFile = p /\ ~abandoned =>
        /\ Running(p)
        /\ exitCh[p] => handler[p] = "remove"
        /\ pc[p] = "draining" => exitCh[p]

(* What the signal goroutine is doing, by the rest of its process.         *)
HandlerFits ==
    \A p \in Procs :
        /\ handler[p] = "remove" => exitCh[p]
        /\ handler[p] = "upgrade" => child[p] # None
        /\ pc[p] \in {"listening", "announce", "serving", "draining", "leaving"} =>
               handler[p] # "none"

IInv ==
    /\ TypeOK
    /\ Exclusive /\ ReachableUnlessRaced /\ UpgradesReplaceNobody
    /\ WrittenLate /\ ChildReplaces /\ OwnerRemoves /\ HandlerFits

(* The types, in three parts.                                              *)
States == {"free", "check", "setup", "listening", "announce", "serving", "draining", "leaving",
           "refused", "dead"}
FileTypes ==
    pidFile \in Procs \cup {None, Dir} /\ cli \in {None} \cup ({"restart", "stop"} \X Procs)
ProcTypes ==
    /\ pc \in [Procs -> States]
    /\ parent \in [Procs -> Procs \cup {None}]
    /\ sig \in [Procs -> {"none", "term", "usr1"}]
    /\ handler \in [Procs -> {"none", "loop", "remove", "upgrade", "done"}]
    /\ child \in [Procs -> Procs \cup {None}]
    /\ exitCh \in [Procs -> BOOLEAN]
HistoryTypes == raced \in BOOLEAN /\ abandoned \in BOOLEAN

LEMMA TypeParts ==
    TypeOK <=> FileTypes /\ ProcTypes /\ HistoryTypes /\ events \in 0..MaxEvents
BY DEF TypeOK, States, FileTypes, ProcTypes, HistoryTypes

LEMMA InitHolds == Init => IInv
<1> SUFFICES ASSUME Init PROVE IInv
    OBVIOUS
<1>1. TypeOK
    <2>1. FileTypes
        BY DEF Init, FileTypes
    <2>2. ProcTypes
        BY DEF Init, ProcTypes, States
    <2>3. HistoryTypes
        BY Zenon DEF Init, HistoryTypes
    <2>4. events \in 0..MaxEvents
        BY ProcessAssumption DEF Init
    <2> QED  BY <2>1, <2>2, <2>3, <2>4, TypeParts
<1>2. Exclusive /\ ReachableUnlessRaced /\ UpgradesReplaceNobody
    BY DEF Init, Exclusive, ReachableUnlessRaced, UpgradesReplaceNobody, Window, Announced, At
<1>3. WrittenLate /\ OwnerRemoves
    BY ProcessAssumption DEF Init, Procs, WrittenLate, OwnerRemoves
<1>4. ChildReplaces /\ HandlerFits
    BY DEF Init, ChildReplaces, HandlerFits
<1> QED  BY <1>1, <1>2, <1>3, <1>4 DEF IInv

-----------------------------------------------------------------------------
(* Every step keeps the types.                                             *)
LEMMA FileTypesKept == ASSUME FileTypes, Next PROVE FileTypes'
<1> USE DEF FileTypes, Ends
<1>1. CASE Launch \/ SendSignal \/ OperatorRemoves
    BY <1>1 DEF Launch, SendSignal, OperatorRemoves
<1>2. ASSUME NEW c \in {"restart", "stop"}, ReadPid(c) PROVE FileTypes'
    BY <1>2 DEF ReadPid
<1>3. ASSUME NEW p \in Procs, CheckStart(p) PROVE FileTypes'
    BY <1>3 DEF CheckStart
<1>4. ASSUME NEW p \in Procs, Main(p) \/ ServeFails(p) \/ Terminate(p) \/ Crash(p) PROVE FileTypes'
    BY <1>4 DEF Main, Listen, SetUpFails, WritePid, Announce, Exit, Die, ServeFails, Terminate, Crash
<1>5. ASSUME NEW p \in Procs, Handler(p) PROVE FileTypes'
    BY <1>5 DEF Handler, TakeTerm, RemovePid, TakeUsr1, UpgradeDone, UpgradeFails, UpgradeTimeout
<1> QED  BY <1>1, <1>2, <1>3, <1>4, <1>5 DEF Next

LEMMA EventsCounted == ASSUME events \in 0..MaxEvents, Next PROVE events' \in 0..MaxEvents
<1>1. events' = events \/ (events < MaxEvents /\ events' = events + 1)
    BY DEF Next, Launch, SendSignal, OperatorRemoves, ReadPid, CheckStart, Main, Listen,
           SetUpFails, WritePid, Announce, Exit, Die, ServeFails, Terminate, Crash, Handler,
           TakeTerm, RemovePid, TakeUsr1, UpgradeDone, UpgradeFails, UpgradeTimeout, history
<1> QED  BY <1>1, ProcessAssumption

LEMMA HistoryTypesKept == ASSUME HistoryTypes, ProcTypes, Next PROVE HistoryTypes'
<1> USE DEF HistoryTypes, history
<1>0. ASSUME NEW p, NEW l, NEW e, Ends(p, l, e) PROVE abandoned' \in BOOLEAN
    BY <1>0 DEF Ends
<1>1. CASE Launch \/ SendSignal
    BY <1>1 DEF Launch, SendSignal
<1>2. CASE OperatorRemoves
    BY <1>2 DEF OperatorRemoves
<1>3. ASSUME NEW c \in {"restart", "stop"}, ReadPid(c) PROVE HistoryTypes'
    BY <1>3 DEF ReadPid
<1>4. ASSUME NEW p \in Procs, CheckStart(p) PROVE HistoryTypes'
    BY <1>4, <1>0 DEF CheckStart
<1>5. ASSUME NEW p \in Procs, Main(p) PROVE HistoryTypes'
    <2>1. CASE SetUpFails(p) \/ Die(p)
        BY <1>0, <2>1 DEF SetUpFails, Die
    <2>2. CASE WritePid(p)
        BY <2>2 DEF WritePid, ProcTypes
    <2>3. CASE Listen(p) \/ Announce(p) \/ Exit(p)
        BY <2>3 DEF Listen, Announce, Exit
    <2> QED  BY <1>5, <2>1, <2>2, <2>3 DEF Main
<1>6. ASSUME NEW p \in Procs, ServeFails(p) PROVE HistoryTypes'
    BY <1>6 DEF ServeFails
<1>7. ASSUME NEW p \in Procs, Terminate(p) \/ Crash(p) PROVE HistoryTypes'
    BY <1>7, <1>0 DEF Terminate, Crash
<1>8. ASSUME NEW p \in Procs, Handler(p) PROVE HistoryTypes'
    BY <1>8 DEF Handler, TakeTerm, RemovePid, TakeUsr1, UpgradeDone, UpgradeFails, UpgradeTimeout
<1> QED  BY <1>1, <1>2, <1>3, <1>4, <1>5, <1>6, <1>7, <1>8 DEF Next

LEMMA ProcTypesKept == ASSUME ProcTypes, Next PROVE ProcTypes'
<1> USE DEF ProcTypes, States, Goto, signals, history
<1>0. ASSUME NEW p \in Procs, NEW l \in States, NEW e, Ends(p, l, e) PROVE ProcTypes'
    BY <1>0 DEF Ends
<1>1. CASE Launch \/ OperatorRemoves
    BY <1>1 DEF Launch, OperatorRemoves
<1>2. CASE SendSignal
    BY <1>2 DEF SendSignal, Delivered
<1>3. ASSUME NEW c \in {"restart", "stop"}, ReadPid(c) PROVE ProcTypes'
    BY <1>3 DEF ReadPid
<1>4. ASSUME NEW p \in Procs, CheckStart(p) PROVE ProcTypes'
    BY <1>4, <1>0 DEF CheckStart
<1>5. ASSUME NEW p \in Procs, SetUpFails(p) \/ Die(p) \/ Crash(p) PROVE ProcTypes'
    BY <1>5, <1>0 DEF SetUpFails, Die, Crash
<1>6. ASSUME NEW p \in Procs, Listen(p) \/ WritePid(p) PROVE ProcTypes'
    BY <1>6 DEF Listen, WritePid
<1>7. ASSUME NEW p \in Procs, Announce(p) \/ Exit(p) \/ ServeFails(p) PROVE ProcTypes'
    BY <1>7 DEF Announce, Exit, ServeFails
<1>8. ASSUME NEW p \in Procs, Terminate(p) PROVE ProcTypes'
    BY <1>8, <1>0 DEF Terminate, Delivered
<1>9. ASSUME NEW p \in Procs, TakeTerm(p) \/ RemovePid(p) PROVE ProcTypes'
    BY <1>9 DEF TakeTerm, RemovePid
<1>10. ASSUME NEW p \in Procs, TakeUsr1(p) PROVE ProcTypes'
    BY <1>10 DEF TakeUsr1
<1>11. ASSUME NEW p \in Procs, UpgradeDone(p) \/ UpgradeFails(p) PROVE ProcTypes'
    BY <1>11 DEF UpgradeDone, UpgradeFails
<1>12. ASSUME NEW p \in Procs, UpgradeTimeout(p) PROVE ProcTypes'
    BY <1>12 DEF UpgradeTimeout
<1> QED  BY <1>1, <1>2, <1>3, <1>4, <1>5, <1>6, <1>7, <1>8, <1>9, <1>10, <1>11, <1>12
         DEF Next, Main, Handler

LEMMA Types == ASSUME TypeOK, Next PROVE TypeOK'
<1>1. FileTypes /\ ProcTypes /\ HistoryTypes /\ events \in 0..MaxEvents
    BY TypeParts
<1>2. FileTypes' /\ ProcTypes' /\ HistoryTypes' /\ events' \in 0..MaxEvents
    BY <1>1, FileTypesKept, ProcTypesKept, HistoryTypesKept, EventsCounted
<1> QED  BY <1>2 DEF TypeOK, States, FileTypes, ProcTypes, HistoryTypes

(* Every step keeps starts exclusive and serving processes reachable.      *)
LEMMA ExclusiveKept == ASSUME IInv, Next PROVE Exclusive' /\ ReachableUnlessRaced'
<1> USE DEF IInv, TypeOK, Exclusive, ReachableUnlessRaced, Window, Announced, At, Goto, signals,
        history
<1> DEFINE Kept == Exclusive' /\ ReachableUnlessRaced'
<1>0. ASSUME NEW p \in Procs, NEW l \in {"refused", "dead"}, NEW e, Ends(p, l, e),
             pidFile' = pidFile, raced' = raced
      PROVE  Kept
    BY <1>0 DEF Ends
<1>1. CASE Launch
    BY <1>1 DEF Launch, Fresh
<1>2. CASE SendSignal
    BY <1>2 DEF SendSignal
<1>3. CASE OperatorRemoves
    BY <1>3 DEF OperatorRemoves, Running
<1>4. ASSUME NEW c \in {"restart", "stop"}, ReadPid(c) PROVE Kept
    BY <1>4 DEF ReadPid
<1>5. ASSUME NEW p \in Procs, CheckStart(p) PROVE Kept
    <2>1. CASE pidFile # None
        BY <1>5, <2>1, <1>0 DEF CheckStart
    <2>2. CASE pidFile = None /\ Window = {}
        <3>1. \A q \in Announced : exitCh[q] \/ raced
            BY <2>2, ProcessAssumption DEF Procs
        <3>2. pc' = [pc EXCEPT ![p] = "setup"] /\ exitCh' = exitCh /\ pidFile' = pidFile
            BY <1>5, <2>2 DEF CheckStart
        <3>3. raced => raced'
            BY <1>5, <2>2 DEF CheckStart
        <3> QED  BY <2>2, <3>1, <3>2, <3>3
    <2>3. CASE pidFile = None /\ Window # {}
        BY <1>5, <2>3 DEF CheckStart
    <2> QED  BY <2>1, <2>2, <2>3
<1>6. ASSUME NEW p \in Procs, Listen(p) PROVE Kept
    BY <1>6 DEF Listen
<1>7. ASSUME NEW p \in Procs, SetUpFails(p) \/ Die(p) \/ Crash(p) PROVE Kept
    BY <1>7, <1>0 DEF SetUpFails, Die, Crash
<1>8. ASSUME NEW p \in Procs, WritePid(p) PROVE Kept
    BY <1>8 DEF WritePid
<1>9. ASSUME NEW p \in Procs, Announce(p) PROVE Kept
    BY <1>9 DEF Announce
<1>10. ASSUME NEW p \in Procs, Exit(p) \/ ServeFails(p) PROVE Kept
    BY <1>10 DEF Exit, ServeFails
<1>11. ASSUME NEW p \in Procs, Terminate(p) PROVE Kept
    BY <1>11, <1>0 DEF Terminate
<1>12. ASSUME NEW p \in Procs, TakeTerm(p) PROVE Kept
    BY <1>12 DEF TakeTerm
<1>13. ASSUME NEW p \in Procs, RemovePid(p) PROVE Kept
    BY <1>13 DEF RemovePid, HandlerFits, Running, Procs
<1>14. ASSUME NEW p \in Procs, TakeUsr1(p) PROVE Kept
    BY <1>14 DEF TakeUsr1, Fresh
<1>15. ASSUME NEW p \in Procs, UpgradeDone(p) \/ UpgradeFails(p) PROVE Kept
    BY <1>15 DEF UpgradeDone, UpgradeFails
<1>16. ASSUME NEW p \in Procs, UpgradeTimeout(p) PROVE Kept
    BY <1>16 DEF UpgradeTimeout, Upgrading
<1> QED  BY <1>1, <1>2, <1>3, <1>4, <1>5, <1>6, <1>7, <1>8, <1>9, <1>10, <1>11, <1>12,
            <1>13, <1>14, <1>15, <1>16
         DEF Next, Main, Handler

(* Every step keeps the upgrade of a serving process before its check.     *)
LEMMA UpgradesKept == ASSUME IInv, Next PROVE UpgradesReplaceNobody'
<1> USE DEF IInv, TypeOK, UpgradesReplaceNobody, ChildReplaces, Announced, At, Goto, signals,
        history
<1>0. ASSUME NEW p \in Procs, NEW l \in {"refused", "dead"}, NEW e, Ends(p, l, e),
             raced' = raced
      PROVE  UpgradesReplaceNobody'
    BY <1>0 DEF Ends
<1>1. CASE Launch
    BY <1>1 DEF Launch, Fresh
<1>2. CASE SendSignal \/ OperatorRemoves
    BY <1>2 DEF SendSignal, OperatorRemoves
<1>3. ASSUME NEW c \in {"restart", "stop"}, ReadPid(c) PROVE UpgradesReplaceNobody'
    BY <1>3 DEF ReadPid
<1>4. ASSUME NEW c \in Procs, CheckStart(c) PROVE UpgradesReplaceNobody'
    <2>1. CASE pidFile # None
        BY <1>4, <2>1, <1>0 DEF CheckStart
    <2>2. CASE pidFile = None
        <3>1. \A p \in Procs : child[p] # None /\ p \in Announced => raced
            BY <2>2, ProcessAssumption DEF ReachableUnlessRaced, Announced, At, Procs
        <3>2. pc' = [pc EXCEPT ![c] = "setup"] /\ child' = child /\ (raced => raced')
            BY <1>4, <2>2 DEF CheckStart
        <3> QED  BY <3>1, <3>2
    <2> QED  BY <2>1, <2>2
<1>5. ASSUME NEW p \in Procs, SetUpFails(p) \/ Die(p) \/ Crash(p) PROVE UpgradesReplaceNobody'
    BY <1>5, <1>0 DEF SetUpFails, Die, Crash
<1>6. ASSUME NEW p \in Procs, Listen(p) \/ WritePid(p) PROVE UpgradesReplaceNobody'
    BY <1>6 DEF Listen, WritePid
<1>7. ASSUME NEW p \in Procs, Announce(p) \/ Exit(p) \/ ServeFails(p)
      PROVE  UpgradesReplaceNobody'
    BY <1>7 DEF Announce, Exit, ServeFails
<1>8. ASSUME NEW p \in Procs, Terminate(p) PROVE UpgradesReplaceNobody'
    BY <1>8, <1>0 DEF Terminate
<1>9. ASSUME NEW p \in Procs, TakeTerm(p) \/ RemovePid(p) PROVE UpgradesReplaceNobody'
    BY <1>9 DEF TakeTerm, RemovePid
<1>10. ASSUME NEW p \in Procs, TakeUsr1(p) PROVE UpgradesReplaceNobody'
    BY <1>10 DEF TakeUsr1, Fresh
<1>11. ASSUME NEW p \in Procs, UpgradeDone(p) \/ UpgradeFails(p) PROVE UpgradesReplaceNobody'
    BY <1>11 DEF UpgradeDone, UpgradeFails
<1>12. ASSUME NEW p \in Procs, UpgradeTimeout(p) PROVE UpgradesReplaceNobody'
    BY <1>12 DEF UpgradeTimeout
<1> QED  BY <1>1, <1>2, <1>3, <1>4, <1>5, <1>6, <1>7, <1>8, <1>9, <1>10, <1>11, <1>12
         DEF Next, Main, Handler

(* Every step keeps track of who has written the file and will remove it.  *)
LEMMA OwnerKept ==
    ASSUME IInv, Next
    PROVE  WrittenLate' /\ ChildReplaces' /\ OwnerRemoves' /\ HandlerFits'
<1> USE DEF IInv, TypeOK, WrittenLate, ChildReplaces, OwnerRemoves, HandlerFits, Running, Goto,
        signals, history
<1> DEFINE Kept == WrittenLate' /\ ChildReplaces' /\ OwnerRemoves' /\ HandlerFits'
<1>0. ASSUME NEW p \in Procs, NEW l \in {"refused", "dead"}, NEW e, Ends(p, l, e),
             pidFile' = pidFile, pidFile = p => e \/ abandoned, l = "refused" => pc[p] = "check"
      PROVE  Kept
    <2>1. WrittenLate'
        BY <1>0 DEF Ends
    <2>2. ChildReplaces'
        BY <1>0 DEF Ends
    <2>3. OwnerRemoves'
        BY <1>0 DEF Ends
    <2>4. HandlerFits'
        BY <1>0 DEF Ends
    <2> QED  BY <2>1, <2>2, <2>3, <2>4
<1>1. CASE Launch
    BY <1>1 DEF Launch, Fresh
<1>2. CASE SendSignal
    BY <1>2 DEF SendSignal
<1>3. CASE OperatorRemoves
    BY <1>3, ProcessAssumption DEF OperatorRemoves, Procs
<1>4. ASSUME NEW c \in {"restart", "stop"}, ReadPid(c) PROVE Kept
    BY <1>4 DEF ReadPid
<1>5. ASSUME NEW p \in Procs, CheckStart(p) PROVE Kept
    <2>1. CASE pidFile # None
        BY <1>5, <2>1, <1>0 DEF CheckStart
    <2>2. CASE pidFile = None
        BY <1>5, <2>2, ProcessAssumption DEF CheckStart, Procs
    <2> QED  BY <2>1, <2>2
<1>6. ASSUME NEW p \in Procs, Listen(p) PROVE Kept
    BY <1>6 DEF Listen
<1>7. ASSUME NEW p \in Procs, SetUpFails(p) \/ Die(p) \/ Crash(p) PROVE Kept
    BY <1>7, <1>0 DEF SetUpFails, Die, Crash
<1>8. ASSUME NEW p \in Procs, WritePid(p) PROVE Kept
    BY <1>8 DEF WritePid
<1>9. ASSUME NEW p \in Procs, Announce(p) PROVE Kept
    <2>1. CASE Orphaned(p)
        <3>1. WrittenLate' /\ ChildReplaces' /\ HandlerFits'
            BY <1>9, <2>1 DEF Announce
        <3>2. OwnerRemoves'
            BY <1>9, <2>1 DEF Announce
        <3> QED  BY <3>1, <3>2
    <2>2. CASE ~Orphaned(p)
        BY <1>9, <2>2 DEF Announce
    <2> QED  BY <2>1, <2>2
<1>10. ASSUME NEW p \in Procs, Exit(p) PROVE Kept
    BY <1>10 DEF Exit
<1>11. ASSUME NEW p \in Procs, ServeFails(p) PROVE Kept
    <2>1. WrittenLate' /\ ChildReplaces' /\ HandlerFits'
        BY <1>11 DEF ServeFails
    <2>2. OwnerRemoves'
        BY <1>11 DEF ServeFails
    <2> QED  BY <2>1, <2>2
<1>12. ASSUME NEW p \in Procs, Terminate(p) PROVE Kept
    <2>1. CASE handler[p] = "none"
        BY <1>12, <1>0, <2>1 DEF Terminate, At
    <2>2. CASE handler[p] # "none"
        BY <1>12, <2>2 DEF Terminate
    <2> QED  BY <2>1, <2>2
<1>13. ASSUME NEW p \in Procs, TakeTerm(p) PROVE Kept
    BY <1>13 DEF TakeTerm
<1>14. ASSUME NEW p \in Procs, RemovePid(p) PROVE Kept
    BY <1>14, ProcessAssumption DEF RemovePid, Procs
<1>15. ASSUME NEW p \in Procs, TakeUsr1(p) PROVE Kept
    <2>1. WrittenLate' /\ OwnerRemoves'
        BY <1>15 DEF TakeUsr1, Fresh
    <2>2. CASE UNCHANGED <<pc, parent, handler, child>>
        BY <1>15, <2>2 DEF TakeUsr1
    <2>3. ASSUME NEW c \in Procs, Fresh(c), pc[p] \in {"announce", "serving", "draining"},
                 ~exitCh[p], Goto(c, "check"), handler' = [handler EXCEPT ![p] = "upgrade"],
                 child' = [child EXCEPT ![p] = c]
          PROVE  ChildReplaces' /\ HandlerFits'
        <3>1. pidFile' = pidFile /\ exitCh' = exitCh
            BY <1>15 DEF TakeUsr1
        <3>2. c # p /\ c # None
            BY <2>3, ProcessAssumption DEF Fresh, Procs
        <3>3. ChildReplaces'
            BY <2>3, <3>1, <3>2 DEF Fresh
        <3>4. HandlerFits'
            BY <2>3, <3>1, <3>2 DEF Fresh
        <3> QED  BY <3>3, <3>4
    <2> QED  BY <1>15, <2>1, <2>2, <2>3 DEF TakeUsr1
<1>16. ASSUME NEW p \in Procs, UpgradeDone(p) \/ UpgradeFails(p) PROVE Kept
    BY <1>16 DEF UpgradeDone, UpgradeFails, Upgrading
<1>17. ASSUME NEW p \in Procs, UpgradeTimeout(p) PROVE Kept
    <2>1. PICK c \in Procs : c = child[p] /\ c # p
        BY <1>17, ProcessAssumption DEF UpgradeTimeout, Upgrading, Procs
    <2>2. WrittenLate'
        BY <1>17, <2>1 DEF UpgradeTimeout
    <2>3. ChildReplaces'
        BY <1>17, <2>1 DEF UpgradeTimeout
    <2>4. OwnerRemoves'
        <3> SUFFICES ASSUME NEW q \in Procs, pidFile' = q, ~abandoned'
                     PROVE  Running(q)' /\ (exitCh'[q] => handler'[q] = "remove")
                            /\ (pc'[q] = "draining" => exitCh'[q])
            OBVIOUS
        <3>1. pidFile = q /\ ~abandoned /\ q # c
            BY <1>17, <2>1 DEF UpgradeTimeout
        <3>2. pc'[q] = pc[q] /\ exitCh'[q] = exitCh[q]
              /\ handler'[q] = IF q = p THEN "loop" ELSE handler[q]
            BY <1>17, <2>1, <3>1 DEF UpgradeTimeout
        <3>3. q = p => handler[q] = "upgrade"
            BY <1>17 DEF UpgradeTimeout, Upgrading
        <3> QED  BY <3>1, <3>2, <3>3
    <2>5. HandlerFits'
        BY <1>17, <2>1 DEF UpgradeTimeout
    <2> QED  BY <2>2, <2>3, <2>4, <2>5
<1> QED  BY <1>1, <1>2, <1>3, <1>4, <1>5, <1>6, <1>7, <1>8, <1>9, <1>10, <1>11, <1>12,
            <1>13, <1>14, <1>15, <1>16, <1>17
         DEF Next, Main, Handler

(* IInv is an invariant.                                                   *)
LEMMA Invariance == Spec => []IInv
<1>1. IInv /\ [Next]_vars => IInv'
    <2>1. ASSUME IInv, UNCHANGED vars PROVE IInv'
        BY <2>1 DEF vars, signals, history, IInv, TypeOK, Exclusive, ReachableUnlessRaced, Window,
            Announced, At, UpgradesReplaceNobody, WrittenLate, ChildReplaces, OwnerRemoves,
            HandlerFits, Running
    <2> QED  BY <2>1, Types, ExclusiveKept, UpgradesKept, OwnerKept DEF IInv
<1> QED  BY <1>1, InitHolds, PTL DEF Spec

-----------------------------------------------------------------------------
(* Results *)

(* Files, processes, signals and handlers stay in their ranges.            *)
THEOREM TypeCorrect == Spec => []TypeOK
<1>1. IInv => TypeOK
    BY DEF IInv
<1> QED  BY <1>1, Invariance, PTL

(* The pid file keeps a second application out, as long as starts do not   *)
(* overlap and nobody removes the file of a running process.               *)
THEOREM OneApplication == Spec => []OneUnlessRaced
<1>1. IInv => OneUnlessRaced
    BY DEF IInv, Exclusive, ReachableUnlessRaced, OneUnlessRaced, Accepted, Window, Announced, At
<1> QED  BY <1>1, Invariance, PTL

(* The file names the process that serves.                                 *)
THEOREM ServingReachable == Spec => []ReachableUnlessRaced
<1>1. IInv => ReachableUnlessRaced
    BY DEF IInv
<1> QED  BY <1>1, Invariance, PTL

(* An upgrade is refused by the file of the process it is to replace.      *)
THEOREM RestartReplacesNobody == Spec => []UpgradesReplaceNobody
<1>1. IInv => UpgradesReplaceNobody
    BY DEF IInv
<1> QED  BY <1>1, Invariance, PTL

(* A stale file is left only by a process that did not get to remove it.   *)
THEOREM StaleExplained == Spec => []StaleOnlyAfterCut
<1>1. IInv => StaleOnlyAfterCut
    BY DEF IInv, OwnerRemoves, StaleOnlyAfterCut
<1> QED  BY <1>1, Invariance, PTL
==============================================================================
