--------------------------- MODULE VmLifecycleProofs ---------------------------
(***************************************************************************)
(* Proofs about the lab's virtual machine: an idle stop spares whoever the *)
(* publisher has met, for any number of connections and commands and any   *)
(* periods that keep the order of the code's.                              *)
(***************************************************************************)
EXTENDS VmLifecycle, FiniteSetTheorems, TLAPS

USE DEF host, waking, markers, guard, publish, held, history

\* The periods are positive numbers.
LEMMA Periods ==
  /\ AliveMax \in Nat /\ FaultAfter \in Nat /\ Idle \in Nat /\ Hold \in Nat
  /\ CmdHold \in Nat /\ RefreshEvery \in Nat /\ AliveMax >= 1 /\ RefreshEvery >= 1
  /\ Bound \in Nat /\ Bound >= 1 /\ AliveMax + 1 < Idle /\ Idle <= Bound
  BY VmOK DEF Bound


\* What the publisher's markers say of a guest in which it has met somebody: a run
\* in every period renews `busy`, and a publisher that has died has left the two
\* markers at most a period apart.
Marked == IF pub = "dead" THEN busy <= alive + 1
                          ELSE busy <= 1 /\ (ran => busy = 0)

\* Only a guest that is up has connections; the domain stays paused while it is
\* saved; and the last word of a guest that was found idle is still young.
HostInv ==
  /\ Connected # {} => Up
  /\ stop = "saving" => dom = "paused"
  /\ stop \in {"checked", "locked"} => alive <= AliveMax

\* The publisher that has met somebody will touch `busy`, or has done so.
MetInv ==
  /\ vouched \cap Clients \subseteq Connected
  /\ met \cap Clients \subseteq Connected
  /\ pub = "looked" => vouched \cap Clients \subseteq met
  /\ pub = "looked" /\ (vouched \cup met) \cap Clients # {} => mark
  /\ vouched \cap Clients # {} => Marked

SparedInv == HostInv /\ MetInv /\ ConnectionsAreSpared

\* What a step leaves alone keeps its type.
LEMMA Frames ==
  /\ HostOK /\ UNCHANGED host => HostOK'
  /\ WakingOK /\ UNCHANGED <<lock, waking>> => WakingOK'
  /\ GuardOK /\ UNCHANGED guard => GuardOK'
  /\ MarkersOK /\ UNCHANGED markers => MarkersOK'
  /\ PublishOK /\ UNCHANGED publish => PublishOK'
  /\ HeldOK /\ UNCHANGED held => HeldOK'
  /\ HistoryOK /\ UNCHANGED <<vouched, missed, hit>> /\ (upFor' = upFor \/ upFor' = 0)
       => HistoryOK'
<1>1. HostOK /\ UNCHANGED host => HostOK'
  BY DEF HostOK, DomStates
<1>2. WakingOK /\ UNCHANGED <<lock, waking>> => WakingOK'
  BY DEF WakingOK, WakePCs
<1>3. GuardOK /\ UNCHANGED guard => GuardOK'
  BY DEF GuardOK, Ages, Absent, Bound
<1>4. MarkersOK /\ UNCHANGED markers => MarkersOK'
  BY DEF MarkersOK, Ages, Absent, Bound
<1>5. PublishOK /\ UNCHANGED publish => PublishOK'
  BY DEF PublishOK, Parties
<1>6. HeldOK /\ UNCHANGED held => HeldOK'
  BY DEF HeldOK
<1>7. ASSUME HistoryOK, UNCHANGED <<vouched, missed, hit>>, upFor' = upFor \/ upFor' = 0
      PROVE HistoryOK'
  BY <1>7, Periods DEF HistoryOK, Parties, Hits, Bound
<1>. QED
  BY <1>1, <1>2, <1>3, <1>4, <1>5, <1>6, <1>7

LEMMA InsideTyped == Inside \subseteq Parties
  BY DEF Inside, Connected, Parties

\* Every variable of the lab has its type.
THEOREM LabTyped == Spec => []TypeOK
<1>1. Init => TypeOK
  <2> SUFFICES ASSUME Init PROVE TypeOK
    OBVIOUS
  <2>1. HostOK
    BY DEF Init, HostOK, DomStates
  <2>2. WakingOK
    BY DEF Init, WakingOK, WakePCs
  <2>3. PublishOK
    BY DEF Init, PublishOK
  <2>4. GuardOK
    <3>1. stop = "idle" /\ unit = "ok" /\ unpublished = Absent
      BY DEF Init
    <3>. QED
      BY <3>1, Periods DEF GuardOK, Ages, Absent
  <2>5. MarkersOK
    <3>1. keep = 0 /\ alive \in {Absent, Bound} /\ busy \in {Absent, Bound}
      BY DEF Init
    <3>. QED
      BY <3>1, Periods DEF MarkersOK, Ages, Absent
  <2>6. HeldOK
    <3>1. /\ command = [k \in Commands |-> "new"]
          /\ refreshed = [k \in Commands |-> 0]
      BY DEF Init
    <3>. QED
      BY <3>1, Periods DEF HeldOK
  <2>7. HistoryOK
    <3>1. /\ vouched = {} /\ missed = {} /\ upFor = 0
          /\ hit = [seen |-> {}, new |-> {}]
      BY DEF Init
    <3>. QED
      BY <3>1, Periods DEF HistoryOK, Hits
  <2>. QED
    BY <2>1, <2>2, <2>3, <2>4, <2>5, <2>6, <2>7 DEF TypeOK
<1>2. TypeOK /\ [Next]_vars => TypeOK'
  <2> SUFFICES ASSUME TypeOK, [Next]_vars PROVE TypeOK'
    OBVIOUS
  <2> USE Periods DEF TypeOK, Parties, Ages, Absent, Bound, WakePCs, DomStates
  <2>1. ASSUME NEW c \in Clients, Look(c) PROVE TypeOK'
    <3>1. WakingOK'
      BY <2>1 DEF WakingOK, Look, Elsewhere, Aside, Go, Hear
    <3>2. HostOK' /\ GuardOK' /\ MarkersOK' /\ PublishOK' /\ HeldOK' /\ HistoryOK'
      BY <2>1, Frames DEF Look, Elsewhere, Aside, Go, Hear
    <3>. QED
      BY <3>1, <3>2
  <2>2. ASSUME NEW c \in Clients, TakeLock(c) PROVE TypeOK'
    <3>1. WakingOK'
      BY <2>2 DEF WakingOK, TakeLock, Elsewhere, Aside, Go
    <3>2. HostOK' /\ GuardOK' /\ MarkersOK' /\ PublishOK' /\ HeldOK' /\ HistoryOK'
      BY <2>2, Frames DEF TakeLock, Elsewhere, Aside, Go
    <3>. QED
      BY <3>1, <3>2
  <2>3. ASSUME NEW c \in Clients, LookAgain(c) PROVE TypeOK'
    <3>1. WakingOK'
      BY <2>3 DEF WakingOK, LookAgain, Elsewhere, Aside, Go, Hear, Release
    <3>2. HostOK' /\ GuardOK' /\ MarkersOK' /\ PublishOK' /\ HeldOK' /\ HistoryOK'
      BY <2>3, Frames DEF LookAgain, Elsewhere, Aside, Go, Hear, Release
    <3>. QED
      BY <3>1, <3>2
  <2>4. ASSUME NEW c \in Clients, Refuse(c) PROVE TypeOK'
    <3>1. WakingOK'
      BY <2>4 DEF WakingOK, Refuse, Die, Elsewhere, Aside, Go, Forget
    <3>2. HostOK' /\ GuardOK' /\ MarkersOK' /\ PublishOK' /\ HeldOK' /\ HistoryOK'
      BY <2>4, Frames DEF Refuse, Die, Elsewhere, Aside, Go, Forget
    <3>. QED
      BY <3>1, <3>2
  <2>5. ASSUME NEW c \in Clients, Start(c) PROVE TypeOK'
    <3>1. HostOK'
      BY <2>5 DEF HostOK, Start, ByState, StartDomain, Boot, Continue, Aside, Go
    <3>2. WakingOK'
      BY <2>5 DEF WakingOK, Start, ByState, StartDomain, Boot, Continue, Aside, Go
    <3>3. PublishOK'
      BY <2>5 DEF PublishOK, Start, ByState, StartDomain, Boot, Continue, Aside, Go
    <3>4. HeldOK'
      BY <2>5 DEF HeldOK, Start, ByState, StartDomain, Boot, Continue, Aside, Go
    <3>5. GuardOK' /\ MarkersOK' /\ HistoryOK'
      BY <2>5, Frames DEF Start, ByState, StartDomain, Boot, Continue, Aside, Go
    <3>. QED
      BY <3>1, <3>2, <3>3, <3>4, <3>5
  <2>6. ASSUME NEW c \in Clients, AfterShutdown(c) PROVE TypeOK'
    <3>1. HostOK'
      BY <2>6 DEF HostOK, AfterShutdown, StartDomain, Boot, Continue, Die,
           Elsewhere, Aside, Go, Forget
    <3>2. WakingOK'
      BY <2>6 DEF WakingOK, AfterShutdown, StartDomain, Boot, Continue, Die,
           Elsewhere, Aside, Go, Forget
    <3>3. PublishOK'
      BY <2>6 DEF PublishOK, AfterShutdown, StartDomain, Boot, Continue, Die,
           Elsewhere, Aside, Go, Forget
    <3>4. HeldOK'
      BY <2>6 DEF HeldOK, AfterShutdown, StartDomain, Boot, Continue, Die,
           Elsewhere, Aside, Go, Forget
    <3>5. GuardOK' /\ MarkersOK' /\ HistoryOK'
      BY <2>6, Frames DEF AfterShutdown, StartDomain, Boot, Continue, Die,
           Elsewhere, Aside, Go, Forget
    <3>. QED
      BY <3>1, <3>2, <3>3, <3>4, <3>5
  <2>7. ASSUME NEW c \in Clients, Keepalive(c) PROVE TypeOK'
    <3>1. WakingOK'
      BY <2>7 DEF WakingOK, Keepalive, Aside, Go
    <3>2. MarkersOK'
      BY <2>7 DEF MarkersOK, Keepalive, Aside, Go
    <3>3. HostOK' /\ GuardOK' /\ PublishOK' /\ HeldOK' /\ HistoryOK'
      BY <2>7, Frames DEF Keepalive, Aside, Go
    <3>. QED
      BY <3>1, <3>2, <3>3
  <2>8. ASSUME NEW c \in Clients, WaitForSsh(c) PROVE TypeOK'
    <3>1. WakingOK'
      BY <2>8 DEF WakingOK, WaitForSsh, Die, Elsewhere, Aside, Go, Hear, Forget,
           Release
    <3>2. HostOK' /\ GuardOK' /\ MarkersOK' /\ PublishOK' /\ HeldOK' /\ HistoryOK'
      BY <2>8, Frames DEF WaitForSsh, Die, Elsewhere, Aside, Go, Hear, Forget,
           Release
    <3>. QED
      BY <3>1, <3>2
  <2>9. ASSUME NEW c \in Clients, Nc(c) PROVE TypeOK'
    <3>1. WakingOK'
      BY <2>9 DEF WakingOK, Nc, Elsewhere, Aside, Go, Forget
    <3>2. HostOK' /\ GuardOK' /\ MarkersOK' /\ PublishOK' /\ HeldOK' /\ HistoryOK'
      BY <2>9, Frames DEF Nc, Elsewhere, Aside, Go, Forget
    <3>. QED
      BY <3>1, <3>2
  <2>10. ASSUME NEW c \in Clients, Disconnect(c) PROVE TypeOK'
    <3>1. WakingOK'
      BY <2>10 DEF WakingOK, Disconnect, Go, Forget
    <3>2. PublishOK'
      BY <2>10 DEF PublishOK, Disconnect, Go, Forget
    <3>3. HistoryOK'
      BY <2>10 DEF HistoryOK, Disconnect, Go, Forget
    <3>4. HostOK' /\ GuardOK' /\ MarkersOK' /\ HeldOK'
      BY <2>10, Frames DEF Disconnect, Go, Forget
    <3>. QED
      BY <3>1, <3>2, <3>3, <3>4
  <2>11. ASSUME NEW c \in Clients, Kill(c) PROVE TypeOK'
    <3>1. WakingOK'
      BY <2>11 DEF WakingOK, Kill, Die, Elsewhere, Aside, Go, Forget
    <3>2. HostOK' /\ GuardOK' /\ MarkersOK' /\ PublishOK' /\ HeldOK' /\ HistoryOK'
      BY <2>11, Frames DEF Kill, Die, Elsewhere, Aside, Go, Forget
    <3>. QED
      BY <3>1, <3>2
  <2>12. ASSUME NEW k \in Commands, CommandStarts(k) PROVE TypeOK'
    <3>1. MarkersOK'
      BY <2>12 DEF MarkersOK, CommandStarts
    <3>2. HeldOK'
      BY <2>12 DEF HeldOK, CommandStarts
    <3>3. HostOK' /\ WakingOK' /\ GuardOK' /\ PublishOK' /\ HistoryOK'
      BY <2>12, Frames DEF CommandStarts
    <3>. QED
      BY <3>1, <3>2, <3>3
  <2>13. ASSUME NEW k \in Commands, Refresh(k) PROVE TypeOK'
    <3>1. MarkersOK'
      BY <2>13 DEF MarkersOK, Refresh
    <3>2. HeldOK'
      BY <2>13 DEF HeldOK, Refresh
    <3>3. HostOK' /\ WakingOK' /\ GuardOK' /\ PublishOK' /\ HistoryOK'
      BY <2>13, Frames DEF Refresh
    <3>. QED
      BY <3>1, <3>2, <3>3
  <2>14. ASSUME NEW k \in Commands, CommandEnds(k) PROVE TypeOK'
    <3>1. MarkersOK'
      BY <2>14 DEF MarkersOK, CommandEnds
    <3>2. PublishOK'
      BY <2>14 DEF PublishOK, CommandEnds
    <3>3. HeldOK'
      BY <2>14 DEF HeldOK, CommandEnds
    <3>4. HistoryOK'
      BY <2>14 DEF HistoryOK, CommandEnds
    <3>5. HostOK' /\ WakingOK' /\ GuardOK'
      BY <2>14, Frames DEF CommandEnds
    <3>. QED
      BY <3>1, <3>2, <3>3, <3>4, <3>5
  <2>15. ASSUME CheckDown PROVE TypeOK'
    <3>1. GuardOK'
      BY <2>15 DEF GuardOK, CheckDown, Ends, Unmoved
    <3>2. HostOK' /\ WakingOK' /\ MarkersOK' /\ PublishOK' /\ HeldOK' /\ HistoryOK'
      BY <2>15, Frames DEF CheckDown, Ends, Unmoved
    <3>. QED
      BY <3>1, <3>2
  <2>16. ASSUME CheckSilent PROVE TypeOK'
    <3>1. GuardOK'
      BY <2>16 DEF GuardOK, CheckSilent, Ends, Unmoved
    <3>2. HostOK' /\ WakingOK' /\ MarkersOK' /\ PublishOK' /\ HeldOK' /\ HistoryOK'
      BY <2>16, Frames DEF CheckSilent, Ends, Unmoved
    <3>. QED
      BY <3>1, <3>2
  <2>17. ASSUME CheckStale PROVE TypeOK'
    <3>1. GuardOK'
      BY <2>17 DEF GuardOK, CheckStale, Ends, Unmoved
    <3>2. HostOK' /\ WakingOK' /\ MarkersOK' /\ PublishOK' /\ HeldOK' /\ HistoryOK'
      BY <2>17, Frames DEF CheckStale, Ends, Unmoved
    <3>. QED
      BY <3>1, <3>2
  <2>18. ASSUME CheckIdle PROVE TypeOK'
    <3>1. GuardOK'
      BY <2>18 DEF GuardOK, CheckIdle, Ends, Unmoved
    <3>2. HostOK' /\ WakingOK' /\ MarkersOK' /\ PublishOK' /\ HeldOK' /\ HistoryOK'
      BY <2>18, Frames DEF CheckIdle, Ends, Unmoved
    <3>. QED
      BY <3>1, <3>2
  <2>19. ASSUME AskLock PROVE TypeOK'
    <3>1. WakingOK'
      BY <2>19 DEF WakingOK, AskLock, Ends, Unmoved
    <3>2. GuardOK'
      BY <2>19 DEF GuardOK, AskLock, Ends, Unmoved
    <3>3. HostOK' /\ MarkersOK' /\ PublishOK' /\ HeldOK' /\ HistoryOK'
      BY <2>19, Frames DEF AskLock, Ends, Unmoved
    <3>. QED
      BY <3>1, <3>2, <3>3
  <2>20. ASSUME BackOff PROVE TypeOK'
    <3>1. WakingOK'
      BY <2>20 DEF WakingOK, BackOff, Ends, Unmoved, Release
    <3>2. GuardOK'
      BY <2>20 DEF GuardOK, BackOff, Ends, Unmoved, Release
    <3>3. HostOK' /\ MarkersOK' /\ PublishOK' /\ HeldOK' /\ HistoryOK'
      BY <2>20, Frames DEF BackOff, Ends, Unmoved, Release
    <3>. QED
      BY <3>1, <3>2, <3>3
  <2>21. ASSUME Save PROVE TypeOK'
    <3>1. HostOK'
      BY <2>21 DEF HostOK, Save, Strike, Cut, StillIdle, Inside
    <3>2. WakingOK'
      BY <2>21 DEF WakingOK, Save, Strike, Cut, StillIdle, Inside
    <3>3. GuardOK'
      BY <2>21 DEF GuardOK, Save, Strike, Cut, StillIdle, Inside
    <3>4. PublishOK'
      BY <2>21 DEF PublishOK, Save, Strike, Cut, StillIdle, Inside
    <3>5. /\ vouched' = {} /\ missed' = {} /\ upFor' = upFor
         /\ hit' = [seen |-> Inside \cap vouched, new |-> Inside \ (vouched \cup
              missed)]
      BY <2>21 DEF Save, Strike, Cut, StillIdle, Inside, history
    <3>6. HistoryOK'
      BY <3>5, InsideTyped DEF HistoryOK, Hits, Bound
    <3>7. MarkersOK' /\ HeldOK'
      BY <2>21, Frames DEF Save, Strike, Cut, StillIdle, Inside
    <3>. QED
      BY <3>1, <3>2, <3>3, <3>4, <3>5, <3>6, <3>7
  <2>22. ASSUME Saved PROVE TypeOK'
    <3>1. HostOK'
      BY <2>22 DEF HostOK, Saved, Ends, Release
    <3>2. WakingOK'
      BY <2>22 DEF WakingOK, Saved, Ends, Release
    <3>3. GuardOK'
      BY <2>22 DEF GuardOK, Saved, Ends, Release
    <3>4. MarkersOK' /\ PublishOK' /\ HeldOK' /\ HistoryOK'
      BY <2>22, Frames DEF Saved, Ends, Release
    <3>. QED
      BY <3>1, <3>2, <3>3, <3>4
  <2>23. ASSUME SaveFails PROVE TypeOK'
    <3>1. HostOK'
      BY <2>23 DEF HostOK, SaveFails, Ends, Release, Halts
    <3>2. WakingOK'
      BY <2>23 DEF WakingOK, SaveFails, Ends, Release, Halts
    <3>3. GuardOK'
      BY <2>23 DEF GuardOK, SaveFails, Ends, Release, Halts
    <3>4. MarkersOK' /\ PublishOK' /\ HeldOK' /\ HistoryOK'
      BY <2>23, Frames DEF SaveFails, Ends, Release, Halts
    <3>. QED
      BY <3>1, <3>2, <3>3, <3>4
  <2>24. ASSUME ShutDown PROVE TypeOK'
    <3>1. HostOK'
      BY <2>24 DEF HostOK, ShutDown, Ends, Release, Halts, Strike, Cut, StillIdle,
           Inside
    <3>2. WakingOK'
      BY <2>24 DEF WakingOK, ShutDown, Ends, Release, Halts, Strike, Cut, StillIdle,
           Inside
    <3>3. GuardOK'
      BY <2>24 DEF GuardOK, ShutDown, Ends, Release, Halts, Strike, Cut, StillIdle,
           Inside
    <3>4. PublishOK'
      BY <2>24 DEF PublishOK, ShutDown, Ends, Release, Halts, Strike, Cut,
           StillIdle, Inside
    <3>5. /\ vouched' = {} /\ missed' = {} /\ upFor' = upFor
         /\ hit' = [seen |-> Inside \cap vouched, new |-> Inside \ (vouched \cup
              missed)]
      BY <2>24 DEF ShutDown, Ends, Release, Halts, Strike, Cut, StillIdle, Inside,
           history
    <3>6. HistoryOK'
      BY <3>5, InsideTyped DEF HistoryOK, Hits, Bound
    <3>7. MarkersOK' /\ HeldOK'
      BY <2>24, Frames DEF ShutDown, Ends, Release, Halts, Strike, Cut, StillIdle,
           Inside
    <3>. QED
      BY <3>1, <3>2, <3>3, <3>4, <3>5, <3>6, <3>7
  <2>25. ASSUME PublishLook PROVE TypeOK'
    <3>1. MarkersOK'
      BY <2>25 DEF MarkersOK, PublishLook, Inside
    <3>2. PublishOK'
      BY <2>25, InsideTyped DEF PublishOK, PublishLook, Connected, Parties
    <3>3. HostOK' /\ WakingOK' /\ GuardOK' /\ HeldOK' /\ HistoryOK'
      BY <2>25, Frames DEF PublishLook, Inside
    <3>. QED
      BY <3>1, <3>2, <3>3
  <2>26. ASSUME PublishMark PROVE TypeOK'
    <3>1. MarkersOK'
      BY <2>26 DEF MarkersOK, PublishMark
    <3>2. PublishOK'
      BY <2>26 DEF PublishOK, PublishMark
    <3>3. HistoryOK'
      BY <2>26 DEF HistoryOK, PublishMark, PublishOK
    <3>4. HostOK' /\ WakingOK' /\ GuardOK' /\ HeldOK'
      BY <2>26, Frames DEF PublishMark
    <3>. QED
      BY <3>1, <3>2, <3>3, <3>4
  <2>27. ASSUME PublishBreaks PROVE TypeOK'
    <3>1. PublishOK'
      BY <2>27 DEF PublishOK, PublishBreaks
    <3>2. HistoryOK'
      BY <2>27 DEF HistoryOK, PublishBreaks, PublishOK
    <3>3. HostOK' /\ WakingOK' /\ GuardOK' /\ MarkersOK' /\ HeldOK'
      BY <2>27, Frames DEF PublishBreaks
    <3>. QED
      BY <3>1, <3>2, <3>3
  <2>28. ASSUME PublishDies PROVE TypeOK'
    <3>1. PublishOK'
      BY <2>28 DEF PublishOK, PublishDies
    <3>2. HostOK' /\ WakingOK' /\ GuardOK' /\ MarkersOK' /\ HeldOK' /\ HistoryOK'
      BY <2>28, Frames DEF PublishDies
    <3>. QED
      BY <3>1, <3>2
  <2>29. ASSUME BootDone PROVE TypeOK'
    <3>1. HostOK'
      BY <2>29 DEF HostOK, BootDone
    <3>2. WakingOK' /\ GuardOK' /\ MarkersOK' /\ PublishOK' /\ HeldOK' /\ HistoryOK'
      BY <2>29, Frames DEF BootDone
    <3>. QED
      BY <3>1, <3>2
  <2>30. ASSUME Crash PROVE TypeOK'
    <3>1. HostOK'
      BY <2>30 DEF HostOK, Crash, Cut
    <3>2. WakingOK'
      BY <2>30 DEF WakingOK, Crash, Cut
    <3>3. PublishOK'
      BY <2>30 DEF PublishOK, Crash, Cut
    <3>4. HistoryOK'
      BY <2>30 DEF HistoryOK, Crash, Cut
    <3>5. GuardOK' /\ MarkersOK' /\ HeldOK'
      BY <2>30, Frames DEF Crash, Cut
    <3>. QED
      BY <3>1, <3>2, <3>3, <3>4, <3>5
  <2>31. ASSUME PowersOff PROVE TypeOK'
    <3>1. HostOK'
      BY <2>31 DEF HostOK, PowersOff
    <3>2. WakingOK' /\ GuardOK' /\ MarkersOK' /\ PublishOK' /\ HeldOK' /\ HistoryOK'
      BY <2>31, Frames DEF PowersOff
    <3>. QED
      BY <3>1, <3>2
  <2>32. ASSUME JustUp PROVE TypeOK'
    <3>1. HostOK'
      BY <2>32 DEF HostOK, JustUp, ByState, StartDomain, Boot, Continue, Aside
    <3>2. PublishOK'
      BY <2>32 DEF PublishOK, JustUp, ByState, StartDomain, Boot, Continue, Aside
    <3>3. HeldOK'
      BY <2>32 DEF HeldOK, JustUp, ByState, StartDomain, Boot, Continue, Aside
    <3>4. WakingOK' /\ GuardOK' /\ MarkersOK' /\ HistoryOK'
      BY <2>32, Frames DEF JustUp, ByState, StartDomain, Boot, Continue, Aside
    <3>. QED
      BY <3>1, <3>2, <3>3, <3>4
  <2>33. ASSUME JustDown PROVE TypeOK'
    <3>1. HostOK'
      BY <2>33 DEF HostOK, JustDown, Cut, Halts
    <3>2. WakingOK'
      BY <2>33 DEF WakingOK, JustDown, Cut, Halts
    <3>3. PublishOK'
      BY <2>33 DEF PublishOK, JustDown, Cut, Halts
    <3>4. HistoryOK'
      BY <2>33 DEF HistoryOK, JustDown, Cut, Halts
    <3>5. GuardOK' /\ MarkersOK' /\ HeldOK'
      BY <2>33, Frames DEF JustDown, Cut, Halts
    <3>. QED
      BY <3>1, <3>2, <3>3, <3>4, <3>5
  <2>34. ASSUME Tick PROVE TypeOK'
    <3>1. GuardOK'
      BY <2>34 DEF GuardOK, Tick, Older
    <3>2. MarkersOK'
      BY <2>34 DEF MarkersOK, Tick, Older
    <3>3. PublishOK'
      BY <2>34 DEF PublishOK, Tick, Older
    <3>4. HeldOK'
      BY <2>34 DEF HeldOK, Tick, Older
    <3>5. HistoryOK'
      BY <2>34 DEF HistoryOK, Tick, Older
    <3>6. HostOK' /\ WakingOK'
      BY <2>34, Frames DEF Tick, Older
    <3>. QED
      BY <3>1, <3>2, <3>3, <3>4, <3>5, <3>6
  <2>35. CASE UNCHANGED vars
    BY <2>35, Frames DEF vars
  <2>. QED
    BY <2>1, <2>2, <2>3, <2>4, <2>5, <2>6, <2>7, <2>8, <2>9, <2>10, <2>11, <2>12,
         <2>13, <2>14, <2>15, <2>16, <2>17, <2>18, <2>19, <2>20, <2>21, <2>22,
         <2>23, <2>24, <2>25, <2>26, <2>27, <2>28, <2>29, <2>30, <2>31, <2>32,
         <2>33, <2>34, <2>35
    DEF Next, Wake, WakeStep, Check, Stopping, Publishing, InCommand
<1>3. QED BY <1>1, <1>2, PTL DEF Spec

--------------------------------------------------------------------------------
\* A wake that goes from one place to another, neither being a connection, leaves
\* the connections as they are.
LEMMA Moves ==
  ASSUME WakingOK, NEW c \in Clients, NEW w, w # "connected", wake[c] # "connected",
         wake' = [wake EXCEPT ![c] = w]
  PROVE  Connected' = Connected
  BY DEF WakingOK, Connected

\* Where nothing happens that concerns the markers or the connections, what they
\* say stays true.
LEMMA Still ==
  /\ HostInv /\ UNCHANGED <<dom, guest>> /\ Connected' = Connected
       /\ UNCHANGED <<stop, alive>> => HostInv'
  /\ MetInv /\ Connected' = Connected /\ vouched' \subseteq vouched /\ met' \subseteq met
       /\ vouched' \cap met \subseteq met'
       /\ UNCHANGED <<pub, mark, ran, alive, busy>> => MetInv'
<1>1. ASSUME HostInv, UNCHANGED <<dom, guest>>, Connected' = Connected,
             UNCHANGED <<stop, alive>>
      PROVE  HostInv'
  BY <1>1 DEF HostInv, Up, Running
<1>2. ASSUME MetInv, Connected' = Connected, vouched' \subseteq vouched,
             met' \subseteq met, vouched' \cap met \subseteq met',
             UNCHANGED <<pub, mark, ran, alive, busy>>
      PROVE  MetInv'
  BY <1>2 DEF MetInv, Marked
<1>. QED
  BY <1>1, <1>2

\* With nobody connected there is nobody to be spared.
LEMMA Nobody ==
  /\ HostInv /\ ~Up => Connected = {}
  /\ MetInv /\ Connected = {} => vouched \cap Clients = {} /\ met \cap Clients = {}
  /\ (vouched \cap Clients = {})' /\ (met \cap Clients = {})' => MetInv'
<1>1. HostInv /\ ~Up => Connected = {}
  BY DEF HostInv
<1>2. MetInv /\ Connected = {} => vouched \cap Clients = {} /\ met \cap Clients = {}
  BY DEF MetInv
<1>3. (vouched \cap Clients = {})' /\ (met \cap Clients = {})' => MetInv'
  BY DEF MetInv
<1>. QED
  BY <1>1, <1>2, <1>3

\* A domain that is cut off has nobody connected.
LEMMA CutOff == ASSUME WakingOK, MetInv, Cut PROVE Connected' = {} /\ MetInv'
<1>1. Connected' = {}
  BY DEF Cut, Connected, WakingOK
<1>2. (vouched \cap Clients = {})' /\ (met \cap Clients = {})'
  BY DEF Cut, MetInv
<1>. QED
  BY <1>1, <1>2, Nobody

LEMMA SparedAlways == Spec => []SparedInv
<1>1. Init => SparedInv
  <2> SUFFICES ASSUME Init PROVE SparedInv
    OBVIOUS
  <2>1. Connected = {} /\ stop = "idle"
    BY DEF Init, Connected
  <2>2. vouched = {} /\ met = {} /\ hit.seen = {}
    BY DEF Init
  <2>. QED
    BY <2>1, <2>2 DEF SparedInv, HostInv, MetInv, ConnectionsAreSpared
<1>2. TypeOK /\ SparedInv /\ [Next]_vars => SparedInv'
  <2> SUFFICES ASSUME TypeOK, HostInv, MetInv, ConnectionsAreSpared, [Next]_vars
               PROVE  SparedInv'
    BY DEF SparedInv
  <2> USE DEF TypeOK, SparedInv
  <2>0. /\ WakingOK /\ alive \in Nat /\ busy \in Nat
    BY Periods DEF MarkersOK, Ages, Absent
  <2>1. ASSUME NEW c \in Clients, Look(c) PROVE SparedInv'
    <3>1. Connected' = Connected
      BY <2>0, <2>1, Moves DEF Look, Elsewhere, Aside, Go, Hear
    <3>2. SparedInv'
      BY <2>0, <2>1, <3>1, Still DEF Look, Elsewhere, Aside, Go, Hear,
           ConnectionsAreSpared
    <3>. QED
      BY <2>0, <3>1, <3>2, <2>1, Still, Nobody DEF Look, Elsewhere, Aside, Go, Hear,
           ConnectionsAreSpared
  <2>2. ASSUME NEW c \in Clients, TakeLock(c) PROVE SparedInv'
    <3>1. Connected' = Connected
      BY <2>0, <2>2, Moves DEF TakeLock, Elsewhere, Aside, Go
    <3>2. SparedInv'
      BY <2>0, <2>2, <3>1, Still DEF TakeLock, Elsewhere, Aside, Go,
           ConnectionsAreSpared
    <3>. QED
      BY <2>0, <3>1, <3>2, <2>2, Still, Nobody DEF TakeLock, Elsewhere, Aside, Go,
           ConnectionsAreSpared
  <2>3. ASSUME NEW c \in Clients, LookAgain(c) PROVE SparedInv'
    <3>1. Connected' = Connected
      BY <2>0, <2>3, Moves DEF LookAgain, Elsewhere, Aside, Go, Hear, Release
    <3>2. SparedInv'
      BY <2>0, <2>3, <3>1, Still DEF LookAgain, Elsewhere, Aside, Go, Hear, Release,
           ConnectionsAreSpared
    <3>. QED
      BY <2>0, <3>1, <3>2, <2>3, Still, Nobody DEF LookAgain, Elsewhere, Aside, Go,
           Hear, Release, ConnectionsAreSpared
  <2>4. ASSUME NEW c \in Clients, Refuse(c) PROVE SparedInv'
    <3>1. Connected' = Connected
      BY <2>0, <2>4, Moves DEF Refuse, Die, Elsewhere, Aside, Go, Forget
    <3>2. SparedInv'
      BY <2>0, <2>4, <3>1, Still DEF Refuse, Die, Elsewhere, Aside, Go, Forget,
           ConnectionsAreSpared
    <3>. QED
      BY <2>0, <3>1, <3>2, <2>4, Still, Nobody DEF Refuse, Die, Elsewhere, Aside,
           Go, Forget, ConnectionsAreSpared
  <2>5. ASSUME NEW c \in Clients, Start(c) PROVE SparedInv'
    <3>1. Connected' = Connected
      BY <2>0, <2>5, Moves DEF Start, ByState, StartDomain, Boot, Continue, Aside,
           Go
    <3>2. UNCHANGED <<vouched, alive, busy>>
      BY <2>0, <2>5 DEF Start, ByState, StartDomain, Boot, Continue, Aside, Go
    <3>3. UNCHANGED publish \/ (~Up /\ met' = {})
      BY <2>0, <2>5 DEF Start, ByState, StartDomain, Boot, Continue, Aside, Go, Up,
           Running
    <3>4. HostInv'
      BY <2>0, <2>5, <3>1 DEF Start, ByState, StartDomain, Boot, Continue, Aside,
           Go, HostInv, Up, Running
    <3>5. MetInv'
      BY <2>0, <2>5, <3>1, <3>2, <3>3, Still, Nobody
    <3>. QED
      BY <2>0, <3>1, <3>2, <3>3, <3>4, <3>5, <2>5, Still, Nobody DEF Start, ByState,
           StartDomain, Boot, Continue, Aside, Go, ConnectionsAreSpared
  <2>6. ASSUME NEW c \in Clients, AfterShutdown(c) PROVE SparedInv'
    <3>1. Connected' = Connected
      BY <2>0, <2>6, Moves DEF AfterShutdown, StartDomain, Boot, Continue, Die,
           Elsewhere, Aside, Go, Forget
    <3>2. UNCHANGED <<vouched, alive, busy>>
      BY <2>0, <2>6 DEF AfterShutdown, StartDomain, Boot, Continue, Die, Elsewhere,
           Aside, Go, Forget
    <3>3. UNCHANGED publish \/ (~Up /\ met' = {})
      BY <2>0, <2>6 DEF AfterShutdown, StartDomain, Boot, Continue, Die, Elsewhere,
           Aside, Go, Forget, Up, Running
    <3>4. HostInv'
      BY <2>0, <2>6, <3>1 DEF AfterShutdown, StartDomain, Boot, Continue, Die,
           Elsewhere, Aside, Go, Forget, HostInv, Up, Running
    <3>5. MetInv'
      BY <2>0, <2>6, <3>1, <3>2, <3>3, Still, Nobody
    <3>. QED
      BY <2>0, <3>1, <3>2, <3>3, <3>4, <3>5, <2>6, Still, Nobody DEF AfterShutdown,
           StartDomain, Boot, Continue, Die, Elsewhere, Aside, Go, Forget,
           ConnectionsAreSpared
  <2>7. ASSUME NEW c \in Clients, Keepalive(c) PROVE SparedInv'
    <3>1. Connected' = Connected
      BY <2>0, <2>7, Moves DEF Keepalive, Aside, Go
    <3>2. SparedInv'
      BY <2>0, <2>7, <3>1, Still DEF Keepalive, Aside, Go, ConnectionsAreSpared
    <3>. QED
      BY <2>0, <3>1, <3>2, <2>7, Still, Nobody DEF Keepalive, Aside, Go,
           ConnectionsAreSpared
  <2>8. ASSUME NEW c \in Clients, WaitForSsh(c) PROVE SparedInv'
    <3>1. Connected' = Connected
      BY <2>0, <2>8, Moves DEF WaitForSsh, Die, Elsewhere, Aside, Go, Hear, Forget,
           Release
    <3>2. SparedInv'
      BY <2>0, <2>8, <3>1, Still DEF WaitForSsh, Die, Elsewhere, Aside, Go, Hear,
           Forget, Release, ConnectionsAreSpared
    <3>. QED
      BY <2>0, <3>1, <3>2, <2>8, Still, Nobody DEF WaitForSsh, Die, Elsewhere,
           Aside, Go, Hear, Forget, Release, ConnectionsAreSpared
  <2>9. ASSUME NEW c \in Clients, Nc(c) PROVE SparedInv'
    <3>1. Answers => Connected' = Connected \cup {c}
      BY <2>0, <2>9 DEF Nc, Go, WakingOK, Connected
    <3>2. ~Answers => Connected' = Connected
      BY <2>0, <2>9, Moves DEF Nc, Go
    <3>3. Connected' = Connected \/ (Up /\ Connected' = Connected \cup {c})
      BY <2>0, <2>9, <3>1, <3>2 DEF Answers, Up
    <3>4. HostInv'
      BY <2>0, <2>9, <3>3 DEF Nc, Elsewhere, Aside, Go, Forget, HostInv, Up, Running
    <3>5. MetInv'
      BY <2>0, <2>9, <3>3 DEF Nc, Elsewhere, Aside, Go, Forget, MetInv, Marked
    <3>. QED
      BY <2>0, <3>1, <3>2, <3>3, <3>4, <3>5, <2>9, Still, Nobody DEF Nc, Elsewhere,
           Aside, Go, Forget, ConnectionsAreSpared
  <2>10. ASSUME NEW c \in Clients, Disconnect(c) PROVE SparedInv'
    <3>1. Connected' = Connected \ {c}
      BY <2>0, <2>10 DEF Disconnect, Go, Forget, WakingOK, Connected
    <3>2. HostInv'
      BY <2>0, <2>10, <3>1 DEF Disconnect, Go, Forget, HostInv, Up, Running
    <3>3. MetInv'
      BY <2>0, <2>10, <3>1 DEF Disconnect, Go, Forget, MetInv, Marked
    <3>. QED
      BY <2>0, <3>1, <3>2, <3>3, <2>10, Still, Nobody DEF Disconnect, Go, Forget,
           ConnectionsAreSpared
  <2>11. ASSUME NEW c \in Clients, Kill(c) PROVE SparedInv'
    <3>1. Connected' = Connected
      BY <2>0, <2>11, Moves DEF Kill, Die, Elsewhere, Aside, Go, Forget
    <3>2. SparedInv'
      BY <2>0, <2>11, <3>1, Still DEF Kill, Die, Elsewhere, Aside, Go, Forget,
           ConnectionsAreSpared
    <3>. QED
      BY <2>0, <3>1, <3>2, <2>11, Still, Nobody DEF Kill, Die, Elsewhere, Aside, Go,
           Forget, ConnectionsAreSpared
  <2>12. ASSUME NEW k \in Commands, CommandStarts(k) PROVE SparedInv'
    <3>1. Connected' = Connected
      BY <2>0, <2>12 DEF CommandStarts, Connected
    <3>2. HostInv'
      BY <2>0, <2>12, <3>1 DEF CommandStarts, HostInv, Up, Running
    <3>3. MetInv'
      BY <2>0, <2>12, <3>1, Still DEF CommandStarts
    <3>. QED
      BY <2>0, <3>1, <3>2, <3>3, <2>12, Still, Nobody DEF CommandStarts,
           ConnectionsAreSpared
  <2>13. ASSUME NEW k \in Commands, Refresh(k) PROVE SparedInv'
    <3>1. Connected' = Connected
      BY <2>0, <2>13 DEF Refresh, Connected
    <3>2. HostInv'
      BY <2>0, <2>13, <3>1 DEF Refresh, HostInv, Up, Running
    <3>3. MetInv'
      BY <2>0, <2>13, <3>1, Still DEF Refresh
    <3>. QED
      BY <2>0, <3>1, <3>2, <3>3, <2>13, Still, Nobody DEF Refresh,
           ConnectionsAreSpared
  <2>14. ASSUME NEW k \in Commands, CommandEnds(k) PROVE SparedInv'
    <3>1. Connected' = Connected
      BY <2>0, <2>14 DEF CommandEnds, Connected
    <3>2. HostInv'
      BY <2>0, <2>14, <3>1 DEF CommandEnds, HostInv, Up, Running
    <3>3. MetInv'
      BY <2>0, <2>14, <3>1, Still DEF CommandEnds
    <3>. QED
      BY <2>0, <3>1, <3>2, <3>3, <2>14, Still, Nobody DEF CommandEnds,
           ConnectionsAreSpared
  <2>15. ASSUME CheckDown PROVE SparedInv'
    <3>1. Connected' = Connected
      BY <2>0, <2>15 DEF CheckDown, Ends, Unmoved, Connected
    <3>2. HostInv'
      BY <2>0, <2>15, <3>1 DEF CheckDown, Ends, Unmoved, HostInv, Up, Running
    <3>3. MetInv'
      BY <2>0, <2>15, <3>1, Still DEF CheckDown, Ends, Unmoved
    <3>. QED
      BY <2>0, <3>1, <3>2, <3>3, <2>15, Still, Nobody DEF CheckDown, Ends, Unmoved,
           ConnectionsAreSpared
  <2>16. ASSUME CheckSilent PROVE SparedInv'
    <3>1. Connected' = Connected
      BY <2>0, <2>16 DEF CheckSilent, Ends, Unmoved, Connected
    <3>2. HostInv'
      BY <2>0, <2>16, <3>1 DEF CheckSilent, Ends, Unmoved, HostInv, Up, Running
    <3>3. MetInv'
      BY <2>0, <2>16, <3>1, Still DEF CheckSilent, Ends, Unmoved
    <3>. QED
      BY <2>0, <3>1, <3>2, <3>3, <2>16, Still, Nobody DEF CheckSilent, Ends,
           Unmoved, ConnectionsAreSpared
  <2>17. ASSUME CheckStale PROVE SparedInv'
    <3>1. Connected' = Connected
      BY <2>0, <2>17 DEF CheckStale, Ends, Unmoved, Connected
    <3>2. HostInv'
      BY <2>0, <2>17, <3>1 DEF CheckStale, Ends, Unmoved, HostInv, Up, Running
    <3>3. MetInv'
      BY <2>0, <2>17, <3>1, Still DEF CheckStale, Ends, Unmoved
    <3>. QED
      BY <2>0, <3>1, <3>2, <3>3, <2>17, Still, Nobody DEF CheckStale, Ends, Unmoved,
           ConnectionsAreSpared
  <2>18. ASSUME CheckIdle PROVE SparedInv'
    <3>1. Connected' = Connected
      BY <2>0, <2>18 DEF CheckIdle, Ends, Unmoved, Connected
    <3>2. HostInv'
      BY <2>0, <2>18, <3>1 DEF CheckIdle, Ends, Unmoved, HostInv, Up, Running
    <3>3. MetInv'
      BY <2>0, <2>18, <3>1, Still DEF CheckIdle, Ends, Unmoved
    <3>. QED
      BY <2>0, <3>1, <3>2, <3>3, <2>18, Still, Nobody DEF CheckIdle, Ends, Unmoved,
           ConnectionsAreSpared
  <2>19. ASSUME AskLock PROVE SparedInv'
    <3>1. Connected' = Connected
      BY <2>0, <2>19 DEF AskLock, Ends, Unmoved, Connected
    <3>2. HostInv'
      BY <2>0, <2>19, <3>1 DEF AskLock, Ends, Unmoved, HostInv, Up, Running
    <3>3. MetInv'
      BY <2>0, <2>19, <3>1, Still DEF AskLock, Ends, Unmoved
    <3>. QED
      BY <2>0, <3>1, <3>2, <3>3, <2>19, Still, Nobody DEF AskLock, Ends, Unmoved,
           ConnectionsAreSpared
  <2>20. ASSUME BackOff PROVE SparedInv'
    <3>1. Connected' = Connected
      BY <2>0, <2>20 DEF BackOff, Ends, Unmoved, Release, Connected
    <3>2. HostInv'
      BY <2>0, <2>20, <3>1 DEF BackOff, Ends, Unmoved, Release, HostInv, Up, Running
    <3>3. MetInv'
      BY <2>0, <2>20, <3>1, Still DEF BackOff, Ends, Unmoved, Release
    <3>. QED
      BY <2>0, <3>1, <3>2, <3>3, <2>20, Still, Nobody DEF BackOff, Ends, Unmoved,
           Release, ConnectionsAreSpared
  <2>21. ASSUME Save PROVE SparedInv'
    <3>1. Connected' = {} /\ MetInv'
      BY <2>0, <2>21, CutOff DEF Save, Strike
    <3>2. HostInv'
      BY <2>0, <2>21, <3>1 DEF Save, Strike, Cut, StillIdle, Inside, HostInv, Up,
           Running
    <3>3. vouched \cap Clients = {}
      BY <2>0, <2>21, Periods DEF Save, StillIdle, HostInv, MetInv, Marked
    <3>4. ConnectionsAreSpared'
      BY <2>0, <2>21, <3>3 DEF Save, Strike, ConnectionsAreSpared
    <3>. QED
      BY <2>0, <3>1, <3>2, <3>3, <3>4, <2>21, Still, Nobody DEF Save, Strike, Cut,
           StillIdle, Inside, ConnectionsAreSpared
  <2>22. ASSUME Saved PROVE SparedInv'
    <3>1. Connected' = Connected
      BY <2>0, <2>22 DEF Saved, Ends, Release, Connected
    <3>2. HostInv'
      BY <2>0, <2>22, <3>1 DEF Saved, Ends, Release, HostInv, Up, Running
    <3>3. MetInv'
      BY <2>0, <2>22, <3>1, Still DEF Saved, Ends, Release
    <3>. QED
      BY <2>0, <3>1, <3>2, <3>3, <2>22, Still, Nobody DEF Saved, Ends, Release,
           ConnectionsAreSpared
  <2>23. ASSUME SaveFails PROVE SparedInv'
    <3>1. Connected' = Connected
      BY <2>0, <2>23 DEF SaveFails, Ends, Release, Halts, Connected
    <3>2. HostInv'
      BY <2>0, <2>23, <3>1 DEF SaveFails, Ends, Release, Halts, HostInv, Up, Running
    <3>3. MetInv'
      BY <2>0, <2>23, <3>1, Still DEF SaveFails, Ends, Release, Halts
    <3>. QED
      BY <2>0, <3>1, <3>2, <3>3, <2>23, Still, Nobody DEF SaveFails, Ends, Release,
           Halts, ConnectionsAreSpared
  <2>24. ASSUME ShutDown PROVE SparedInv'
    <3>1. Connected' = {} /\ MetInv'
      BY <2>0, <2>24, CutOff DEF ShutDown, Strike
    <3>2. HostInv'
      BY <2>0, <2>24, <3>1 DEF ShutDown, Ends, Release, Halts, Strike, Cut,
           StillIdle, Inside, HostInv, Up, Running
    <3>3. vouched \cap Clients = {}
      BY <2>0, <2>24, Periods DEF ShutDown, StillIdle, HostInv, MetInv, Marked
    <3>4. ConnectionsAreSpared'
      BY <2>0, <2>24, <3>3 DEF ShutDown, Strike, ConnectionsAreSpared
    <3>. QED
      BY <2>0, <3>1, <3>2, <3>3, <3>4, <2>24, Still, Nobody DEF ShutDown, Ends,
           Release, Halts, Strike, Cut, StillIdle, Inside, ConnectionsAreSpared
  <2>25. ASSUME PublishLook PROVE SparedInv'
    <3>1. Connected' = Connected
      BY <2>0, <2>25 DEF PublishLook, Inside, Connected
    <3>2. HostInv'
      BY <2>0, <2>25, <3>1, Periods DEF PublishLook, Inside, HostInv, Up, Running
    <3>3. met' \cap Clients \subseteq Connected
      BY <2>0, <2>25, VmOK DEF PublishLook, Inside, Connected
    <3>4. Connected # {} => mark'
      BY <2>0, <2>25 DEF PublishLook
    <3>5. MetInv'
      BY <2>0, <2>25, <3>1, <3>3, <3>4 DEF PublishLook, MetInv, Marked
    <3>. QED
      BY <2>0, <3>1, <3>2, <3>3, <3>4, <3>5, <2>25, Still, Nobody DEF PublishLook,
           Inside, ConnectionsAreSpared
  <2>26. ASSUME PublishMark PROVE SparedInv'
    <3>1. Connected' = Connected
      BY <2>0, <2>26 DEF PublishMark, Connected
    <3>2. HostInv'
      BY <2>0, <2>26, <3>1 DEF PublishMark, HostInv, Up, Running
    <3>3. MetInv'
      BY <2>0, <2>26, <3>1 DEF PublishMark, MetInv, Marked
    <3>. QED
      BY <2>0, <3>1, <3>2, <3>3, <2>26, Still, Nobody DEF PublishMark,
           ConnectionsAreSpared
  <2>27. ASSUME PublishBreaks PROVE SparedInv'
    <3>1. Connected' = Connected
      BY <2>0, <2>27 DEF PublishBreaks, Connected
    <3>2. HostInv'
      BY <2>0, <2>27, <3>1 DEF PublishBreaks, HostInv, Up, Running
    <3>3. MetInv'
      BY <2>0, <2>27, <3>1 DEF PublishBreaks, MetInv, Marked
    <3>. QED
      BY <2>0, <3>1, <3>2, <3>3, <2>27, Still, Nobody DEF PublishBreaks,
           ConnectionsAreSpared
  <2>28. ASSUME PublishDies PROVE SparedInv'
    <3>1. Connected' = Connected
      BY <2>0, <2>28 DEF PublishDies, Connected
    <3>2. HostInv'
      BY <2>0, <2>28, <3>1 DEF PublishDies, HostInv, Up, Running
    <3>3. MetInv'
      BY <2>0, <2>28, <3>1 DEF PublishDies, MetInv, Marked
    <3>. QED
      BY <2>0, <3>1, <3>2, <3>3, <2>28, Still, Nobody DEF PublishDies,
           ConnectionsAreSpared
  <2>29. ASSUME BootDone PROVE SparedInv'
    <3>1. Connected' = Connected
      BY <2>0, <2>29 DEF BootDone, Connected
    <3>2. HostInv'
      BY <2>0, <2>29, <3>1 DEF BootDone, HostInv, Up, Running
    <3>3. MetInv'
      BY <2>0, <2>29, <3>1, Still DEF BootDone
    <3>. QED
      BY <2>0, <3>1, <3>2, <3>3, <2>29, Still, Nobody DEF BootDone,
           ConnectionsAreSpared
  <2>30. ASSUME Crash PROVE SparedInv'
    <3>1. Connected' = {} /\ MetInv'
      BY <2>0, <2>30, CutOff DEF Crash
    <3>2. HostInv'
      BY <2>0, <2>30, <3>1 DEF Crash, Cut, HostInv, Up, Running
    <3>. QED
      BY <2>0, <3>1, <3>2, <2>30, Still, Nobody DEF Crash, Cut, ConnectionsAreSpared
  <2>31. ASSUME PowersOff PROVE SparedInv'
    <3>1. Connected' = Connected
      BY <2>0, <2>31 DEF PowersOff, Connected
    <3>2. HostInv'
      BY <2>0, <2>31, <3>1 DEF PowersOff, HostInv, Up, Running
    <3>3. MetInv'
      BY <2>0, <2>31, <3>1, Still DEF PowersOff
    <3>. QED
      BY <2>0, <3>1, <3>2, <3>3, <2>31, Still, Nobody DEF PowersOff,
           ConnectionsAreSpared
  <2>32. ASSUME JustUp PROVE SparedInv'
    <3>1. Connected' = Connected
      BY <2>0, <2>32 DEF JustUp, ByState, StartDomain, Boot, Continue, Aside,
           Connected
    <3>2. UNCHANGED <<vouched, alive, busy>>
      BY <2>0, <2>32 DEF JustUp, ByState, StartDomain, Boot, Continue, Aside
    <3>3. UNCHANGED publish \/ (~Up /\ met' = {})
      BY <2>0, <2>32 DEF JustUp, ByState, StartDomain, Boot, Continue, Aside, Up,
           Running
    <3>4. HostInv'
      BY <2>0, <2>32, <3>1 DEF JustUp, ByState, StartDomain, Boot, Continue, Aside,
           HostInv, Up, Running
    <3>5. MetInv'
      BY <2>0, <2>32, <3>1, <3>2, <3>3, Still, Nobody
    <3>. QED
      BY <2>0, <3>1, <3>2, <3>3, <3>4, <3>5, <2>32, Still, Nobody DEF JustUp,
           ByState, StartDomain, Boot, Continue, Aside, ConnectionsAreSpared
  <2>33. ASSUME JustDown PROVE SparedInv'
    <3>1. Connected' = {} /\ MetInv'
      BY <2>0, <2>33, CutOff DEF JustDown
    <3>2. HostInv'
      BY <2>0, <2>33, <3>1 DEF JustDown, Cut, Halts, HostInv, Up, Running
    <3>. QED
      BY <2>0, <3>1, <3>2, <2>33, Still, Nobody DEF JustDown, Cut, Halts,
           ConnectionsAreSpared
  <2>34. ASSUME Tick PROVE SparedInv'
    <3>1. Connected' = Connected
      BY <2>0, <2>34 DEF Tick, Older, Connected
    <3>2. HostInv'
      BY <2>0, <2>34, <3>1 DEF Tick, Older, HostInv, Up, Running
    <3>3. vouched \cap Clients # {} => Up /\ (pub = "dead" \/ ran) /\ Marked
      BY <2>0, <2>34 DEF Tick, HostInv, MetInv
    <3>4. /\ pub' = pub /\ (Up => ran' = FALSE)
         /\ alive' = Older(alive) /\ busy' = Older(busy)
      BY <2>0, <2>34 DEF Tick
    <3>5. Marked /\ Up /\ (pub = "dead" \/ ran) => Marked'
      BY <2>0, <2>34, <3>4, Periods DEF Marked, Older
    <3>6. MetInv'
      BY <2>0, <2>34, <3>1, <3>3, <3>5 DEF Tick, MetInv
    <3>. QED
      BY <2>0, <3>1, <3>2, <3>3, <3>4, <3>5, <3>6, <2>34, Still, Nobody DEF Tick,
           Older, ConnectionsAreSpared
  <2>35. CASE UNCHANGED vars
    BY <2>35, Still DEF vars, Connected, ConnectionsAreSpared
  <2>. QED
    BY <2>1, <2>2, <2>3, <2>4, <2>5, <2>6, <2>7, <2>8, <2>9, <2>10, <2>11, <2>12,
         <2>13, <2>14, <2>15, <2>16, <2>17, <2>18, <2>19, <2>20, <2>21, <2>22,
         <2>23, <2>24, <2>25, <2>26, <2>27, <2>28, <2>29, <2>30, <2>31, <2>32,
         <2>33, <2>34, <2>35
    DEF Next, Wake, WakeStep, Check, Stopping, Publishing, InCommand
<1>. QED
  BY <1>1, <1>2, LabTyped, PTL DEF Spec

\* An idle stop spares every connection that the publisher has met in a run that
\* went through, even if a later one dies or breaks off on somebody else.
THEOREM MetConnectionsAreSpared == Spec => []ConnectionsAreSpared
<1>1. SparedInv => ConnectionsAreSpared
  BY DEF SparedInv
<1>. QED
  BY <1>1, SparedAlways, PTL

--------------------------------------------------------------------------------
(***************************************************************************)
(* A wake becomes a nc only when sshd has answered it.                     *)
(***************************************************************************)

\* Whoever starts or stops the lab takes its lock and lives to release it, and a stop
\* saves the lab: no `just up`, no wake that is killed, and no shutdown.
LockIsKept == StopBy = "managedsave" /\ May \cap {"up", "kill", "unsavable"} = {}

\* A wake past its queue holds the lock until it knows the end of what it started, and
\* so does an idle stop.
LockInv ==
  /\ \A c \in Clients :
       wake[c] \in {"locked", "starting", "offwait", "started", "waiting"} => lock = c
  /\ stop \in {"locked", "saving"} => lock = "idle-stop"

LEMMA LockStep == LockIsKept /\ TypeOK /\ LockInv /\ [Next]_vars => LockInv'
<1> SUFFICES ASSUME LockIsKept, TypeOK, LockInv, [Next]_vars PROVE LockInv'
  OBVIOUS
<1>0. /\ wake \in [Clients -> WakePCs] /\ "idle-stop" \notin Clients /\ "free" \notin Clients
      /\ "kill" \notin May
  BY VmOK DEF TypeOK, WakingOK, LockIsKept
<1>1. ASSUME NEW c \in Clients, Look(c) PROVE LockInv'
  BY <1>0, <1>1 DEF Look, Elsewhere, Aside, Go, Hear, LockInv
<1>2. ASSUME NEW c \in Clients, TakeLock(c) PROVE LockInv'
  BY <1>0, <1>2 DEF TakeLock, Elsewhere, Aside, Go, LockInv
<1>3. ASSUME NEW c \in Clients, LookAgain(c) PROVE LockInv'
  BY <1>0, <1>3 DEF LookAgain, Elsewhere, Aside, Go, Hear, Release, LockInv
<1>4. ASSUME NEW c \in Clients, Refuse(c) PROVE LockInv'
  BY <1>0, <1>4 DEF Refuse, Die, Elsewhere, Aside, Go, Forget, LockInv
<1>5. ASSUME NEW c \in Clients, Start(c) PROVE LockInv'
  BY <1>0, <1>5 DEF Start, ByState, StartDomain, Boot, Continue, Aside, Go, LockInv
<1>6. ASSUME NEW c \in Clients, AfterShutdown(c) PROVE LockInv'
  BY <1>0, <1>6 DEF AfterShutdown, StartDomain, Boot, Continue, Die, Elsewhere, Aside, Go,
     Forget, LockInv
<1>7. ASSUME NEW c \in Clients, Keepalive(c) PROVE LockInv'
  BY <1>0, <1>7 DEF Keepalive, Aside, Go, LockInv
<1>8. ASSUME NEW c \in Clients, WaitForSsh(c) PROVE LockInv'
  BY <1>0, <1>8 DEF WaitForSsh, Die, Elsewhere, Aside, Go, Hear, Forget, Release, LockInv
<1>9. ASSUME NEW c \in Clients, Nc(c) PROVE LockInv'
  BY <1>0, <1>9 DEF Nc, Elsewhere, Aside, Go, Forget, LockInv
<1>10. ASSUME NEW c \in Clients, Disconnect(c) PROVE LockInv'
  BY <1>0, <1>10 DEF Disconnect, Go, Forget, LockInv
<1>11. ASSUME NEW c \in Clients, Kill(c) PROVE LockInv'
  BY <1>0, <1>11 DEF Kill, Die, Elsewhere, Aside, Go, Forget, LockInv
<1>12. ASSUME NEW k \in Commands, CommandStarts(k) PROVE LockInv'
  BY <1>0, <1>12 DEF CommandStarts, LockInv
<1>13. ASSUME NEW k \in Commands, Refresh(k) PROVE LockInv'
  BY <1>0, <1>13 DEF Refresh, LockInv
<1>14. ASSUME NEW k \in Commands, CommandEnds(k) PROVE LockInv'
  BY <1>0, <1>14 DEF CommandEnds, LockInv
<1>15. CASE CheckDown
  BY <1>0, <1>15 DEF CheckDown, Ends, Unmoved, LockInv
<1>16. CASE CheckSilent
  BY <1>0, <1>16 DEF CheckSilent, Ends, Unmoved, LockInv
<1>17. CASE CheckStale
  BY <1>0, <1>17 DEF CheckStale, Ends, Unmoved, LockInv
<1>18. CASE CheckIdle
  BY <1>0, <1>18 DEF CheckIdle, Ends, Unmoved, LockInv
<1>19. CASE AskLock
  BY <1>0, <1>19 DEF AskLock, Ends, Unmoved, LockInv
<1>20. CASE BackOff
  BY <1>0, <1>20 DEF BackOff, Ends, Unmoved, Release, LockInv
<1>21. CASE Save
  BY <1>0, <1>21 DEF Save, Strike, Cut, LockInv
<1>22. CASE Saved
  BY <1>0, <1>22 DEF Saved, Ends, Release, LockInv
<1>23. CASE SaveFails
  BY <1>0, <1>23 DEF SaveFails, Ends, Release, Halts, LockInv
<1>24. CASE ShutDown
  BY <1>0, <1>24 DEF ShutDown, Ends, Release, Halts, Strike, Cut, LockInv
<1>25. CASE PublishLook
  BY <1>0, <1>25 DEF PublishLook, LockInv
<1>26. CASE PublishMark
  BY <1>0, <1>26 DEF PublishMark, LockInv
<1>27. CASE PublishBreaks
  BY <1>0, <1>27 DEF PublishBreaks, LockInv
<1>28. CASE PublishDies
  BY <1>0, <1>28 DEF PublishDies, LockInv
<1>29. CASE BootDone
  BY <1>0, <1>29 DEF BootDone, LockInv
<1>30. CASE Crash
  BY <1>0, <1>30 DEF Crash, Cut, LockInv
<1>31. CASE PowersOff
  BY <1>0, <1>31 DEF PowersOff, LockInv
<1>32. CASE JustUp
  BY <1>0, <1>32 DEF JustUp, ByState, StartDomain, Boot, Continue, Aside, LockInv
<1>33. CASE JustDown
  BY <1>0, <1>33 DEF JustDown, Cut, Halts, LockInv
<1>34. CASE Tick
  BY <1>0, <1>34 DEF Tick, Older, LockInv
<1>35. CASE UNCHANGED vars
  BY <1>0, <1>35 DEF vars, LockInv
<1> QED
  BY <1>1, <1>2, <1>3, <1>4, <1>5, <1>6, <1>7, <1>8, <1>9, <1>10, <1>11, <1>12, <1>13,
     <1>14, <1>15, <1>16, <1>17, <1>18, <1>19, <1>20, <1>21, <1>22, <1>23, <1>24, <1>25,
        <1>26, <1>27, <1>28, <1>29, <1>30, <1>31, <1>32, <1>33, <1>34, <1>35
     DEF Next, Wake, WakeStep, Check, Stopping, Publishing, InCommand

\* A lab that runs and does not answer is being started under the lock.
Waker == \E c \in Clients : lock = c /\ wake[c] \in {"started", "waiting"}
BootInv ==
  /\ dom # "in shutdown" /\ guest # "halting"
  /\ dom \in {"running", "paused"} => guest # "none"
  /\ image => dom = "shut off" /\ guest # "none"
  /\ Running /\ guest # "up" => Waker
  /\ stop = "saving" => dom = "paused"
  /\ NcAfterSsh

LEMMA BootStep ==
  LockIsKept /\ TypeOK /\ LockInv /\ BootInv /\ [Next]_vars => BootInv'
<1> SUFFICES ASSUME LockIsKept, TypeOK, LockInv, BootInv, [Next]_vars PROVE BootInv'
  OBVIOUS
<1>0. /\ wake \in [Clients -> WakePCs] /\ "idle-stop" \notin Clients /\ "free" \notin Clients
      /\ dom \in DomStates /\ guest \in {"none", "booting", "up", "halting"} /\ image \in BOOLEAN
      /\ {"up", "kill", "unsavable"} \cap May = {} /\ StopBy = "managedsave"
  BY VmOK DEF TypeOK, WakingOK, HostOK, LockIsKept
<1>1. ASSUME NEW c \in Clients, Look(c) PROVE BootInv'
  BY <1>0, <1>1 DEF Look, Elsewhere, Aside, Go, Hear, LockInv, BootInv, Waker, NcAfterSsh,
     Running, Answers, Up, Connected, DomStates
<1>2. ASSUME NEW c \in Clients, TakeLock(c) PROVE BootInv'
  BY <1>0, <1>2 DEF TakeLock, Elsewhere, Aside, Go, LockInv, BootInv, Waker, NcAfterSsh,
     Running, Answers, Up, Connected, DomStates
<1>3. ASSUME NEW c \in Clients, LookAgain(c) PROVE BootInv'
  BY <1>0, <1>3 DEF LookAgain, Elsewhere, Aside, Go, Hear, Release, LockInv, BootInv,
     Waker, NcAfterSsh, Running, Answers, Up, Connected, DomStates
<1>4. ASSUME NEW c \in Clients, Refuse(c) PROVE BootInv'
  BY <1>0, <1>4 DEF Refuse, Die, Elsewhere, Aside, Go, Forget, LockInv, BootInv, Waker,
     NcAfterSsh, Running, Answers, Up, Connected, DomStates
<1>5. ASSUME NEW c \in Clients, Start(c) PROVE BootInv'
  <2>1. /\ lock' = lock /\ lock = c /\ UNCHANGED <<heard, stop>> /\ wake[c] = "starting"
        /\ \A d \in Clients : d # c => wake'[d] = wake[d]
    BY <1>0, <1>5 DEF Start, ByState, StartDomain, Boot, Continue, Aside, Go, LockInv,
       BootInv, Waker, NcAfterSsh, Running, Answers, Up, Connected, DomStates, LockInv
  <2>2. \/ UNCHANGED host /\ wake'[c] \in {"started", "offwait"}
        \/ /\ wake'[c] = "started" /\ dom' = "running" /\ stop # "saving"
           /\ \/ guest' = "booting" /\ ~image'
              \/ guest' = guest /\ (dom = "paused" \/ image) /\ ~image'
    BY <1>0, <1>5, <2>1 DEF Start, ByState, StartDomain, Boot, Continue, Aside, Go,
       LockInv, BootInv, Waker, NcAfterSsh, Running, Answers, Up, Connected, DomStates,
          LockInv, BootInv
  <2>3. NcAfterSsh'
    BY <2>1, <2>2 DEF BootInv, NcAfterSsh
  <2>4. UNCHANGED host => (Running => guest = "up")
    BY <2>1 DEF BootInv, Waker
  <2>5. CASE UNCHANGED host
    BY <2>1, <2>3, <2>4, <2>5 DEF BootInv, Running
  <2>6. CASE ~UNCHANGED host
    <3>1. Waker'
      BY <2>1, <2>2, <2>6 DEF Waker
    <3> QED
      BY <2>1, <2>2, <2>3, <2>6, <3>1 DEF BootInv
  <2> QED
    BY <2>5, <2>6
<1>6. ASSUME NEW c \in Clients, AfterShutdown(c) PROVE BootInv'
  BY <1>0, <1>6 DEF AfterShutdown, StartDomain, Boot, Continue, Die, Elsewhere, Aside, Go,
     Forget, LockInv, BootInv, Waker, NcAfterSsh, Running, Answers, Up, Connected, DomStates
<1>7. ASSUME NEW c \in Clients, Keepalive(c) PROVE BootInv'
  BY <1>0, <1>7 DEF Keepalive, Aside, Go, LockInv, BootInv, Waker, NcAfterSsh, Running,
     Answers, Up, Connected, DomStates
<1>8. ASSUME NEW c \in Clients, WaitForSsh(c) PROVE BootInv'
  BY <1>0, <1>8 DEF WaitForSsh, Die, Elsewhere, Aside, Go, Hear, Forget, Release, LockInv,
     BootInv, Waker, NcAfterSsh, Running, Answers, Up, Connected, DomStates
<1>9. ASSUME NEW c \in Clients, Nc(c) PROVE BootInv'
  BY <1>0, <1>9 DEF Nc, Elsewhere, Aside, Go, Forget, LockInv, BootInv, Waker, NcAfterSsh,
     Running, Answers, Up, Connected, DomStates
<1>10. ASSUME NEW c \in Clients, Disconnect(c) PROVE BootInv'
  BY <1>0, <1>10 DEF Disconnect, Go, Forget, LockInv, BootInv, Waker, NcAfterSsh, Running,
     Answers, Up, Connected, DomStates
<1>11. ASSUME NEW c \in Clients, Kill(c) PROVE BootInv'
  BY <1>0, <1>11 DEF Kill, Die, Elsewhere, Aside, Go, Forget, LockInv, BootInv, Waker,
     NcAfterSsh, Running, Answers, Up, Connected, DomStates
<1>12. ASSUME NEW k \in Commands, CommandStarts(k) PROVE BootInv'
  BY <1>0, <1>12 DEF CommandStarts, LockInv, BootInv, Waker, NcAfterSsh, Running, Answers,
     Up, Connected, DomStates
<1>13. ASSUME NEW k \in Commands, Refresh(k) PROVE BootInv'
  BY <1>0, <1>13 DEF Refresh, LockInv, BootInv, Waker, NcAfterSsh, Running, Answers, Up,
     Connected, DomStates
<1>14. ASSUME NEW k \in Commands, CommandEnds(k) PROVE BootInv'
  BY <1>0, <1>14 DEF CommandEnds, LockInv, BootInv, Waker, NcAfterSsh, Running, Answers,
     Up, Connected, DomStates
<1>15. CASE CheckDown
  BY <1>0, <1>15 DEF CheckDown, Ends, Unmoved, LockInv, BootInv, Waker, NcAfterSsh,
     Running, Answers, Up, Connected, DomStates
<1>16. CASE CheckSilent
  BY <1>0, <1>16 DEF CheckSilent, Ends, Unmoved, LockInv, BootInv, Waker, NcAfterSsh,
     Running, Answers, Up, Connected, DomStates
<1>17. CASE CheckStale
  BY <1>0, <1>17 DEF CheckStale, Ends, Unmoved, LockInv, BootInv, Waker, NcAfterSsh,
     Running, Answers, Up, Connected, DomStates
<1>18. CASE CheckIdle
  BY <1>0, <1>18 DEF CheckIdle, Ends, Unmoved, LockInv, BootInv, Waker, NcAfterSsh,
     Running, Answers, Up, Connected, DomStates
<1>19. CASE AskLock
  BY <1>0, <1>19 DEF AskLock, Ends, Unmoved, LockInv, BootInv, Waker, NcAfterSsh, Running,
     Answers, Up, Connected, DomStates
<1>20. CASE BackOff
  BY <1>0, <1>20 DEF BackOff, Ends, Unmoved, Release, LockInv, BootInv, Waker, NcAfterSsh,
     Running, Answers, Up, Connected, DomStates
<1>21. CASE Save
  <2>1. NcAfterSsh'
    BY <1>0, <1>21 DEF Save, Strike, StillIdle, Cut, BootInv, NcAfterSsh, Connected
  <2>2. \A c \in Clients :
          wake[c] \in {"started", "waiting"} => wake'[c] = wake[c]
    BY <1>0, <1>21 DEF Save, Strike, StillIdle, Cut
  <2>3. UNCHANGED <<image, lock>> /\ dom' \in {"paused", "crashed"}
    BY <1>21 DEF Save, Strike, Cut, LockInv, BootInv, Waker, NcAfterSsh, Running, Answers,
       Up, Connected, DomStates
  <2> QED
    BY <1>0, <1>21, <2>1, <2>2, <2>3 DEF Save, Strike, StillIdle, LockInv, BootInv, Waker,
       Running
<1>22. CASE Saved
  BY <1>0, <1>22 DEF Saved, Ends, Release, LockInv, BootInv, Waker, NcAfterSsh, Running,
     Answers, Up, Connected, DomStates
<1>23. CASE SaveFails
  BY <1>0, <1>23 DEF SaveFails, Ends, Release, Halts, LockInv, BootInv, Waker, NcAfterSsh,
     Running, Answers, Up, Connected, DomStates
<1>24. CASE ShutDown
  BY <1>0, <1>24 DEF ShutDown, Ends, Release, Halts, Strike, Cut, LockInv, BootInv, Waker,
     NcAfterSsh, Running, Answers, Up, Connected, DomStates
<1>25. CASE PublishLook
  BY <1>0, <1>25 DEF PublishLook, LockInv, BootInv, Waker, NcAfterSsh, Running, Answers,
     Up, Connected, DomStates
<1>26. CASE PublishMark
  BY <1>0, <1>26 DEF PublishMark, LockInv, BootInv, Waker, NcAfterSsh, Running, Answers,
     Up, Connected, DomStates
<1>27. CASE PublishBreaks
  BY <1>0, <1>27 DEF PublishBreaks, LockInv, BootInv, Waker, NcAfterSsh, Running, Answers,
     Up, Connected, DomStates
<1>28. CASE PublishDies
  BY <1>0, <1>28 DEF PublishDies, LockInv, BootInv, Waker, NcAfterSsh, Running, Answers,
     Up, Connected, DomStates
<1>29. CASE BootDone
  BY <1>0, <1>29 DEF BootDone, LockInv, BootInv, Waker, NcAfterSsh, Running, Answers, Up,
     Connected, DomStates
<1>30. CASE Crash
  <2>1. NcAfterSsh'
    BY <1>0, <1>30 DEF Crash, Cut, BootInv, NcAfterSsh, Connected
  <2>2. \A c \in Clients :
          wake[c] \in {"started", "waiting"} => wake'[c] = wake[c]
    BY <1>0, <1>30 DEF Crash, Cut
  <2>3. UNCHANGED <<image, lock>> /\ dom' \in {"paused", "crashed"}
    BY <1>30 DEF Crash, Cut, LockInv, BootInv, Waker, NcAfterSsh, Running, Answers, Up,
       Connected, DomStates
  <2> QED
    BY <1>0, <1>30, <2>1, <2>2, <2>3 DEF Crash, LockInv, BootInv, Waker, Running
<1>31. CASE PowersOff
  BY <1>0, <1>31 DEF PowersOff, LockInv, BootInv, Waker, NcAfterSsh, Running, Answers, Up,
     Connected, DomStates
<1>32. CASE JustUp
  BY <1>0, <1>32 DEF JustUp, ByState, StartDomain, Boot, Continue, Aside, LockInv,
     BootInv, Waker, NcAfterSsh, Running, Answers, Up, Connected, DomStates
<1>33. CASE JustDown
  BY <1>0, <1>33 DEF JustDown, Cut, Halts, LockInv, BootInv, Waker, NcAfterSsh, Running,
     Answers, Up, Connected, DomStates
<1>34. CASE Tick
  BY <1>0, <1>34 DEF Tick, Older, LockInv, BootInv, Waker, NcAfterSsh, Running, Answers,
     Up, Connected, DomStates
<1>35. CASE UNCHANGED vars
  BY <1>0, <1>35 DEF vars, LockInv, BootInv, Waker, NcAfterSsh, Running, Answers, Up,
     Connected, DomStates
<1> QED
  BY <1>1, <1>2, <1>3, <1>4, <1>5, <1>6, <1>7, <1>8, <1>9, <1>10, <1>11, <1>12, <1>13,
     <1>14, <1>15, <1>16, <1>17, <1>18, <1>19, <1>20, <1>21, <1>22, <1>23, <1>24, <1>25,
        <1>26, <1>27, <1>28, <1>29, <1>30, <1>31, <1>32, <1>33, <1>34, <1>35
     DEF Next, Wake, WakeStep, Check, Stopping, Publishing, InCommand

\* Unless somebody starts the lab without its lock, is killed while he holds it, or
\* shuts the guest down, no wake becomes a nc before sshd has answered it, however
\* the saves of the idle stop, crashes and other wakes fall in between.
THEOREM NcComesAfterSsh == LockIsKept => (Spec => []NcAfterSsh)
<1> SUFFICES ASSUME LockIsKept PROVE Spec => []NcAfterSsh
  OBVIOUS
<1>1. Init => LockInv
  BY DEF Init, LockInv
<1>2. Init => BootInv
  BY DEF Init, BootInv, NcAfterSsh, Running
<1>3. TypeOK /\ LockInv /\ [Next]_vars => LockInv'
  BY LockStep
<1>4. TypeOK /\ LockInv /\ BootInv /\ [Next]_vars => BootInv'
  BY BootStep
<1>5. BootInv => NcAfterSsh
  BY DEF BootInv
<1> QED
  BY <1>1, <1>2, <1>3, <1>4, <1>5, LabTyped, PTL DEF Spec

--------------------------------------------------------------------------------
(***************************************************************************)
(* A command under uibox-keepalive is spared as well.  When another one    *)
(* ends, the hold is gone until somebody takes it again, a refresh later   *)
(* at the latest, and for as long `busy` may age: every command that ends  *)
(* costs that much of the idle time, once.                                 *)
(***************************************************************************)

\* A refresh comes before the hold of a wake ends (60 s and 10 minutes), and so few
\* commands are run that idle.minutes outlast all that their ends can cost.
FewCommands ==
  /\ IsFiniteSet(Commands) /\ RefreshEvery < Hold
  /\ AliveMax + 1 + (RefreshEvery + 1) * Cardinality(Commands) < Idle

Ended     == {k \in Commands : command[k] = "done"}
Window(n) == (RefreshEvery + 1) * n

\* The hold lasts until the next refresh by k.
Kept(k) == keep + refreshed[k] > RefreshEvery

\* A period in which the publisher has not marked k yet; one that has died never will.
Unmarked(k) == IF pub = "dead" THEN alive + 1
               ELSE IF ~ran /\ (pub = "idle" \/ k \in met) THEN 1 ELSE 0
Stale == IF pub = "dead" THEN alive + 1 ELSE 1

Late(k) == LET n == Cardinality(Ended)
           IN  IF Kept(k) THEN busy <= Window(n + 1) + Unmarked(k)
                          ELSE busy <= Window(n) + refreshed[k] + Stale

\* The publisher knows of commands that run in a guest that is up, and will mark those
\* that it has seen.
KnownInv ==
  /\ vouched # {} => Up
  /\ \A k \in (vouched \cup met) \cap Commands : command[k] = "running"
  /\ pub = "looked" /\ met \cap Commands # {} => mark

LateInv == \A k \in vouched \cap Commands : Late(k)
HoldInv == KnownInv /\ LateInv /\ CommandsAreSpared

LEMMA Windows ==
  /\ \A n \in Nat : Window(n) \in Nat /\ Window(n + 1) = Window(n) + RefreshEvery + 1
  /\ \A m, n \in Nat : m <= n => Window(m) <= Window(n)
<1>1. \A n \in Nat : Window(n) \in Nat /\ Window(n + 1) = Window(n) + RefreshEvery + 1
  BY Periods DEF Window
<1>2. ASSUME NEW m \in Nat, NEW n \in Nat, m <= n PROVE Window(m) <= Window(n)
  <2>1. PICK d \in Nat : n = m + d
    <3>1. n - m \in Nat /\ n = m + (n - m)
      BY <1>2
    <3> QED BY <3>1
  <2>2. (RefreshEvery + 1) * n = (RefreshEvery + 1) * m + (RefreshEvery + 1) * d
    BY <2>1, Periods
  <2>3. (RefreshEvery + 1) * d \in Nat /\ (RefreshEvery + 1) * m \in Nat
    BY Periods
  <2> QED BY <2>2, <2>3 DEF Window
<1> QED BY <1>1, <1>2

LEMMA EndedFinite ==
  ASSUME FewCommands
  PROVE  /\ IsFiniteSet(Ended) /\ Cardinality(Ended) \in Nat
         /\ \A k \in Commands : command[k] = "running" =>
              Cardinality(Ended) + 1 <= Cardinality(Commands)
<1>1. IsFiniteSet(Commands) /\ Ended \subseteq Commands
  BY DEF FewCommands, Ended
<1>2. IsFiniteSet(Ended) /\ Cardinality(Ended) \in Nat
  BY <1>1, FS_Subset, FS_CardinalityType
<1>3. ASSUME NEW k \in Commands, command[k] = "running"
      PROVE  Cardinality(Ended) + 1 <= Cardinality(Commands)
  <2>1. k \notin Ended /\ Ended \cup {k} \subseteq Commands
    BY <1>1, <1>3 DEF Ended
  <2>2. Cardinality(Ended \cup {k}) = Cardinality(Ended) + 1
    BY <1>2, <2>1, FS_AddElement
  <2> QED BY <1>1, <2>1, <2>2, FS_Subset
<1> QED BY <1>2, <1>3

LEMMA SomeWindow ==
  ASSUME FewCommands
  PROVE  LET n == Cardinality(Ended)
         IN  /\ n \in Nat /\ Window(n) \in Nat /\ Window(n + 1) \in Nat
             /\ Window(n + 1) = Window(n) + RefreshEvery + 1
<1> DEFINE n == Cardinality(Ended)
<1>1. n \in Nat
  BY EndedFinite
<1>2. Window(n) \in Nat /\ Window(n + 1) = Window(n) + RefreshEvery + 1
  BY <1>1, Windows
<1>3. n + 1 \in Nat
  BY <1>1
<1>4. Window(n + 1) \in Nat
  BY <1>3, Windows
<1> QED BY <1>1, <1>2, <1>4

--------------------------------------------------------------------------------
\* Steps by what they do to markers, holds and what the publisher knows: most do nothing;
\* a boot ends every command; a wake takes the hold; an idle stop strikes.
Aloof ==
  /\ UNCHANGED <<alive, busy, keep, pub, mark, ran, held, hit>>
  /\ vouched' \subseteq vouched /\ met' \subseteq met /\ met \cap Commands \subseteq met'
  /\ vouched' # {} => Up'
Booted ==
  /\ hit' = hit /\ vouched' = {} /\ met' = {}
Taken ==
  /\ keep' = Hold
  /\ UNCHANGED <<alive, busy, pub, mark, ran, held, hit, dom, guest, vouched, met>>
Struck ==
  /\ Strike /\ stop = "locked" /\ StillIdle
  /\ UNCHANGED <<markers, pub, mark, ran, held>>
Kinds == \/ Aloof \/ Booted \/ Taken \/ Struck \/ Publishing \/ Tick
         \/ \E k \in Commands : InCommand(k)

LEMMA StartKinds ==
  ASSUME TypeOK, KnownInv, ByState \/ StartDomain, dom # "running", UNCHANGED <<markers, vouched, hit>>
  PROVE  Aloof \/ Booted
<1>1. vouched = {}
  BY DEF KnownInv, Up, Running
<1>2. CASE Boot
  BY <1>1, <1>2 DEF Boot, Booted
<1>3. CASE Continue
  BY <1>1, <1>3 DEF Continue, Aloof
<1> QED BY <1>2, <1>3 DEF ByState, StartDomain

LEMMA WakeKinds == ASSUME TypeOK, KnownInv, NEW c \in Clients, Wake(c) PROVE Kinds
<1> USE DEF Aside, Elsewhere
<1>1. CASE UNCHANGED <<dom, guest, markers, publish, held, vouched, hit>>
  BY <1>1 DEF Kinds, Aloof, KnownInv, Up, Running
<1>2. CASE Look(c) \/ TakeLock(c) \/ LookAgain(c) \/ Refuse(c) \/ WaitForSsh(c) \/ Nc(c) \/ Kill(c)
  BY <1>1, <1>2 DEF Look, TakeLock, LookAgain, Refuse, WaitForSsh, Nc, Kill, Die
<1>3. CASE Start(c)
  <2>1. CASE ByState
    <3>1. dom # "running" /\ UNCHANGED <<markers, vouched, hit>>
      BY <1>3, <2>1 DEF ByState, Start
    <3> QED BY <2>1, <3>1, StartKinds DEF Kinds
  <2>2. CASE UNCHANGED <<dom, guest, publish, held>>
    BY <1>1, <1>3, <2>2 DEF Start
  <2> QED BY <1>3, <2>1, <2>2 DEF Start
<1>4. CASE AfterShutdown(c)
  <2>1. CASE dom = "shut off"
    <3>1. StartDomain /\ UNCHANGED <<markers, vouched, hit>>
      BY <1>4, <2>1 DEF AfterShutdown
    <3> QED BY <2>1, <3>1, StartKinds DEF Kinds
  <2>2. CASE dom # "shut off"
    BY <1>1, <1>4, <2>2 DEF AfterShutdown, Die
  <2> QED BY <2>1, <2>2
<1>5. CASE Keepalive(c)
  BY <1>5 DEF Keepalive, Kinds, Taken
<1>6. CASE Disconnect(c)
  <2>1. UNCHANGED <<dom, guest, markers, pub, mark, ran, held, hit>>
    BY <1>6 DEF Disconnect
  <2>2. c \notin Commands
    BY VmOK
  <2>3. vouched' = vouched \ {c} /\ met' = met \ {c}
    BY <1>6 DEF Disconnect
  <2>4. Up' <=> Up
    BY <2>1 DEF Up, Running
  <2> QED BY <2>1, <2>2, <2>3, <2>4 DEF Kinds, Aloof, KnownInv
<1> QED BY <1>2, <1>3, <1>4, <1>5, <1>6 DEF Wake, WakeStep

LEMMA StepKinds ==
  ASSUME TypeOK, KnownInv, HostInv, [Next]_vars PROVE Kinds
<1>1. CASE UNCHANGED <<dom, guest, markers, publish, held, vouched, hit>>
  BY <1>1 DEF Kinds, Aloof, KnownInv, Up, Running
<1>2. CASE Check \/ AskLock \/ BackOff \/ UNCHANGED vars
  BY <1>1, <1>2 DEF Check, CheckDown, CheckSilent, CheckStale, CheckIdle, AskLock, BackOff, Unmoved, vars
<1>3. CASE Save \/ ShutDown
  BY <1>3 DEF Save, ShutDown, Kinds, Struck
<1>4. ASSUME UNCHANGED <<markers, publish, held, vouched, hit>>, ~Up \/ Up' PROVE Kinds
  BY <1>4 DEF Kinds, Aloof, KnownInv
<1>5. CASE Saved \/ SaveFails
  <2>1. stop = "saving" /\ UNCHANGED <<markers, publish, held, vouched, hit>>
    BY <1>5 DEF Saved, SaveFails
  <2>2. ~Up
    BY <2>1 DEF HostInv, Up, Running
  <2> QED BY <1>4, <2>1, <2>2
<1>6. CASE BootDone \/ PowersOff
  <2>1. ~Up /\ UNCHANGED <<markers, publish, held, vouched, hit>>
    BY <1>6 DEF BootDone, PowersOff, Up, Running
  <2> QED BY <1>4, <2>1
<1>7. CASE Crash \/ JustDown
  <2>1. Cut /\ UNCHANGED <<markers, pub, mark, ran, held, hit>>
    BY <1>7 DEF Crash, JustDown
  <2>2. Connected \cap Commands = {}
    BY VmOK DEF Connected
  <2> QED BY <2>1, <2>2 DEF Cut, Kinds, Aloof
<1>8. CASE JustUp
  <2>1. ByState /\ dom # "running" /\ UNCHANGED <<markers, vouched, hit>>
    BY <1>8 DEF JustUp, ByState, Aside
  <2> QED BY <2>1, StartKinds DEF Kinds
<1>9. CASE \E c \in Clients : Wake(c)
  BY <1>9, WakeKinds
<1> QED BY <1>2, <1>3, <1>5, <1>6, <1>7, <1>8, <1>9 DEF Next, Stopping, Kinds

--------------------------------------------------------------------------------
LEMMA CmdTypes ==
  ASSUME TypeOK
  PROVE  /\ alive \in Nat /\ busy \in Nat /\ keep \in Nat /\ busy <= Bound + 1
         /\ \A k \in Commands : refreshed[k] \in Nat /\ refreshed[k] <= RefreshEvery
BY Periods DEF TypeOK, MarkersOK, HeldOK, Ages, Absent

LEMMA KnownStays ==
  ASSUME TypeOK, KnownInv, Kinds PROVE KnownInv'
<1> USE DEF KnownInv
<1>1. CASE Aloof
  BY <1>1 DEF Aloof
<1>2. CASE Booted
  BY <1>2 DEF Booted
<1>3. CASE Taken
  BY <1>3 DEF Taken, Up, Running
<1>4. CASE Struck
  <2>1. Connected \cap Commands = {}
    BY VmOK DEF Connected
  <2> QED BY <1>4, <2>1 DEF Struck, Strike, Cut
<1>5. CASE PublishLook
  <2>1. \A k \in Connected \cup Inside : k \in Commands => command[k] = "running" /\ k \in Inside
    BY VmOK DEF Inside, Connected
  <2>2. Connected \cap Commands = {}
    BY VmOK DEF Connected
  <2>3. /\ met' = Connected \cup (IF keep > 0 THEN Inside ELSE {})
        /\ mark' = (keep > 0 \/ Connected # {})
        /\ UNCHANGED <<vouched, command, dom, guest>>
    BY <1>5 DEF PublishLook
  <2> QED BY <2>1, <2>2, <2>3 DEF Up, Running
<1>6. CASE PublishMark \/ PublishBreaks \/ PublishDies
  BY <1>6 DEF PublishMark, PublishBreaks, PublishDies, Up, Running
<1>7. CASE Tick
  BY <1>7 DEF Tick, Up, Running
<1>8. ASSUME NEW k \in Commands, CommandStarts(k) \/ Refresh(k) PROVE KnownInv'
  <2>1. /\ UNCHANGED <<vouched, met, pub, mark, dom, guest>>
        /\ \A j \in Commands : command[j] = "running" => command'[j] = "running"
    BY <1>8 DEF CommandStarts, Refresh, TypeOK, HeldOK
  <2> QED BY <2>1 DEF Up, Running
<1>9. ASSUME NEW k \in Commands, CommandEnds(k) PROVE KnownInv'
  <2>1. /\ UNCHANGED <<pub, mark, dom, guest>> /\ vouched' = vouched \ {k} /\ met' = met \ {k}
        /\ \A j \in Commands : j # k => command'[j] = command[j]
    BY <1>9 DEF CommandEnds, TypeOK, HeldOK
  <2> QED BY <2>1 DEF Up, Running
<1> QED BY <1>1, <1>2, <1>3, <1>4, <1>5, <1>6, <1>7, <1>8, <1>9 DEF Kinds, Publishing, InCommand

\* A hold that is taken again, and nothing else, makes nobody later.
LEMMA TakenLate ==
  ASSUME TypeOK, FewCommands, NEW k \in Commands, Late(k), keep' > RefreshEvery, keep' \in Nat,
         UNCHANGED <<alive, busy, pub, ran, met>>, Ended' = Ended,
         refreshed'[k] \in {refreshed[k], 0}
  PROVE  Late(k)'
<1> DEFINE n == Cardinality(Ended)
<1>1. n \in Nat /\ Window(n) \in Nat /\ Window(n + 1) = Window(n) + RefreshEvery + 1
  BY SomeWindow
<1>2. Kept(k)'
  BY CmdTypes, Periods DEF Kept
<1>3. Unmarked(k)' = Unmarked(k) /\ Unmarked(k) \in Nat /\ Stale <= Unmarked(k) + 1
  BY CmdTypes DEF Unmarked, Stale
<1>4. busy <= Window(n + 1) + Unmarked(k)
  <2>1. CASE Kept(k)
    BY <2>1 DEF Late
  <2>2. CASE ~Kept(k)
    <3>1. busy <= Window(n) + refreshed[k] + Stale
      BY <2>2 DEF Late
    <3>2. Stale \in Nat
      BY CmdTypes DEF Stale
    <3> QED BY <1>1, <1>3, <3>1, <3>2, CmdTypes, Periods
  <2> QED BY <2>1, <2>2
<1> QED BY <1>2, <1>3, <1>4 DEF Late

\* An end costs a window.
LEMMA RobbedLate ==
  ASSUME TypeOK, FewCommands, NEW k \in Commands, NEW j \in Commands, j # k, Late(k), keep' = 0,
         command[j] = "running", command' = [command EXCEPT ![j] = "done"],
         UNCHANGED <<alive, busy, pub, ran, refreshed>>, met' = met \ {j}
  PROVE  Late(k)'
<1> DEFINE n == Cardinality(Ended)
<1>1. n \in Nat /\ Window(n) \in Nat /\ Window(n + 1) = Window(n) + RefreshEvery + 1
  BY SomeWindow
<1>2. Ended' = Ended \cup {j} /\ j \notin Ended
  BY DEF Ended, TypeOK, HeldOK
<1>3. Cardinality(Ended') = n + 1
  BY <1>2, EndedFinite, FS_AddElement
<1>4. ~Kept(k)'
  BY CmdTypes, Periods DEF Kept
<1>5. /\ Unmarked(k) \in Nat /\ Unmarked(k) <= Stale /\ Stale \in Nat /\ Stale' = Stale
      /\ refreshed[k] \in Nat /\ busy \in Nat
  BY CmdTypes DEF Unmarked, Stale
<1>6. busy <= Window(n + 1) + refreshed[k] + Stale
  <2>1. CASE Kept(k)
    <3>1. busy <= Window(n + 1) + Unmarked(k)
      BY <2>1 DEF Late
    <3> QED BY <1>1, <1>5, <3>1, Periods
  <2>2. CASE ~Kept(k)
    <3>1. busy <= Window(n) + refreshed[k] + Stale
      BY <2>2 DEF Late
    <3> QED BY <1>1, <1>5, <3>1, Periods
  <2> QED BY <2>1, <2>2
<1>7. busy' = busy /\ refreshed'[k] = refreshed[k]
  OBVIOUS
<1> QED BY <1>3, <1>4, <1>5, <1>6, <1>7 DEF Late

\* What a period adds to `busy`, it adds to what `busy` may be.
LEMMA TickLate ==
  ASSUME TypeOK, FewCommands, NEW k \in Commands, Late(k), Tick, Up, command[k] = "running"
  PROVE  Late(k)'
<1> DEFINE n == Cardinality(Ended)
<1>1. n \in Nat /\ Window(n) \in Nat /\ Window(n + 1) = Window(n) + RefreshEvery + 1
  BY SomeWindow
<1>2. /\ Ended' = Ended /\ pub' = pub /\ met' = met /\ ran' = FALSE
      /\ alive' = Older(alive) /\ busy' = Older(busy)
      /\ keep' = IF keep > 0 THEN keep - 1 ELSE 0
      /\ refreshed'[k] = refreshed[k] + 1 /\ refreshed[k] < RefreshEvery
      /\ pub = "dead" \/ (pub = "idle" /\ ran)
  BY DEF Tick, Ended
<1>3. /\ busy \in Nat /\ alive \in Nat /\ keep \in Nat /\ refreshed[k] \in Nat
      /\ busy <= Bound + 1 /\ RefreshEvery \in Nat /\ Bound \in Nat
  BY CmdTypes, Periods
<1>4. Kept(k)' <=> Kept(k)
  BY <1>2, <1>3 DEF Kept
<1>5. busy' <= busy + 1 /\ (busy' <= alive' + 1 \/ alive' = alive + 1)
  BY <1>2, <1>3 DEF Older
<1>6. CASE Kept(k)
  <2>1. busy <= Window(n + 1) + Unmarked(k)
    BY <1>6 DEF Late
  <2>2. busy' <= Window(n + 1) + Unmarked(k)'
    <3>1. CASE pub = "dead"
      BY <1>1, <1>2, <1>3, <1>5, <2>1, <3>1 DEF Unmarked, Older
    <3>2. CASE pub # "dead"
      BY <1>1, <1>2, <1>3, <1>5, <2>1, <3>2 DEF Unmarked, Older
    <3> QED BY <3>1, <3>2
  <2> QED BY <1>2, <1>4, <1>6, <2>2 DEF Late
<1>7. CASE ~Kept(k)
  <2>1. busy <= Window(n) + refreshed[k] + Stale
    BY <1>7 DEF Late
  <2>2. busy' <= Window(n) + refreshed'[k] + Stale'
    BY <1>1, <1>2, <1>3, <1>5, <2>1 DEF Stale, Older
  <2> QED BY <1>2, <1>4, <1>7, <2>2 DEF Late
<1> QED BY <1>6, <1>7

LEMMA SamePlace ==
  ASSUME NEW k \in Commands, Late(k), UNCHANGED <<alive, keep, pub, ran, held>>, busy' = busy,
         k \in met <=> k \in met'
  PROVE  Late(k)'
BY DEF Late, Kept, Unmarked, Stale, Ended

LEMMA MarkedLate ==
  ASSUME TypeOK, FewCommands, NEW k \in Commands, busy' = 0,
         UNCHANGED <<alive, keep, held>>
  PROVE  Late(k)'
<1> DEFINE n == Cardinality(Ended)
<1>1. n \in Nat /\ Window(n) \in Nat /\ Window(n + 1) = Window(n) + RefreshEvery + 1
  BY SomeWindow
<1>2. Ended' = Ended /\ refreshed'[k] \in Nat /\ RefreshEvery \in Nat
  BY CmdTypes, Periods DEF Ended
<1>3. Unmarked(k)' \in Nat /\ Stale' \in Nat
  BY CmdTypes DEF Unmarked, Stale
<1> QED BY <1>1, <1>2, <1>3 DEF Late

LEMMA PublishLate ==
  ASSUME TypeOK, FewCommands, KnownInv, LateInv, Publishing, NEW k \in vouched' \cap Commands
  PROVE  Late(k)'
<1> DEFINE n == Cardinality(Ended)
<1>0. n \in Nat /\ Window(n) \in Nat /\ Window(n + 1) \in Nat
  BY SomeWindow
<1> USE CmdTypes
<1>1. CASE PublishLook
  <2>1. /\ k \in vouched /\ command[k] = "running" /\ pub = "idle" /\ ~ran
        /\ pub' = "looked" /\ ran' = ran
        /\ UNCHANGED <<busy, keep, held>> /\ Ended' = Ended
        /\ met' = Connected \cup (IF keep > 0 THEN Inside ELSE {})
    BY <1>1 DEF PublishLook, KnownInv, Ended
  <2>2. Late(k) /\ k \in Inside
    BY <2>1 DEF LateInv, Inside
  <2>3. Kept(k) => k \in met'
    BY <2>1, <2>2, Periods DEF Kept
  <2>4. Unmarked(k) = 1 /\ Stale = 1 /\ Stale' = 1
    BY <2>1 DEF Unmarked, Stale
  <2>5. Kept(k) => Unmarked(k)' = 1
    BY <2>1, <2>3 DEF Unmarked
  <2> QED BY <2>1, <2>2, <2>4, <2>5 DEF Late, Kept
<1>2. CASE (PublishMark \/ PublishBreaks) /\ k \notin met
  <2>1. /\ k \in vouched /\ busy' \in {0, busy} /\ UNCHANGED <<alive, keep, held>>
        /\ pub = "looked" /\ pub' = "idle" /\ ran' = TRUE
    BY <1>2 DEF PublishMark, PublishBreaks
  <2>2. Late(k) /\ Ended' = Ended
    BY <2>1 DEF LateInv, Ended
  <2>3. Unmarked(k) = 0 /\ Unmarked(k)' = 0 /\ Stale = 1 /\ Stale' = 1
    BY <1>2, <2>1 DEF Unmarked, Stale
  <2>4. CASE busy' = 0
    BY <2>1, <2>4, MarkedLate
  <2>5. CASE busy' = busy
    BY <2>1, <2>2, <2>3, <2>5 DEF Late, Kept
  <2> QED BY <2>1, <2>4, <2>5
<1>3. CASE (PublishMark \/ PublishBreaks) /\ k \in met
  <2>1. PublishMark
    BY <1>3 DEF PublishBreaks
  <2>2. mark /\ UNCHANGED <<alive, keep, held>>
    BY <1>3, <2>1 DEF PublishMark, KnownInv
  <2> QED BY <2>1, <2>2, MarkedLate DEF PublishMark
<1>4. CASE PublishDies
  <2>1. /\ k \in vouched /\ pub # "dead" /\ pub' = "dead" /\ UNCHANGED <<alive, busy, keep, held>>
        /\ Ended' = Ended
    BY <1>4 DEF PublishDies, Ended
  <2>2. Unmarked(k) \in {0, 1} /\ Unmarked(k)' = alive + 1 /\ Stale = 1 /\ Stale' = alive + 1
    BY <2>1 DEF Unmarked, Stale
  <2>3. Late(k) /\ (Kept(k)' <=> Kept(k)) /\ refreshed[k] \in Nat
    BY <2>1 DEF LateInv, Kept
  <2>4. CASE Kept(k)
    BY <1>0, <2>1, <2>2, <2>3, <2>4 DEF Late
  <2>5. CASE ~Kept(k)
    BY <1>0, <2>1, <2>2, <2>3, <2>5 DEF Late
  <2> QED BY <2>4, <2>5
<1> QED BY <1>1, <1>2, <1>3, <1>4 DEF Publishing

LEMMA CommandLate ==
  ASSUME TypeOK, FewCommands, KnownInv, LateInv, NEW j \in Commands, InCommand(j),
         NEW k \in vouched' \cap Commands
  PROVE  Late(k)'
<1>1. CASE CommandStarts(j) \/ Refresh(j)
  <2>1. /\ k \in vouched /\ keep' = CmdHold /\ UNCHANGED <<alive, busy, pub, ran, met>>
        /\ refreshed' = [refreshed EXCEPT ![j] = 0]
    BY <1>1 DEF CommandStarts, Refresh
  <2>2. Ended' = Ended /\ refreshed'[k] \in {refreshed[k], 0}
    BY <1>1, <2>1 DEF CommandStarts, Refresh, Ended, TypeOK, HeldOK
  <2>3. CmdHold \in Nat /\ CmdHold > RefreshEvery
    BY VmOK, Periods
  <2> QED BY <2>1, <2>2, <2>3, TakenLate DEF LateInv
<1>2. CASE CommandEnds(j)
  <2>1. k \in vouched /\ k # j
    BY <1>2 DEF CommandEnds
  <2> QED BY <1>2, <2>1, RobbedLate DEF CommandEnds, LateInv
<1> QED BY <1>1, <1>2 DEF InCommand

LEMMA LateStays ==
  ASSUME TypeOK, FewCommands, KnownInv, LateInv, Kinds PROVE LateInv'
<1> SUFFICES ASSUME NEW k \in vouched' \cap Commands PROVE Late(k)'
  BY DEF LateInv
<1>1. CASE Aloof
  BY <1>1, SamePlace DEF Aloof, LateInv
<1>2. CASE Booted \/ Struck
  BY <1>2 DEF Booted, Struck, Strike, Cut
<1>3. CASE Taken
  <2>1. Ended' = Ended /\ Hold \in Nat /\ Hold > RefreshEvery
    BY <1>3, Periods DEF Taken, Ended, FewCommands
  <2> QED BY <1>3, <2>1, TakenLate DEF Taken, LateInv
<1>4. CASE Publishing
  BY <1>4, PublishLate
<1>5. CASE \E j \in Commands : InCommand(j)
  BY <1>5, CommandLate
<1>6. CASE Tick
  BY <1>6, TickLate DEF Tick, KnownInv, LateInv
<1> QED BY <1>1, <1>2, <1>3, <1>4, <1>5, <1>6 DEF Kinds

\* Whoever is late is not late enough to be struck.
LEMMA NotIdle ==
  ASSUME TypeOK, FewCommands, NEW k \in Commands, command[k] = "running", Late(k),
         alive <= AliveMax
  PROVE  busy < Idle
<1> DEFINE n == Cardinality(Ended)
           m == Cardinality(Commands)
<1>1. n \in Nat /\ Window(n) \in Nat /\ Window(n + 1) = Window(n) + RefreshEvery + 1
  BY SomeWindow
<1>2. m \in Nat /\ n + 1 <= m
  BY EndedFinite, FS_CardinalityType DEF FewCommands
<1>3. Window(n + 1) <= Window(m)
  BY <1>1, <1>2, Windows
<1>4. /\ alive \in Nat /\ busy \in Nat /\ refreshed[k] \in Nat /\ refreshed[k] <= RefreshEvery
      /\ AliveMax \in Nat /\ RefreshEvery \in Nat /\ Idle \in Nat /\ Window(m) \in Nat
  BY <1>2, CmdTypes, Periods, Windows
<1>5. Unmarked(k) <= alive + 1 /\ Stale <= alive + 1 /\ Unmarked(k) \in Nat /\ Stale \in Nat
  BY <1>4 DEF Unmarked, Stale
<1>6. busy <= Window(n + 1) + alive + 1
  <2>1. CASE Kept(k)
    <3>1. busy <= Window(n + 1) + Unmarked(k)
      BY <2>1 DEF Late
    <3> QED BY <1>1, <1>4, <1>5, <3>1
  <2>2. CASE ~Kept(k)
    <3>1. busy <= Window(n) + refreshed[k] + Stale
      BY <2>2 DEF Late
    <3> QED BY <1>1, <1>4, <1>5, <3>1
  <2> QED BY <2>1, <2>2
<1>7. AliveMax + 1 + Window(m) < Idle
  BY DEF FewCommands, Window
<1>8. Window(n + 1) \in Nat
  BY <1>1, <1>4
<1> QED BY <1>3, <1>4, <1>6, <1>7, <1>8

LEMMA StrikeSpares ==
  ASSUME TypeOK, FewCommands, KnownInv, LateInv, HostInv, CommandsAreSpared, Kinds
  PROVE  CommandsAreSpared'
<1>1. CASE Struck
  <2>1. hit'.seen = Inside \cap vouched
    BY <1>1 DEF Struck, Strike
  <2>2. alive <= AliveMax /\ busy >= Idle
    BY <1>1 DEF Struck, StillIdle, HostInv
  <2>3. ASSUME NEW k \in Inside \cap vouched \cap Commands PROVE FALSE
    <3>1. command[k] = "running" /\ Late(k)
      BY <2>3 DEF KnownInv, LateInv
    <3>2. busy < Idle
      BY <2>2, <3>1, NotIdle
    <3> QED BY <2>2, <3>2, CmdTypes, Periods
  <2> QED BY <2>1, <2>3 DEF CommandsAreSpared
<1>2. CASE hit' = hit
  BY <1>2 DEF CommandsAreSpared
<1> QED BY <1>1, <1>2 DEF Kinds, Aloof, Booted, Taken, Publishing, PublishLook, PublishMark,
       PublishBreaks, PublishDies, Tick, InCommand, CommandStarts, Refresh, CommandEnds

\* A command under uibox-keepalive that the publisher has met is never cut off by an idle
\* stop, although any other command that ends removes the hold they share, and whatever
\* breaks, dies or is restored, as long as no more commands are run than idle.minutes allow.
THEOREM HeldCommandsAreSpared == FewCommands => (Spec => []CommandsAreSpared)
<1> SUFFICES ASSUME FewCommands PROVE Spec => []CommandsAreSpared
  OBVIOUS
<1>1. Init => HoldInv
  <2> SUFFICES ASSUME Init PROVE HoldInv
    OBVIOUS
  <2>1. vouched = {} /\ met = {} /\ hit.seen = {}
    BY DEF Init
  <2> QED BY <2>1 DEF HoldInv, KnownInv, LateInv, CommandsAreSpared
<1>2. TypeOK /\ HostInv /\ HoldInv /\ [Next]_vars => HoldInv'
  BY StepKinds, KnownStays, LateStays, StrikeSpares DEF HoldInv
<1>3. SparedInv => HostInv
  BY DEF SparedInv
<1>4. HoldInv => CommandsAreSpared
  BY DEF HoldInv
<1> QED BY <1>1, <1>2, <1>3, <1>4, LabTyped, SparedAlways, PTL DEF Spec
================================================================================
