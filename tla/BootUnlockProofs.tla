--------------------------- MODULE BootUnlockProofs ---------------------------
(***************************************************************************)
(* Theorems about BootUnlock for any number of operators, any --retry and   *)
(* any number of faults, under Pebble and under systemd.                    *)
(***************************************************************************)
EXTENDS BootUnlock, TLAPS

LEMMA InitInv == Init => BootInv
<1> SUFFICES ASSUME Init PROVE BootInv
  OBVIOUS
<1>1. TypeOK
  <2>1. 0 \in 0..Patience /\ 0 \in 0..MaxFaults
    BY BootNumbers
  <2> QED BY <2>1 DEF Init, TypeOK, Units
<1>2. pc[Service] = "idle" /\ unit = "enabled"
  BY DEF Init, Run
<1>3. ServiceFollowed /\ RestMeansOpen
  BY <1>2 DEF ServiceFollowed, RestMeansOpen, Calls
<1>4. WaitsOfServiceOnly
  BY DEF Init, WaitsOfServiceOnly
<1> QED BY <1>1, <1>3, <1>4 DEF BootInv

\* What a supervisor does with an exit: it lets a success rest, Pebble backs off
\* from everything else, and systemd leaves it.
LEMMA AfterExits ==
  ASSUME NEW end \in Ends
  PROVE  /\ AfterExit(end) \in Units \ {"enabled", "running"}
         /\ AfterExit(end) = "done" <=> end = "ok"
         /\ AfterExit(end) = "backoff" => Supervisor = "pebble"
         /\ AfterExit(end) = "failed" => Supervisor = "systemd"
BY SupervisorKnown DEF AfterExit, PebbleAfterExit, SystemdAfterExit, Units, Ends

-----------------------------------------------------------------------------
(* The invariant, one lemma for each kind of step. *)

\* A run makes its next call: its supervisor sees nothing of it.
LEMMA GotoStep ==
  ASSUME BootInv, NEW r \in Run, NEW call \in Calls,
         pc[r] \in Calls \/ r \in Operator, Goto(r, call),
         left' \in [Run -> 0..Patience],
         \A s \in Run : left'[s] > 0 => left[s] > 0,
         UNCHANGED <<vault, attached, mapper, faults>>
  PROVE  BootInv'
<1>1. pc' \in [Run -> {"idle"} \cup Calls \cup Ends] /\ pc'[r] = call /\ UNCHANGED unit
      /\ \A s \in Run \ {r} : pc'[s] = pc[s]
  BY DEF BootInv, TypeOK, Goto
<1>2. TypeOK'
  BY <1>1 DEF BootInv, TypeOK
<1>3. ServiceFollowed'
  <2>1. CASE r = Service
    BY <1>1, <2>1, ServiceApart DEF BootInv, ServiceFollowed, Calls
  <2>2. CASE r # Service
    BY <1>1, <2>2 DEF BootInv, ServiceFollowed, Run
  <2> QED BY <2>1, <2>2
<1>4. WaitsOfServiceOnly' /\ RestMeansOpen'
  BY <1>1 DEF BootInv, WaitsOfServiceOnly, RestMeansOpen
<1> QED BY <1>2, <1>3, <1>4 DEF BootInv

\* A run ends, with 0 only if the device is open.
LEMMA EndStep ==
  ASSUME BootInv, NEW r \in Run, NEW end \in Ends, pc[r] \in Calls, End(r, end),
         left' \in [Run -> 0..Patience],
         \A s \in Run : left'[s] > 0 => left[s] > 0,
         mapper' \in BOOLEAN, mapper => mapper', end = "ok" => mapper',
         faults' \in 0..MaxFaults,
         UNCHANGED <<vault, attached>>
  PROVE  BootInv'
<1>1. pc' \in [Run -> {"idle"} \cup Calls \cup Ends] /\ pc'[r] = end
      /\ \A s \in Run \ {r} : pc'[s] = pc[s]
  BY DEF BootInv, TypeOK, End
<1>2. unit' = IF r = Service THEN AfterExit(end) ELSE unit
  BY DEF End
<1>3. TypeOK'
  BY <1>1, <1>2, AfterExits DEF BootInv, TypeOK
<1>4. ServiceFollowed'
  <2>1. CASE r = Service
    <3>1. end # "idle" /\ end \notin Calls
      BY DEF Ends, Calls
    <3>2. AfterExit(end) \notin {"enabled", "running"}
      BY AfterExits
    <3> QED BY <1>1, <1>2, <2>1, <3>1, <3>2, AfterExits DEF ServiceFollowed
  <2>2. CASE r # Service
    BY <1>1, <1>2, <2>2 DEF BootInv, ServiceFollowed, Run
  <2> QED BY <2>1, <2>2
<1>5. WaitsOfServiceOnly'
  <2>1. unit' = "enabled" => unit = "enabled"
    BY <1>2, AfterExits
  <2> QED BY <2>1 DEF BootInv, WaitsOfServiceOnly
<1>6. RestMeansOpen'
  BY <1>2, AfterExits DEF BootInv, RestMeansOpen
<1> QED BY <1>3, <1>4, <1>5, <1>6 DEF BootInv

\* The service is started, whatever became of it before.
LEMMA LaunchStep ==
  ASSUME BootInv, Launch, faults' \in 0..MaxFaults, UNCHANGED <<vault, attached, mapper>>
  PROVE  BootInv'
<1>1. /\ unit' = "running" /\ pc'[Service] = "login"
      /\ pc' \in [Run -> {"idle"} \cup Calls \cup Ends]
      /\ left' \in [Run -> 0..Patience]
      /\ \A r \in Run \ {Service} : left'[r] = left[r]
  BY BootNumbers DEF Launch, BootInv, TypeOK, Calls, Run
<1> QED BY <1>1 DEF BootInv, TypeOK, Units, ServiceFollowed, Calls,
                    WaitsOfServiceOnly, RestMeansOpen

LEMMA NextInv == BootInv /\ [Next]_vars => BootInv'
<1> SUFFICES ASSUME BootInv, [Next]_vars PROVE BootInv'
  OBVIOUS
<1> USE DEF BootInv
<1>t. /\ left \in [Run -> 0..Patience] /\ faults \in 0..MaxFaults /\ mapper \in BOOLEAN
      /\ Operator \subseteq Run /\ Patience \in Nat
  BY BootNumbers DEF TypeOK, Run
<1>1. ASSUME NEW r \in Operator, Start(r) PROVE BootInv'
  BY <1>1, <1>t, GotoStep DEF Start, Calls
<1>2. ASSUME NEW r \in Run, Login(r) PROVE BootInv'
  BY <1>2, <1>t, GotoStep DEF Login, Calls
<1>3. ASSUME NEW r \in Run, Sealed(r) PROVE BootInv'
  <2>1. PICK time \in 0..left[r] :
          \/ time = 0 /\ End(r, "handled") /\ left' = [left EXCEPT ![r] = 0]
          \/ time > 0 /\ Goto(r, "login") /\ left' = [left EXCEPT ![r] = time - 1]
    BY <1>3 DEF Sealed
  <2>2. /\ left' \in [Run -> 0..Patience]
        /\ \A s \in Run : left'[s] > 0 => left[s] > 0
    BY <2>1, <1>t
  <2>3. pc[r] \in Calls /\ UNCHANGED <<vault, attached, mapper, faults>>
    BY <1>3 DEF Sealed, Calls
  <2> QED BY <2>1, <2>2, <2>3, <1>t, GotoStep, EndStep DEF Calls, Ends
<1>4. ASSUME NEW r \in Run, Refused(r) PROVE BootInv'
  BY <1>4, <1>t, EndStep DEF Refused, Calls, Ends
<1>5. ASSUME NEW r \in Run, Exists(r) PROVE BootInv'
  BY <1>5, <1>t, EndStep, GotoStep DEF Exists, Calls, Ends
<1>6. ASSUME NEW r \in Run, Read(r) PROVE BootInv'
  BY <1>6, <1>t, GotoStep DEF Read, Calls
<1>7. ASSUME NEW r \in Run, Open(r) PROVE BootInv'
  <2>1. mapper' \in BOOLEAN /\ (mapper => mapper')
    BY <1>7, <1>t DEF Open
  <2> QED BY <1>7, <1>t, <2>1, EndStep DEF Open, Calls, Ends
<1>8. ASSUME NEW r \in Run, OpenLate(r) PROVE BootInv'
  <2>1. faults' \in 0..MaxFaults
    BY <1>8, <1>t, BootNumbers DEF OpenLate, Fault
  <2> QED BY <1>8, <1>t, <2>1, EndStep DEF OpenLate, Calls, Ends
<1>9. ASSUME NEW r \in Run, Kill(r) PROVE BootInv'
  <2>1. faults' \in 0..MaxFaults
    BY <1>9, <1>t, BootNumbers DEF Kill, Fault
  <2> QED BY <1>9, <1>t, <2>1, EndStep DEF Kill, Ends
<1>10. CASE StartUnit \/ Restart
  BY <1>10, <1>t, LaunchStep DEF StartUnit, Restart
<1>11. CASE Replan
  <2>1. faults' \in 0..MaxFaults
    BY <1>11, <1>t, BootNumbers DEF Replan, Fault
  <2> QED BY <1>11, <2>1, LaunchStep DEF Replan
<1>12. CASE Reboot
  <2>1. faults' \in 0..MaxFaults
    BY <1>12, <1>t, BootNumbers DEF Reboot, Fault
  <2>2. pc' \in [Run -> {"idle"} \cup Calls \cup Ends] /\ pc'[Service] = "idle"
    BY <1>12 DEF Reboot, TypeOK, Run, Ends
  <2>3. TypeOK'
    <3>1. left' \in [Run -> 0..Patience]
      BY <1>12, <1>t DEF Reboot
    <3> QED BY <1>12, <2>1, <2>2, <3>1 DEF Reboot, TypeOK, Units
  <2>4. unit' = "enabled" /\ \A r \in Run : left'[r] = 0
    BY <1>12 DEF Reboot
  <2> QED BY <2>2, <2>3, <2>4 DEF ServiceFollowed, Calls, WaitsOfServiceOnly, RestMeansOpen
<1>13. CASE VaultChange \/ Plug
  BY <1>13 DEF VaultChange, Plug, TypeOK, ServiceFollowed, WaitsOfServiceOnly, RestMeansOpen
<1>14. CASE UNCHANGED vars
  BY <1>14 DEF vars, TypeOK, ServiceFollowed, WaitsOfServiceOnly, RestMeansOpen
<1> QED BY <1>1, <1>2, <1>3, <1>4, <1>5, <1>6, <1>7, <1>8, <1>9, <1>10, <1>11, <1>12, <1>13, <1>14
        DEF Next, Step

-----------------------------------------------------------------------------

\* The supervisor's view of the service is what became of its decrypt, and only
\* the service's decrypt waits for Vault.
THEOREM BootInvariant == Spec => []BootInv
<1>1. Init => BootInv
  BY InitInv
<1>2. BootInv /\ [Next]_vars => BootInv'
  BY NextInv
<1> QED BY <1>1, <1>2, PTL DEF Spec

\* tenacity's deadline: no wait is left below zero or above --retry.
THEOREM BootTyped == Spec => []TypeOK
<1>1. BootInv => TypeOK
  BY DEF BootInv
<1> QED BY <1>1, BootInvariant, PTL

\* on-success: ignore is safe: the service that ended well and is not started
\* again has left an open device.
THEOREM RestsOnlyOpen == Spec => []RestMeansOpen
<1>1. BootInv => RestMeansOpen
  BY DEF BootInv
<1> QED BY <1>1, BootInvariant, PTL

\* Exit code 0 of decrypt means that the device is open, also for the loser of a
\* race for the mapping.
THEOREM ZeroMeansOpen == Spec => ExitZeroMeansOpen
<1>1. ASSUME BootInv, [Next]_vars, NEW r \in Run, pc[r] \in Calls, pc'[r] = "ok"
      PROVE  mapper'
  <2>1. pc \in [Run -> {"idle"} \cup Calls \cup Ends] /\ pc[r] # "ok"
    BY <1>1 DEF BootInv, TypeOK, Calls
  <2>2. \E s \in Run : Step(s) \/ OpenLate(s) \/ Kill(s)
    BY <1>1, <2>1 DEF Next, vars, Start, StartUnit, Restart, Replan, Launch, Goto, Reboot,
                      VaultChange, Plug, Calls
  <2>3. PICK s \in Run : Step(s) \/ OpenLate(s) \/ Kill(s)
    BY <2>2
  <2>4. s = r
    BY <1>1, <2>1, <2>3 DEF Step, Login, Sealed, Refused, Exists, Read, Open, OpenLate, Kill,
                            Goto, End
  <2>5. Exists(r) \/ Open(r)
    BY <1>1, <2>1, <2>3, <2>4 DEF Step, Login, Sealed, Refused, Read, OpenLate, Kill, Goto, End
  <2>6. ASSUME Exists(r) PROVE mapper'
    <3>1. ~ Goto(r, "read")
      BY <1>1, <2>1 DEF Goto
    <3> QED BY <2>6, <3>1 DEF Exists
  <2>7. ASSUME Open(r) PROVE mapper'
    <3>1. ~ End(r, "handled")
      BY <1>1, <2>1 DEF End
    <3> QED BY <2>7, <3>1 DEF Open
  <2> QED BY <2>5, <2>6, <2>7
<1>2. BootInv /\ [Next]_vars =>
        [\A r \in Run : pc[r] \in Calls /\ pc'[r] = "ok" => mapper']_vars
  BY <1>1
<1> QED BY <1>2, BootInvariant, PTL DEF Spec, ExitZeroMeansOpen
=============================================================================
