-------------------------- MODULE SystemdUnitsProofs --------------------------
(***************************************************************************)
(* Theorems about SystemdUnits for any number of calls, units and           *)
(* configurations.  UnitsInv is inductive with and without Serialised; the  *)
(* properties follow from it.                                               *)
(***************************************************************************)
EXTENDS SystemdUnits, TLAPS

\* A call that has begun has a unit and a configuration.
LEMMA AskedTyped ==
  ASSUME TypeOK, NEW w \in Writer, Asked(w)
  PROVE  req[w] \in Request /\ req[w].label \in Label /\ req[w].config \in Config
BY DEF TypeOK, Asked, Request

LEMMA InitInv == Init => UnitsInv
BY DEF Init, UnitsInv, TypeOK, Steps, Unasked, Untouched, FirstKnows, First, Asked,
       OnePerUnit, Running, DropinKept

\* Types: each step changes a file, a symlink or the place of one call.
LEMMA TypeStep == TypeOK /\ [Next]_vars => TypeOK'
<1> SUFFICES ASSUME TypeOK, [Next]_vars PROVE TypeOK'
  OBVIOUS
<1>1. ASSUME NEW w \in Writer, NEW r \in Request, Begin(w, r) PROVE TypeOK'
  BY <1>1, UnitSentinels DEF TypeOK, Begin, Moves, Steps, Asked
<1>2. ASSUME NEW w \in Writer, OpenDropin(w) PROVE TypeOK'
  <2>1. req[w].label \in Label
    BY <1>2, AskedTyped DEF TypeOK, OpenDropin, Moves
  <2> QED BY <1>2, <2>1 DEF TypeOK, OpenDropin, Moves, Steps, Asked
<1>3. ASSUME NEW w \in Writer, WriteDropin(w) PROVE TypeOK'
  <2>1. req[w].label \in Label /\ req[w].config \in Config
    BY <1>3, AskedTyped DEF TypeOK, WriteDropin, Moves
  <2> QED BY <1>3, <2>1 DEF TypeOK, WriteDropin, Moves, Steps, Asked
<1>4. ASSUME NEW w \in Writer, Enable(w) PROVE TypeOK'
  <2>1. req[w].label \in Label
    BY <1>4, AskedTyped DEF TypeOK, Enable, Moves
  <2> QED BY <1>4, <2>1 DEF TypeOK, Enable, Moves, Steps, Asked
<1>5. ASSUME NEW w \in Writer, Die(w) PROVE TypeOK'
  BY <1>5 DEF TypeOK, Die, Running, Steps, Asked
<1>6. CASE Reboot
  BY <1>6 DEF TypeOK, Reboot, Running, Steps, Asked
<1>7. CASE UNCHANGED vars
  BY <1>7 DEF TypeOK, vars, Asked
<1> QED BY <1>1, <1>2, <1>3, <1>4, <1>5, <1>6, <1>7 DEF Next

-----------------------------------------------------------------------------
(* One lemma for each kind of step. *)

LEMMA BeginStep ==
  ASSUME UnitsInv, TypeOK', NEW w \in Writer, NEW r \in Request, Begin(w, r)
  PROVE  UnitsInv'
<1>a. /\ req' = [req EXCEPT ![w] = r] /\ pc' = [pc EXCEPT ![w] = "open"]
      /\ pc[w] = "idle" /\ UNCHANGED <<dropin, enabled>>
      /\ r.label \in Label /\ r.config \in Config /\ r # NoRequest
  BY UnitSentinels DEF Begin, Moves, Request
<1>b. ~ Asked(w) /\ pc \in [Writer -> Steps] /\ req \in [Writer -> Request \cup {NoRequest}]
  BY <1>a DEF UnitsInv, TypeOK
<1>c. \A v \in Writer \ {w} :
        pc'[v] = pc[v] /\ req'[v] = req[v] /\ (Asked(v)' <=> Asked(v)) /\ (Running(v)' <=> Running(v))
  BY <1>a, <1>b DEF Asked, Running
<1>d. Asked(w)' /\ req'[w] = r /\ pc'[w] = "open" /\ ~ Running(w)
  BY <1>a, <1>b DEF Asked, Running
<1>1. Unasked'
  BY <1>a, <1>b, <1>c, <1>d DEF UnitsInv, Unasked, Untouched
<1>2. \A v \in Writer \ {w} : First(v)' => First(v) /\ req[v].label # r.label
  BY <1>b, <1>c, <1>d DEF First
<1>3. First(w)' => Untouched(r.label)
  BY <1>a, <1>b, <1>c, <1>d DEF First, UnitsInv, Unasked
<1>4. FirstKnows'
  <2> SUFFICES ASSUME NEW v \in Writer, First(v)'
               PROVE /\ pc'[v] = "open" => Untouched(req[v].label)'
                     /\ enabled'[req'[v].label] =>
                          pc'[v] \in {"ok", "failed"} /\ dropin'[req'[v].label] = req'[v].config
    BY DEF FirstKnows
  <2>1. CASE v = w
    BY <2>1, <1>3, <1>a, <1>d DEF Untouched
  <2>2. CASE v # w
    BY <2>2, <1>2, <1>c, <1>a DEF Untouched, UnitsInv, FirstKnows
  <2> QED BY <2>1, <2>2
<1>5. OnePerUnit'
  <2>1. Serialised => \A v \in Writer \ {w} : Running(v) => req[v].label # r.label
    BY <1>d DEF Begin
  <2> QED BY <2>1, <1>c, <1>d DEF UnitsInv, OnePerUnit
<1>6. DropinKept'
  BY <1>a, <1>c, <1>d, <1>2 DEF UnitsInv, DropinKept
<1> QED BY <1>1, <1>4, <1>5, <1>6 DEF UnitsInv

\* What OpenDropin, WriteDropin and Enable have in common: one call goes on, and
\* only its own unit changes.
LEMMA OwnUnit ==
  ASSUME UnitsInv, TypeOK', NEW w \in Writer, NEW next \in {"write", "enable", "ok", "failed"},
         Running(w), pc' = [pc EXCEPT ![w] = next], UNCHANGED req,
         \A l \in Label \ {req[w].label} : dropin'[l] = dropin[l] /\ enabled'[l] = enabled[l],
         \* what the call then knows of its own unit
         pc[w] # "open" => next # "write",
         First(w) /\ enabled'[req[w].label] =>
           next \in {"ok", "failed"} /\ dropin'[req[w].label] = req[w].config,
         next = "enable" => dropin'[req[w].label] = req[w].config
  PROVE  UnitsInv'
<1>a. /\ Asked(w) /\ req[w].label \in Label
      /\ pc'[w] = next /\ \A v \in Writer \ {w} : pc'[v] = pc[v]
  BY AskedTyped DEF UnitsInv, TypeOK, Running
<1>b. \A v \in Writer : (Asked(v)' <=> Asked(v)) /\ (First(v)' <=> First(v)) /\ req'[v] = req[v]
  BY DEF Asked, First
<1>c. \A v \in Writer : Running(v)' => Running(v)
  BY <1>a DEF Running
<1>1. Unasked'
  BY <1>a, <1>b DEF UnitsInv, Unasked, Untouched
<1>2. FirstKnows'
  <2> SUFFICES ASSUME NEW v \in Writer, First(v)
               PROVE /\ pc'[v] = "open" => Untouched(req[v].label)'
                     /\ enabled'[req[v].label] =>
                          pc'[v] \in {"ok", "failed"} /\ dropin'[req[v].label] = req[v].config
    BY <1>b DEF FirstKnows
  <2>1. CASE v = w
    BY <2>1, <1>a
  <2>2. CASE v # w
    <3>1. req[v].label \in Label \ {req[w].label}
      BY <2>2, <1>a, AskedTyped DEF First, UnitsInv
    <3> QED BY <3>1, <2>2, <1>a DEF UnitsInv, FirstKnows, Untouched
  <2> QED BY <2>1, <2>2
<1>3. OnePerUnit'
  BY <1>b, <1>c DEF UnitsInv, OnePerUnit
<1>4. DropinKept'
  <2> SUFFICES ASSUME NEW v \in Writer, pc'[v] = "enable", Serialised \/ First(v)
               PROVE dropin'[req[v].label] = req[v].config
    BY <1>b DEF DropinKept
  <2>1. CASE v = w
    BY <2>1, <1>a
  <2>2. CASE v # w
    <3>1. pc[v] = "enable" /\ Asked(v)
      BY <2>2, <1>a DEF UnitsInv, TypeOK
    <3>2. req[v].label # req[w].label
      BY <3>1, <2>2, <1>a DEF UnitsInv, OnePerUnit, Running, First
    <3>3. req[v].label \in Label
      BY <3>1, AskedTyped DEF UnitsInv
    <3> QED BY <3>1, <3>2, <3>3 DEF UnitsInv, DropinKept
  <2> QED BY <2>1, <2>2
<1> QED BY <1>1, <1>2, <1>3, <1>4 DEF UnitsInv

\* A call that ends changes nothing that another one relies on.
LEMMA EndStep ==
  ASSUME UnitsInv, TypeOK', UNCHANGED <<dropin, enabled, req>>,
         \A w \in Writer : pc'[w] \in {pc[w], "failed"}
  PROVE  UnitsInv'
<1>a. \A w \in Writer : (Asked(w)' <=> Asked(w)) /\ (First(w)' <=> First(w)) /\ req'[w] = req[w]
  BY DEF Asked, First
<1>b. \A w \in Writer : Running(w)' => Running(w)
  BY DEF Running
<1>1. Unasked'
  BY <1>a DEF UnitsInv, Unasked, Untouched
<1>2. FirstKnows'
  BY <1>a DEF UnitsInv, FirstKnows, Untouched
<1>3. OnePerUnit'
  BY <1>a, <1>b DEF UnitsInv, OnePerUnit
<1>4. DropinKept'
  BY <1>a DEF UnitsInv, DropinKept
<1> QED BY <1>1, <1>2, <1>3, <1>4 DEF UnitsInv

LEMMA NextInv == UnitsInv /\ [Next]_vars => UnitsInv'
<1> SUFFICES ASSUME UnitsInv, [Next]_vars PROVE UnitsInv'
  OBVIOUS
<1>t. TypeOK'
  BY TypeStep DEF UnitsInv
<1>1. ASSUME NEW w \in Writer, NEW r \in Request, Begin(w, r) PROVE UnitsInv'
  BY <1>1, <1>t, BeginStep
<1>2. ASSUME NEW w \in Writer, OpenDropin(w) PROVE UnitsInv'
  <2>1. /\ Running(w) /\ pc[w] = "open" /\ pc' = [pc EXCEPT ![w] = "write"]
        /\ UNCHANGED <<req, enabled>>
        /\ \A l \in Label \ {req[w].label} : dropin'[l] = dropin[l]
    BY <1>2 DEF OpenDropin, Moves, Running, UnitsInv, TypeOK
  <2>2. First(w) => ~ enabled[req[w].label]
    BY <2>1 DEF UnitsInv, FirstKnows
  <2> QED BY <2>1, <2>2, <1>t, OwnUnit
<1>3. ASSUME NEW w \in Writer, WriteDropin(w) PROVE UnitsInv'
  <2>1. /\ Running(w) /\ pc[w] = "write" /\ pc' = [pc EXCEPT ![w] = "enable"]
        /\ UNCHANGED <<req, enabled>>
        /\ \A l \in Label \ {req[w].label} : dropin'[l] = dropin[l]
    BY <1>3 DEF WriteDropin, Moves, Running, UnitsInv, TypeOK
  <2>2. First(w) => ~ enabled[req[w].label]
    BY <2>1 DEF UnitsInv, FirstKnows
  <2>3. dropin'[req[w].label] = req[w].config
    BY <2>1, <1>3, AskedTyped DEF WriteDropin, UnitsInv, TypeOK
  <2> QED BY <2>1, <2>2, <2>3, <1>t, OwnUnit
<1>4. ASSUME NEW w \in Writer, Enable(w) PROVE UnitsInv'
  <2>1. /\ Running(w) /\ pc[w] = "enable" /\ UNCHANGED <<req, dropin>>
        /\ \A l \in Label \ {req[w].label} : enabled'[l] = enabled[l]
    BY <1>4 DEF Enable, Moves, Running, UnitsInv, TypeOK
  <2>2. PICK next \in {"ok", "failed"} : pc' = [pc EXCEPT ![w] = next]
    BY <1>4 DEF Enable, Moves
  <2>3. First(w) => dropin[req[w].label] = req[w].config
    BY <2>1 DEF UnitsInv, DropinKept
  <2> QED BY <2>1, <2>2, <2>3, <1>t, OwnUnit
<1>5. ASSUME NEW w \in Writer, Die(w) PROVE UnitsInv'
  BY <1>5, <1>t, EndStep DEF Die, UnitsInv, TypeOK
<1>6. CASE Reboot
  BY <1>6, <1>t, EndStep DEF Reboot
<1>7. CASE UNCHANGED vars
  BY <1>7, <1>t, EndStep DEF vars
<1> QED BY <1>1, <1>2, <1>3, <1>4, <1>5, <1>6, <1>7 DEF Next

-----------------------------------------------------------------------------

\* Every call knows what UnitsInv says of its unit, with and without Serialised
\* (systemd.register_decrypt_service).
THEOREM UnitsInvariant == Spec => []UnitsInv
<1>1. Init => UnitsInv
  BY InitInv
<1>2. UnitsInv /\ [Next]_vars => UnitsInv'
  BY NextInv
<1> QED BY <1>1, <1>2, PTL DEF Spec

\* A call has a unit and a configuration exactly once it has begun.
THEOREM UnitsTyped == Spec => []TypeOK
<1>1. UnitsInv => TypeOK
  BY DEF UnitsInv
<1> QED BY <1>1, UnitsInvariant, PTL

\* A first registration that is cut off, by an error, a kill or a restart, never
\* leaves a unit that boot starts with another configuration.
THEOREM FirstStaysItsOwn == Spec => []FirstRegistration
<1>1. UnitsInv => FirstRegistration
  <2> SUFFICES ASSUME UnitsInv, NEW w \in Writer, First(w)
               PROVE AtBoot[req[w].label] \in {NoConfig, req[w].config}
    BY DEF FirstRegistration
  <2>1. req[w].label \in Label /\ req[w].config \in Config
    BY AskedTyped DEF First, UnitsInv
  <2> QED BY <2>1 DEF UnitsInv, FirstKnows, AtBoot
<1> QED BY <1>1, UnitsInvariant, PTL

\* With one call at a time for each unit, a call that succeeds has decided with
\* which configuration the next boot starts the unit.
THEOREM SuccessDecides == ASSUME Serialised PROVE Spec => SuccessTakesEffect
<1>1. ASSUME UnitsInv, [Next]_vars, NEW w \in Writer, Running(w), pc'[w] = "ok"
      PROVE  AtBoot'[req[w].label] = req[w].config
  <2>1. pc \in [Writer -> Steps] /\ pc[w] # "ok"
    BY <1>1 DEF UnitsInv, TypeOK, Running
  <2>2. Enable(w)
    BY <1>1, <2>1 DEF Next, vars, Begin, OpenDropin, WriteDropin, Enable, Die, Reboot,
                      Moves, Running
  <2>3. /\ pc[w] = "enable" /\ UNCHANGED dropin
        /\ req[w].label \in Label /\ req[w].config \in Config
    BY <1>1, <2>2, AskedTyped DEF Enable, Moves, UnitsInv, TypeOK
  <2>4. enabled'[req[w].label] = TRUE
    BY <1>1, <2>2, <2>3 DEF Enable, UnitsInv, TypeOK
  <2>5. dropin[req[w].label] = req[w].config
    BY <1>1, <2>3 DEF UnitsInv, DropinKept
  <2> QED BY <2>3, <2>4, <2>5 DEF AtBoot
<1>2. UnitsInv /\ [Next]_vars =>
        [\A w \in Writer : Running(w) /\ pc'[w] = "ok"
           => AtBoot'[req[w].label] = req[w].config]_vars
  BY <1>1
<1> QED BY <1>2, UnitsInvariant, PTL DEF Spec, SuccessTakesEffect

\* On a host with no other configuration than the template unit's, a drop-in that
\* is cut off says nothing wrong: what boot does changes only when a unit is
\* enabled, to a registration that was asked for, and nothing is serialised.
THEOREM DefaultOnlyRefines ==
  ASSUME Config = {DefaultConfig} PROVE Spec => ImplementsRegistry
<1>1. Init => Registry!Init
  BY DEF Init, Registry!Init, AtBoot, Requested, Asked
<1>2. UnitsInv /\ [Next]_vars => [Registry!Next]_(Registry!vars)
  <2> SUFFICES ASSUME UnitsInv, [Next]_vars
               PROVE  Registry!Next \/ UNCHANGED <<AtBoot, Requested>>
    BY DEF Registry!vars
  <2>1. ASSUME NEW w \in Writer, NEW r \in Request, Begin(w, r) PROVE Registry!Ask
    <3>1. /\ ~ Asked(w) /\ req' = [req EXCEPT ![w] = r] /\ r # NoRequest
          /\ req \in [Writer -> Request \cup {NoRequest}]
      BY <2>1, UnitSentinels DEF UnitsInv, TypeOK, Begin, Moves
    <3>2. /\ {x \in Writer : Asked(x)}' = {x \in Writer : Asked(x)} \cup {w}
          /\ req'[w] = r /\ \A x \in Writer : Asked(x) => req'[x] = req[x]
      BY <3>1 DEF Asked
    <3>3. Requested' = Requested \cup {<<r.label, r.config>>}
      BY <3>2 DEF Requested
    <3>4. UNCHANGED AtBoot /\ r.label \in Label /\ r.config \in Config
      BY <2>1 DEF Begin, AtBoot, Request
    <3> QED BY <3>3, <3>4 DEF Registry!Ask
  <2>2. ASSUME NEW w \in Writer, Enable(w) PROVE Registry!Take
    <3> DEFINE own == req[w].label
               take == <<own, req[w].config>>
    <3>1. Asked(w) /\ own \in Label /\ req[w].config = DefaultConfig
      BY <2>2, AskedTyped DEF UnitsInv, TypeOK, Enable, Moves
    <3>2. /\ enabled' = [enabled EXCEPT ![own] = TRUE] /\ UNCHANGED <<dropin, req>>
          /\ enabled \in [Label -> BOOLEAN]
      BY <2>2 DEF Enable, UnitsInv, TypeOK
    <3>3. AtBoot'[own] = DefaultConfig /\ \A l \in Label \ {own} : AtBoot'[l] = AtBoot[l]
      BY <3>1, <3>2 DEF AtBoot
    <3>4. AtBoot' = [AtBoot EXCEPT ![take[1]] = take[2]]
      BY <3>1, <3>3 DEF AtBoot
    <3>5. take \in Requested /\ UNCHANGED Requested
      BY <3>1, <3>2 DEF Requested, Asked
    <3> QED BY <3>4, <3>5 DEF Registry!Take
  <2>3. ASSUME UNCHANGED <<enabled, req>> PROVE UNCHANGED <<AtBoot, Requested>>
    <3>1. AtBoot = [l \in Label |-> IF enabled[l] THEN DefaultConfig ELSE NoConfig]
      BY DEF AtBoot
    <3>2. AtBoot' = [l \in Label |-> IF enabled'[l] THEN DefaultConfig ELSE NoConfig]
      BY DEF AtBoot
    <3> QED BY <2>3, <3>1, <3>2 DEF Requested, Asked
  <2> QED BY <2>1, <2>2, <2>3
          DEF Next, OpenDropin, WriteDropin, Die, Reboot, vars, Registry!Next
<1> QED BY <1>1, <1>2, UnitsInvariant, PTL DEF Spec, ImplementsRegistry, Registry!Spec
=============================================================================
