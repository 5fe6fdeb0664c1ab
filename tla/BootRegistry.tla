---------------------------- MODULE BootRegistry ----------------------------
(***************************************************************************)
(* What a boot registry promises to the commands that register a device:    *)
(* what the next boot finds for a device is always a registration somebody  *)
(* asked for in full, and a device once registered stays registered.        *)
(***************************************************************************)
CONSTANTS Label, Config, NoConfig

VARIABLES atBoot,   \* [Label -> the configuration the next boot uses]
          asked     \* the registrations that were asked for so far

vars == <<atBoot, asked>>

Init == /\ atBoot = [l \in Label |-> NoConfig]
        /\ asked = {}

Ask == \E l \in Label, c \in Config :
  /\ asked' = asked \cup {<<l, c>>}
  /\ UNCHANGED atBoot

\* One registration takes effect, at once.
Take == \E request \in asked :
  /\ atBoot' = [atBoot EXCEPT ![request[1]] = request[2]]
  /\ UNCHANGED asked

Next == Ask \/ Take

Spec == Init /\ [][Next]_vars
=============================================================================
