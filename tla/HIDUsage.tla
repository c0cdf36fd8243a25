------------------------------ MODULE HIDUsage ------------------------------
(***************************************************************************)
(* The navigation keys of RemoteTestHelper.mm.  A key is a pair of a HID   *)
(* usage page and a usage.  The table that presses a key (the handler of a *)
(* navigation command) and the table that releases a held key one second   *)
(* later (delayedRelease:) are written twice in the source, and so here.   *)
(***************************************************************************)
EXTENDS Naturals

\* What handleNavigationNotification: sends for each command name.
NavTable ==
    [right |-> <<12, 69>>, left |-> <<12, 68>>, down |-> <<12, 67>>, up |-> <<12, 66>>,
     tap |-> <<12, 65>>, home |-> <<1, 134>>, vlup |-> <<12, 233>>, vldwn |-> <<12, 234>>,
     siri |-> <<12, 4>>, play |-> <<12, 205>>, select |-> <<12, 128>>,
     selecth |-> <<12, 128>>, menu |-> <<1, 134>>, share |-> <<12, 521>>,
     options |-> <<12, 516>>, special |-> <<12, 547>>]

\* What delayedRelease: releases for each command name.
ReleaseTable ==
    [right |-> <<12, 69>>, left |-> <<12, 68>>, down |-> <<12, 67>>, up |-> <<12, 66>>,
     tap |-> <<12, 65>>, home |-> <<1, 134>>, vlup |-> <<12, 233>>, vldwn |-> <<12, 234>>,
     siri |-> <<12, 4>>, play |-> <<12, 205>>, select |-> <<12, 128>>,
     selecth |-> <<12, 128>>, menu |-> <<1, 134>>, share |-> <<12, 521>>,
     options |-> <<12, 516>>, special |-> <<12, 547>>]

\* The commands that keep the key down for a second (holdTouch).
HoldEvents == {"home", "vlup", "vldwn", "selecth"}

\* A command of neither table is not refused: its usage stays 0, its page 12.
NoKey == <<12, 0>>

PressKey(event) == IF event \in DOMAIN NavTable THEN NavTable[event] ELSE NoKey

\* Slip for a mutant: the table keeps the usage that a commented-out line gave "home".
ReleaseKeyOldHome(event) ==
    CASE event = "home" -> <<12, 96>>
      [] event \in DOMAIN ReleaseTable /\ event # "home" -> ReleaseTable[event]
      [] OTHER -> NoKey

ReleaseKey(event) == IF event \in DOMAIN ReleaseTable THEN ReleaseTable[event] ELSE NoKey

\* "menu press and hold takes more events being sent to trigger": 8, else 2.
PressCount(key) == IF key[2] = 134 THEN 8 ELSE 2

\* Slip for a mutant: the branch for usage 134 forgotten in delayedRelease:.
ReleaseCountNoMenu(key) == 2

ReleaseCount(key) == IF key[2] = 134 THEN 8 ELSE 2

Keys == {NavTable[e] : e \in DOMAIN NavTable} \cup {NoKey}
=============================================================================
