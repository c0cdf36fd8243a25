---------------------------- MODULE DeviceBrowser ----------------------------
(***************************************************************************)
(* How a client finds the Apple TVs and chooses the one it controls:       *)
(* ATVDeviceController, the delegate of the Bonjour browser, with the menu *)
(* of the iOS client (ViewController) or the pop-up button of the Mac      *)
(* client in front of it.  Both menus are pictures of an array that goes   *)
(* on changing, and are answered with an index into it.                    *)
(*                                                                         *)
(* All of it runs on the main thread.  The pop-up button tracks the mouse  *)
(* in a run loop mode in which Bonjour is silent, so on the Mac opening    *)
(* and choosing are one step; the iOS menu is a view, and the delegate is  *)
(* called while it is open.                                                *)
(***************************************************************************)
EXTENDS Integers, Sequences, FiniteSets, SequencesExt

CONSTANTS
    Names,        \* the Apple TVs on the network
    Choose,       \* "Choose Apple TV", the first entry on the Mac
    Other,        \* "Other...", the last entry on the Mac
    Typed,        \* an address typed by hand
    NoAddress,    \* "0.0.0.0:port", what the code makes of an IPv6 address
    Nil,
    MaxChanges,   \* bound: services that appear and disappear
    MaxPicks      \* bound: choices made

ASSUME SpecialAssumption ==
    /\ Cardinality({Choose, Other, Typed, NoAddress, Nil}) = 5
    /\ Names \cap {Choose, Other, Typed, NoAddress, Nil} = {}
ASSUME BoundAssumption == {MaxChanges, MaxPicks} \subseteq Nat

VARIABLES
    platform,    \* "ios" or "osx"
    services,    \* the array of ATVDeviceController
    addresses,   \* of each service: the families of its addresses so far, in order
    list,        \* iOS: the view controller's services; Mac: what the array controller shows
    menu,        \* the open menu of the iOS client, or Nil
    host,        \* the default appleTVHost: where commands are sent
    title,       \* the device that the screen shows as selected
    crashed,     \* an exception ended the iOS client
    batch,       \* the browser has announced that more is coming
    changes, picks,        \* counters for the bounds
    listStale,   \* history: a service left since the list was made
    menuStale,   \* history: a service left since the list of the open menu was made
    reordered,   \* history: a service was resolved before an earlier one, since the menu opened
    last         \* history: what the last choice meant and what it got

bonjour == <<services, addresses, batch, changes>>
shown   == <<list, menu, title>>
history == <<listStale, menuStale, reordered, last>>
vars    == <<platform, bonjour, shown, host, crashed, picks, history>>

Entries == [name : Names, fullIP : Names \cup {NoAddress}]
Sentinels == {Choose, Other}

\* The sentinels are added after the search was started, still before its first result.
Init ==
    /\ platform \in {"ios", "osx"}
    /\ services = IF platform = "osx" THEN <<Choose, Other>> ELSE <<>>
    /\ addresses = [n \in Names |-> <<>>]
    /\ list = <<>>
    /\ menu = Nil
    /\ host \in {Nil, Typed}      \* kept from an earlier run
    /\ title = Nil
    /\ crashed = FALSE /\ batch = FALSE
    /\ changes = 0 /\ picks = 0
    /\ listStale = (platform = "osx")
    /\ menuStale = FALSE /\ reordered = FALSE
    /\ last = Nil
-----------------------------------------------------------------------------
Resolved(name) == addresses[name] # <<>>

\* stringDictionaryFromService: the first address, read as an IPv4 one.
FullIP(families, name) == IF Head(families[name]) = "v4" THEN name ELSE NoAddress

\* The k-th of some places.
Nth(places, k) == CHOOSE i \in places : Cardinality({j \in places : j <= i}) = k

\* addressesComplete: the dictionaries of the services that have an address, in the order of
\* services.
Found(families) == {i \in DOMAIN services : families[services[i]] # <<>>}
Dictionary(families, name) == [name |-> name, fullIP |-> FullIP(families, name)]
FullServices(families) ==
    [k \in 1..Cardinality(Found(families)) |->
        Dictionary(families, services[Nth(Found(families), k)])]

\* Slip for a mutant: a new service goes after "Other...".
InsertedLast(name) == Append(services, name)

\* The Mac keeps "Other..." at the end.
Inserted(name) ==
    IF platform = "osx" THEN InsertAt(services, Len(services), name) ELSE Append(services, name)

\* Slip for a mutant: moreComing taken the wrong way round.
ShowsServicesMidBatch(moreComing) == platform = "osx" /\ moreComing

\* The array controller of the Mac takes the array up at the end of a batch.
ShowsServices(moreComing) == platform = "osx" /\ ~moreComing

DidFindService(name, moreComing) ==
    /\ ~crashed
    /\ name \notin ToSet(services)
    /\ changes < MaxChanges
    /\ services' = Inserted(name)
    /\ addresses' = [addresses EXCEPT ![name] = <<>>]     \* a new NSNetService
    /\ batch' = moreComing
    /\ IF ShowsServices(moreComing)
       THEN list' = services' /\ listStale' = FALSE
       ELSE UNCHANGED <<list, listStale>>
    /\ changes' = changes + 1
    /\ UNCHANGED <<platform, menu, title, host, crashed, picks, menuStale, reordered, last>>

\* removeObject:, and nobody is told.
Leaves(name) ==
    /\ ~crashed
    /\ \E i \in DOMAIN services : services[i] = name /\ services' = RemoveAt(services, i)
    /\ addresses' = [addresses EXCEPT ![name] = <<>>]
    /\ listStale' = TRUE
    /\ menuStale' = TRUE
    /\ UNCHANGED <<platform, shown, host, crashed, picks, reordered, last>>

DidRemoveService(name, moreComing) ==
    /\ changes < MaxChanges
    /\ changes' = changes + 1
    /\ Leaves(name)
    /\ batch' = moreComing

\* The five seconds are over.  The Mac client is not the delegate of its services.
DidNotResolve(name) ==
    /\ platform = "ios"
    /\ name \in Names /\ ~Resolved(name)
    /\ Leaves(name)
    /\ UNCHANGED <<batch, changes>>

\* Slip for a mutant: only the labels change.
SelectDeviceKeepsHost(dicts, i) == title' = dicts[i].name /\ UNCHANGED host

\* Slip for a mutant: the dictionary is stored, not its address.
SelectDeviceWhole(dicts, i) == title' = dicts[i].name /\ host' = dicts[i]

SelectDeviceAtIndex(dicts, i) == title' = dicts[i].name /\ host' = dicts[i].fullIP

\* A service has one more address: on iOS netServiceDidResolveAddress:, addressesComplete:
\* and servicesFound:; on the Mac only the service knows.
DidResolveAddress(name, family) ==
    /\ ~crashed
    /\ name \in ToSet(services)
    /\ Len(addresses[name]) < 2 /\ family \notin ToSet(addresses[name])
    /\ addresses' = [addresses EXCEPT ![name] = Append(@, family)]
    /\ reordered' = (reordered \/ \E i, j \in DOMAIN services :
                        i < j /\ services[i] = name /\ ~Resolved(name)
                              /\ services[j] \in Names /\ Resolved(services[j]))
    /\ IF platform = "ios"
       THEN /\ list' = FullServices(addresses')
            /\ listStale' = FALSE
            /\ SelectDeviceAtIndex(list', 1)     \* servicesFound:, whatever was selected before
       ELSE UNCHANGED <<list, listStale, host, title>>
    /\ UNCHANGED <<platform, services, batch, changes, menu, crashed, picks, menuStale, last>>
-----------------------------------------------------------------------------
(* The iOS client: atvButtonSelected: and menuItemAction:.                 *)

\* Slip for a mutant: the menu lists what the browser found, with or without an address.
MenuOfServices == services

MenuItems == [i \in DOMAIN list |-> list[i].name]

AtvButtonSelected ==
    /\ platform = "ios" /\ ~crashed /\ menu = Nil
    /\ picks < MaxPicks
    /\ menu' = MenuItems
    /\ menuStale' = listStale /\ reordered' = FALSE
    /\ UNCHANGED <<platform, bonjour, list, title, host, crashed, picks, listStale, last>>

MenuItemAction(i) ==
    /\ menu # Nil /\ ~crashed
    /\ i \in DOMAIN menu
    /\ IF i \in DOMAIN list
       THEN /\ SelectDeviceAtIndex(list, i)
            /\ last' = [shown |-> menu[i], got |-> list[i].name,
                        disturbed |-> menuStale \/ reordered, resolved |-> TRUE]
            /\ UNCHANGED crashed
       ELSE /\ crashed' = TRUE          \* NSRangeException
            /\ UNCHANGED <<host, title, last>>
    /\ menu' = Nil
    /\ picks' = picks + 1
    /\ UNCHANGED <<platform, bonjour, list, listStale, menuStale, reordered>>

Dismiss ==
    /\ menu # Nil /\ ~crashed
    /\ menu' = Nil
    /\ picks' = picks + 1
    /\ UNCHANGED <<platform, bonjour, list, title, host, crashed, history>>
-----------------------------------------------------------------------------
(* The Mac client: menuItemSelected:.  The pop-up button shows its new     *)
(* entry whatever the action does.  The first entry is refused, the last   *)
(* one asks for an address, the others index services; AppKit catches and  *)
(* logs the exception of an index that names no service.                   *)

Service(i) == IF i \in DOMAIN services /\ services[i] \in Names THEN services[i] ELSE Nil

MenuItemSelected(i) ==
    /\ platform = "osx" /\ picks < MaxPicks
    /\ i \in DOMAIN list
    /\ title' = list[i]
    /\ \/ /\ i = 1
          /\ UNCHANGED <<host, last>>
       \/ /\ i # 1 /\ i = Len(list)
          /\ host' \in {Typed, Nil}       \* nil when the dialog was cancelled
          /\ UNCHANGED last
       \/ /\ i # 1 /\ i # Len(list)
          /\ last' = [shown |-> list[i], got |-> Service(i), disturbed |-> listStale,
                      resolved |-> Service(i) # Nil /\ Resolved(Service(i))]
          /\ host' = IF last'.resolved THEN FullIP(addresses, Service(i)) ELSE host
    /\ picks' = picks + 1
    /\ UNCHANGED <<platform, bonjour, list, menu, crashed, listStale, menuStale, reordered>>

Over ==
    /\ crashed \/ changes = MaxChanges
    /\ UNCHANGED vars

Next ==
    \/ \E n \in Names, more \in BOOLEAN : DidFindService(n, more) \/ DidRemoveService(n, more)
    \/ \E n \in Names : DidNotResolve(n)
    \/ \E n \in Names, f \in {"v4", "v6"} : DidResolveAddress(n, f)
    \/ AtvButtonSelected
    \/ \E i \in 1..Cardinality(Names) : MenuItemAction(i)
    \/ Dismiss
    \/ \E i \in 1..(Cardinality(Names) + 2) : MenuItemSelected(i)
    \/ Over

Spec == Init /\ [][Next]_vars
-----------------------------------------------------------------------------
(* Properties.                                                             *)

\* The types: commands are sent to an address or to nowhere, never to an entry of the list.
TypeOK ==
    /\ platform \in {"ios", "osx"}
    /\ services \in Seq(Names \cup Sentinels)
    /\ addresses \in [Names -> Seq({"v4", "v6"})]
    /\ platform = "ios" => list \in Seq(Entries)
    /\ platform = "osx" => list \in Seq(Names \cup Sentinels)
    /\ menu = Nil \/ menu \in Seq(Names)
    /\ host \in Names \cup {NoAddress, Typed, Nil}
    /\ title \in Names \cup Sentinels \cup {Nil}
    /\ {crashed, batch, listStale, menuStale, reordered} \subseteq BOOLEAN
    /\ changes \in 0..MaxChanges /\ picks \in 0..MaxPicks
    /\ last = Nil \/ last \in [shown : Names, got : Names \cup {Nil},
                              disturbed : BOOLEAN, resolved : BOOLEAN]

\* The device that is taken is the one the menu showed under the pointer, although services
\* come in meanwhile, unless one left since the list was made or, on iOS, one was resolved
\* out of order while the menu was open.
PickedIsShown == last # Nil /\ ~last.disturbed => last.got = last.shown

\* The iOS client is ended by an index outside of its list only when a service left after
\* the list of the menu was made; new lists for an open menu are safe otherwise, and no
\* list from which the first device is selected is empty.
CrashNeedsRemoval == crashed => menuStale

\* The address in use is that of the device on the screen.  On iOS as long as that device is
\* there, also after it left and came back with other addresses.  On the Mac, where nothing
\* is told of a choice after it was made, commands go to the device of the pop-up button or,
\* if its first address was an IPv6 one, nowhere: never to another device, unless the entry
\* was stale or had no address yet when it was chosen.
TitleTellsHost ==
    /\ platform = "ios" /\ title # Nil /\ title \in ToSet(services) /\ Resolved(title)
        => host = FullIP(addresses, title)
    /\ platform = "osx" /\ title \in Names /\ ~last.disturbed /\ last.resolved
        => host \in {title, NoAddress}

\* Between batches the list shows the services, in order, unless one left since: the iOS
\* client those with an address, the Mac all, with its two fixed entries around them.
ListCurrent ==
    ~listStale =>
        /\ platform = "ios" => list = FullServices(addresses)
        /\ platform = "osx" /\ ~batch => list = services
==============================================================================
