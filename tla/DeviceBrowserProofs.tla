------------------------ MODULE DeviceBrowserProofs ------------------------
(***************************************************************************)
(* Theorems about DeviceBrowser, for any number of devices and all values  *)
(* of the bounds.                                                          *)
(***************************************************************************)
EXTENDS DeviceBrowser, QueueLemmas

(***************************************************************************)
(* The inductive invariant.                                                *)
(***************************************************************************)

\* A list of the Mac: its two fixed entries with devices between them.
Framed(s) ==
    /\ Len(s) >= 2 /\ s[1] = Choose /\ s[Len(s)] = Other
    /\ \A i \in 2..(Len(s) - 1) : s[i] \in Names

\* Where the fixed entries are, that no device is found twice, and that an open menu may be
\* answered.
Shape ==
    /\ menu # Nil => picks < MaxPicks
    /\ \A i, j \in DOMAIN services : services[i] = services[j] => i = j
    /\ platform = "ios" => \A i \in DOMAIN services : services[i] \in Names
    /\ platform = "osx" => /\ Framed(services)
                           /\ list = <<>> \/ Framed(list)
                           /\ menu = Nil

\* New devices go behind those that the Mac lists.
ListIsPrefix ==
    platform = "osx" /\ ~listStale =>
        /\ Len(list) <= Len(services)
        /\ \A i \in 1..(Len(list) - 1) : list[i] = services[i]

\* An open menu is at most as long as the list; its names are those of the list.
MenuFits ==
    menu # Nil /\ ~menuStale =>
        /\ ~listStale
        /\ \A i \in DOMAIN menu : i \in DOMAIN list /\ (~reordered => list[i].name = menu[i])

\* The addresses in the list of the iOS client are those of the devices.
ListTellsHosts ==
    platform = "ios" => \A i \in DOMAIN list :
        list[i].name \in ToSet(services) /\ Resolved(list[i].name)
            => list[i].fullIP = FullIP(addresses, list[i].name)

DeviceInv ==
    /\ TypeOK /\ Shape /\ ListIsPrefix /\ MenuFits /\ ListTellsHosts
    /\ ListCurrent /\ PickedIsShown /\ CrashNeedsRemoval /\ TitleTellsHost
(***************************************************************************)
(* The k-th of some places: places have ranks from 1 on, all different, so *)
(* that each rank is taken.                                                *)
(***************************************************************************)

Rank(places, i) == Cardinality({j \in places : j <= i})

LEMMA RankType ==
    ASSUME NEW P \in SUBSET Nat, IsFiniteSet(P), NEW i \in P
    PROVE  Cardinality(P) \in Nat /\ Rank(P, i) \in 1..Cardinality(P)
<1> DEFINE L == {j \in P : j <= i}
<1>1. L \subseteq P /\ i \in L
  OBVIOUS
<1> HIDE DEF L
<1>2. IsFiniteSet(L) /\ Cardinality(L) <= Cardinality(P)
  BY <1>1, FS_Subset
<1>3. Cardinality(L) \in Nat /\ Cardinality(P) \in Nat /\ Cardinality(L) # 0
  BY <1>1, <1>2, FS_CardinalityType, FS_EmptySet
<1> QED BY <1>2, <1>3 DEF Rank, L

LEMMA RankGrows ==
    ASSUME NEW P \in SUBSET Nat, IsFiniteSet(P), NEW i \in P, NEW j \in P, i < j
    PROVE  Rank(P, i) < Rank(P, j)
<1> DEFINE L == {k \in P : k <= i}
           M == {k \in P : k <= j}
<1>1. L \subseteq M /\ M \subseteq P /\ j \in M /\ j \notin L
  <2>1. i \in Nat /\ j \in Nat /\ \A k \in P : k \in Nat
    OBVIOUS
  <2>2. \A k \in P : k <= i => k <= j
    BY <2>1
  <2>3. j <= j /\ ~(j <= i)
    BY <2>1
  <2> QED BY <2>2, <2>3
<1> HIDE DEF L, M
<1>2. /\ IsFiniteSet(M) /\ IsFiniteSet(L) /\ Cardinality(L) <= Cardinality(M)
      /\ Cardinality(M) = Cardinality(L) => M = L
  BY <1>1, FS_Subset
<1>3. Cardinality(L) \in Nat /\ Cardinality(M) \in Nat
  BY <1>2, FS_CardinalityType
<1> QED BY <1>1, <1>2, <1>3 DEF Rank, L, M

LEMMA NthIs ==
    ASSUME NEW P \in SUBSET Nat, IsFiniteSet(P), NEW k \in 1..Cardinality(P)
    PROVE  Nth(P, k) \in P /\ Rank(P, Nth(P, k)) = k
<1> DEFINE n == Cardinality(P)
           rank == [i \in P |-> Rank(P, i)]
<1>1. n \in Nat
  BY FS_CardinalityType
<1>2. rank \in [P -> 1..n]
  BY RankType
<1>3. \A i, j \in P : i # j => Rank(P, i) # Rank(P, j)
  <2> SUFFICES ASSUME NEW i \in P, NEW j \in P, i # j PROVE Rank(P, i) # Rank(P, j)
    OBVIOUS
  <2>1. Rank(P, i) \in Nat /\ Rank(P, j) \in Nat
    BY RankType
  <2>2. i < j \/ j < i
    OBVIOUS
  <2> QED BY <2>1, <2>2, RankGrows
<1>4. rank \in Injection(P, 1..n)
  BY <1>2, <1>3 DEF Injection, IsInjective
<1>5. IsFiniteSet(1..n) /\ Cardinality(1..n) = n
  BY <1>1, FS_Interval
<1> HIDE DEF n
<1>6. rank \in Surjection(P, 1..n)
  BY <1>4, <1>5, FS_Injection DEF n
<1>7. \E i \in P : rank[i] = k
  BY <1>6 DEF Surjection, n
<1>8. \E i \in P : Cardinality({j \in P : j <= i}) = k
  BY <1>7 DEF Rank
<1> QED BY <1>8 DEF Nth, Rank

LEMMA NthOfRank ==
    ASSUME NEW P \in SUBSET Nat, IsFiniteSet(P), NEW i \in P
    PROVE  Nth(P, Rank(P, i)) = i
<1>1. Rank(P, i) \in 1..Cardinality(P)
  BY RankType
<1>2. PICK m : m = Nth(P, Rank(P, i))
  OBVIOUS
<1>3. m \in P /\ Rank(P, m) = Rank(P, i)
  BY <1>1, <1>2, NthIs
<1>4. ~(m < i) /\ ~(i < m)
  BY <1>1, <1>3, RankGrows
<1> QED BY <1>2, <1>3, <1>4

\* A place behind the others leaves their ranks as they were.
LEMMA NthStays ==
    ASSUME NEW P \in SUBSET Nat, IsFiniteSet(P), NEW p \in Nat, \A i \in P : i < p,
           NEW k \in 1..Cardinality(P)
    PROVE  Nth(P \cup {p}, k) = Nth(P, k)
<1> DEFINE Q == P \cup {p}
<1>1. IsFiniteSet(Q) /\ Q \in SUBSET Nat
  BY FS_AddElement
<1>2. PICK i : i = Nth(P, k)
  OBVIOUS
<1>3. i \in P /\ Rank(P, i) = k
  BY <1>2, NthIs
<1>4. {j \in Q : j <= i} = {j \in P : j <= i}
  BY <1>3
<1>5. Rank(Q, i) = k
  BY <1>3, <1>4 DEF Rank
<1>6. i \in Q
  BY <1>3
<1> HIDE DEF Q
<1>7. Nth(Q, k) = i
  BY <1>1, <1>5, <1>6, NthOfRank
<1> QED BY <1>2, <1>7 DEF Q
(***************************************************************************)
(* Arrays with one entry more or less.                                     *)
(***************************************************************************)

LEMMA InsertAtIs ==
    ASSUME NEW S, NEW s \in Seq(S), NEW p \in 1..(Len(s) + 1), NEW e \in S,
           NEW t, t = InsertAt(s, p, e)
    PROVE  /\ t \in Seq(S) /\ Len(t) = Len(s) + 1
           /\ \A i \in 1..(Len(s) + 1) :
                 t[i] = IF i < p THEN s[i] ELSE IF i = p THEN e ELSE s[i - 1]
<1>1. /\ Len(s) \in Nat /\ p \in Nat /\ 1 <= p /\ p <= Len(s) + 1
      /\ \A i \in 1..Len(s) : s[i] \in S
  BY LenProperties, ElementOfSeq
<1>2. PICK front, back, one :
         front = SubSeq(s, 1, p - 1) /\ back = SubSeq(s, p, Len(s)) /\ one = <<e>>
  OBVIOUS
<1>3. /\ front \in Seq(S) /\ Len(front) = p - 1
      /\ \A i \in 1..(p - 1) : front[i] = s[i]
  BY <1>1, <1>2, SubSeqProperties
<1>4. /\ back \in Seq(S) /\ Len(back) = Len(s) - p + 1
      /\ \A i \in 1..(Len(s) - p + 1) : back[i] = s[p + i - 1]
  BY <1>1, <1>2, SubSeqProperties
<1>5. one \in Seq(S) /\ Len(one) = 1 /\ one[1] = e
  BY <1>2
<1>6. PICK u : u = front \o one
  OBVIOUS
<1>7. /\ u \in Seq(S) /\ Len(u) = p
      /\ \A i \in 1..p : u[i] = IF i < p THEN s[i] ELSE e
  <2>1. /\ u \in Seq(S) /\ Len(u) = Len(front) + Len(one)
        /\ \A i \in 1..(Len(front) + Len(one)) :
              u[i] = IF i <= Len(front) THEN front[i] ELSE one[i - Len(front)]
    BY <1>3, <1>5, <1>6, ConcatProperties
  <2> QED BY <1>1, <1>3, <1>5, <2>1
<1>8. t = u \o back
  BY <1>2, <1>6 DEF InsertAt
<1>9. /\ t \in Seq(S) /\ Len(t) = Len(s) + 1
      /\ \A i \in 1..(Len(s) + 1) : t[i] = IF i <= p THEN u[i] ELSE back[i - p]
  <2>1. /\ t \in Seq(S) /\ Len(t) = Len(u) + Len(back)
        /\ \A i \in 1..(Len(u) + Len(back)) :
              t[i] = IF i <= Len(u) THEN u[i] ELSE back[i - Len(u)]
    BY <1>4, <1>7, <1>8, ConcatProperties
  <2> QED BY <1>1, <1>4, <1>7, <2>1
<1>10. \A i \in 1..(Len(s) + 1) : i > p => back[i - p] = s[i - 1]
  BY <1>1, <1>4
<1> QED BY <1>1, <1>7, <1>9, <1>10

LEMMA RemoveAtIs ==
    ASSUME NEW S, NEW s \in Seq(S), NEW p \in 1..Len(s), NEW t, t = RemoveAt(s, p)
    PROVE  /\ t \in Seq(S) /\ Len(t) = Len(s) - 1
           /\ \A i \in 1..(Len(s) - 1) : t[i] = IF i < p THEN s[i] ELSE s[i + 1]
<1>1. /\ Len(s) \in Nat /\ p \in Nat /\ 1 <= p /\ p <= Len(s)
      /\ \A i \in 1..Len(s) : s[i] \in S
  BY LenProperties, ElementOfSeq
<1>2. PICK front, back : front = SubSeq(s, 1, p - 1) /\ back = SubSeq(s, p + 1, Len(s))
  OBVIOUS
<1>3. /\ front \in Seq(S) /\ Len(front) = p - 1
      /\ \A i \in 1..(p - 1) : front[i] = s[i]
  BY <1>1, <1>2, SubSeqProperties
<1>4. /\ back \in Seq(S) /\ Len(back) = Len(s) - p
      /\ \A i \in 1..(Len(s) - p) : back[i] = s[p + i]
  BY <1>1, <1>2, SubSeqProperties
<1>5. t = front \o back
  BY <1>2 DEF RemoveAt
<1>6. /\ t \in Seq(S) /\ Len(t) = Len(s) - 1
      /\ \A i \in 1..(Len(s) - 1) : t[i] = IF i <= p - 1 THEN front[i] ELSE back[i - (p - 1)]
  <2>1. front \in Seq(S) /\ back \in Seq(S)
    BY <1>3, <1>4
  <2>2. /\ t \in Seq(S) /\ Len(t) = Len(front) + Len(back)
        /\ \A i \in 1..(Len(front) + Len(back)) :
              t[i] = IF i <= Len(front) THEN front[i] ELSE back[i - Len(front)]
    BY <1>5, <2>1, ConcatProperties
  <2> QED BY <1>1, <1>3, <1>4, <2>2
<1>7. \A i \in 1..(Len(s) - 1) : i > p - 1 => back[i - (p - 1)] = s[i + 1]
  BY <1>1, <1>4
<1> QED BY <1>1, <1>3, <1>6, <1>7
(***************************************************************************)
(* The services and the list of those with an address.                     *)
(***************************************************************************)

LEMMA Members ==
    ASSUME NEW s, NEW x
    PROVE  x \in ToSet(s) <=> \E i \in DOMAIN s : s[i] = x
BY DEF ToSet

LEMMA ListEntries ==
    ASSUME TypeOK, platform = "ios", NEW i \in DOMAIN list
    PROVE  list[i].name \in Names /\ list[i].fullIP \in Names \cup {NoAddress}
<1>1. list \in Seq(Entries)
  BY DEF TypeOK
<1>2. list[i] \in Entries
  BY <1>1, ElementOfSeq, LenProperties
<1> QED BY <1>2 DEF Entries

\* Where a new service goes: behind all others, but on the Mac in front of "Other...".
LEMMA InsertedIs ==
    ASSUME TypeOK, Shape, NEW n \in Names, services' = Inserted(n)
    PROVE  /\ services' \in Seq(Names \cup Sentinels) /\ Len(services) \in Nat
           /\ Len(services') = Len(services) + 1
           /\ \E p \in 1..(Len(services) + 1) :
                 /\ p = IF platform = "osx" THEN Len(services) ELSE Len(services) + 1
                 /\ \A i \in 1..(Len(services) + 1) :
                       services'[i] = IF i < p THEN services[i]
                                      ELSE IF i = p THEN n ELSE services[i - 1]
<1>1. /\ services \in Seq(Names \cup Sentinels) /\ n \in Names \cup Sentinels
      /\ platform \in {"ios", "osx"}
  BY DEF TypeOK
<1> DEFINE S == Names \cup Sentinels
<1>2. PICK len : len = Len(services)
  OBVIOUS
<1>3. len \in Nat /\ (platform = "osx" => len >= 2)
  BY <1>1, <1>2, LenProperties DEF Shape, Framed
<1>4. services \in Seq(S) /\ n \in S
  BY <1>1
<1> HIDE DEF S
<1>5. CASE platform = "osx"
  <2>1. services' = InsertAt(services, len, n) /\ len \in 1..(Len(services) + 1)
    BY <1>2, <1>3, <1>5 DEF Inserted
  <2>2. /\ services' \in Seq(S) /\ Len(services') = Len(services) + 1
        /\ \A i \in 1..(Len(services) + 1) :
              services'[i] = IF i < len THEN services[i] ELSE IF i = len THEN n ELSE services[i - 1]
    BY <1>4, <2>1, InsertAtIs
  <2> QED BY <1>2, <1>3, <1>5, <2>1, <2>2 DEF S
<1>6. CASE platform = "ios"
  <2>1. services' = Append(services, n)
    BY <1>6 DEF Inserted
  <2>2. /\ services' \in Seq(S) /\ Len(services') = Len(services) + 1
        /\ \A i \in 1..Len(services) : services'[i] = services[i]
        /\ services'[Len(services) + 1] = n
    BY <1>4, <2>1, AppendProperties
  <2> QED BY <1>2, <1>3, <1>6, <2>2 DEF S
<1> QED BY <1>1, <1>5, <1>6

\* The places of the services with an address.
LEMMA FoundIs ==
    ASSUME TypeOK, NEW families
    PROVE  /\ Found(families) \in SUBSET Nat /\ IsFiniteSet(Found(families))
           /\ Cardinality(Found(families)) \in Nat
           /\ \A k \in 1..Cardinality(Found(families)) :
                 /\ Nth(Found(families), k) \in Found(families)
                 /\ Nth(Found(families), k) \in DOMAIN services
<1>1. Len(services) \in Nat /\ DOMAIN services = 1..Len(services)
  BY LenProperties DEF TypeOK
<1>2. PICK found : found = Found(families)
  OBVIOUS
<1>3. found \subseteq 1..Len(services)
  BY <1>1, <1>2 DEF Found
<1>4. found \in SUBSET Nat /\ IsFiniteSet(found) /\ Cardinality(found) \in Nat
  <2>1. found \in SUBSET Nat
    BY <1>1, <1>3
  <2>2. IsFiniteSet(1..Len(services))
    BY <1>1, FS_Interval
  <2>3. IsFiniteSet(found)
    BY <1>3, <2>2, FS_Subset
  <2> QED BY <2>1, <2>3, FS_CardinalityType
<1>5. \A k \in 1..Cardinality(found) : Nth(found, k) \in found
  BY <1>4, NthIs
<1> QED BY <1>1, <1>2, <1>3, <1>4, <1>5

\* The list that addressesComplete: makes.
LEMMA FullServicesIs ==
    ASSUME TypeOK, Shape, platform = "ios",
           NEW families \in [Names -> Seq({"v4", "v6"})],
           NEW made, made = FullServices(families)
    PROVE  /\ made \in Seq(Entries) /\ DOMAIN made = 1..Cardinality(Found(families))
           /\ \A k \in DOMAIN made :
                 /\ made[k].name = services[Nth(Found(families), k)]
                 /\ made[k].name \in Names /\ made[k].name \in ToSet(services)
                 /\ families[made[k].name] # <<>>
                 /\ made[k].fullIP = FullIP(families, made[k].name)
<1>1. PICK found, n : found = Found(families) /\ n = Cardinality(found)
  OBVIOUS
<1>2. /\ n \in Nat
      /\ \A k \in 1..n : Nth(found, k) \in found /\ Nth(found, k) \in DOMAIN services
  BY <1>1, FoundIs
<1>3. /\ DOMAIN made = 1..n
      /\ \A k \in 1..n : made[k] = Dictionary(families, services[Nth(found, k)])
      /\ made = [k \in 1..n |-> Dictionary(families, services[Nth(found, k)])]
  BY <1>1 DEF FullServices
<1>4. ASSUME NEW k \in 1..n
      PROVE  /\ made[k].name = services[Nth(found, k)]
             /\ made[k].name \in Names /\ made[k].name \in ToSet(services)
             /\ families[made[k].name] # <<>>
             /\ made[k].fullIP = FullIP(families, made[k].name)
             /\ made[k] \in Entries
  <2>1. PICK i : i = Nth(found, k)
    OBVIOUS
  <2>2. i \in DOMAIN services /\ services[i] \in Names /\ families[services[i]] # <<>>
    BY <1>1, <1>2, <2>1 DEF Shape, Found
  <2>3. PICK m : m = services[i]
    OBVIOUS
  <2>4. m \in Names /\ m \in ToSet(services) /\ families[m] # <<>>
    BY <2>2, <2>3, Members
  <2>5. made[k] = Dictionary(families, m)
    BY <1>3, <2>1, <2>3
  <2>6. FullIP(families, m) \in Names \cup {NoAddress}
    BY <2>4 DEF FullIP
  <2>7. made[k].name = m /\ made[k].fullIP = FullIP(families, m) /\ made[k] \in Entries
    BY <2>4, <2>5, <2>6 DEF Dictionary, Entries
  <2> QED BY <2>1, <2>3, <2>4, <2>7
<1>5. made \in Seq(Entries)
  <2>1. made \in [1..n -> Entries]
    BY <1>3, <1>4
  <2> QED BY <1>2, <2>1, FunctionIsSeq
<1> QED BY <1>1, <1>3, <1>4, <1>5
(***************************************************************************)
(* One lemma for each kind of step.                                        *)
(***************************************************************************)

\* What a new service without an address leaves of the list.
LEMMA NewIsNotListed ==
    ASSUME TypeOK, Shape, platform = "ios", NEW n \in Names, n \notin ToSet(services),
           services' = Inserted(n), addresses' = [addresses EXCEPT ![n] = <<>>],
           UNCHANGED platform
    PROVE  FullServices(addresses)' = FullServices(addresses)
<1>1. PICK len : len = Len(services)
  OBVIOUS
<1>2. /\ len \in Nat /\ DOMAIN services = 1..len /\ DOMAIN services' = 1..(len + 1)
      /\ \A i \in 1..len : services'[i] = services[i] /\ services[i] \in Names /\ services[i] # n
      /\ services'[len + 1] = n
  <2>1. services \in Seq(Names \cup Sentinels) /\ services' \in Seq(Names \cup Sentinels)
    BY InsertedIs DEF TypeOK
  <2>2. DOMAIN services = 1..len /\ DOMAIN services' = 1..Len(services') /\ len \in Nat
    BY <1>1, <2>1, LenProperties
  <2>3. /\ Len(services') = len + 1
        /\ \A i \in 1..(len + 1) :
              services'[i] = IF i < len + 1 THEN services[i]
                             ELSE IF i = len + 1 THEN n ELSE services[i - 1]
    BY <1>1, InsertedIs
  <2>4. \A i \in 1..len : services[i] \in Names /\ services[i] # n
    BY <2>2, Members DEF Shape
  <2> QED BY <2>2, <2>3, <2>4
<1>3. /\ addresses'[n] = <<>>
      /\ \A m \in Names \ {n} : addresses'[m] = addresses[m]
  BY DEF TypeOK
<1>4. PICK found, count : found = Found(addresses) /\ count = Cardinality(found)
  OBVIOUS
<1>5. Found(addresses)' = found
  <2>1. \A i \in 1..(len + 1) : addresses'[services'[i]] # <<>> <=>
                                   i \in 1..len /\ addresses[services[i]] # <<>>
    BY <1>2, <1>3
  <2>2. \A i : i \in Found(addresses)' <=> i \in 1..(len + 1) /\ addresses'[services'[i]] # <<>>
    BY <1>2 DEF Found
  <2>3. \A i : i \in found <=> i \in 1..len /\ addresses[services[i]] # <<>>
    BY <1>2, <1>4 DEF Found
  <2>4. 1..len \subseteq 1..(len + 1)
    BY <1>2
  <2> QED BY <2>1, <2>2, <2>3, <2>4
<1>6. \A k \in 1..count : Dictionary(addresses', services'[Nth(found, k)])
                              = Dictionary(addresses, services[Nth(found, k)])
  <2> SUFFICES ASSUME NEW k \in 1..count
               PROVE  Dictionary(addresses', services'[Nth(found, k)])
                          = Dictionary(addresses, services[Nth(found, k)])
    OBVIOUS
  <2>1. PICK i : i = Nth(found, k)
    OBVIOUS
  <2>2. i \in 1..len
    BY <1>2, <1>4, <2>1, FoundIs
  <2>3. PICK m : m = services[i]
    OBVIOUS
  <2>4. services'[i] = m /\ m \in Names /\ addresses'[m] = addresses[m]
    BY <1>2, <1>3, <2>2, <2>3
  <2>5. Dictionary(addresses', m) = Dictionary(addresses, m)
    BY <2>4 DEF Dictionary, FullIP
  <2> QED BY <2>1, <2>3, <2>4, <2>5
<1>7. FullServices(addresses) = [k \in 1..count |-> Dictionary(addresses, services[Nth(found, k)])]
  BY <1>4 DEF FullServices
<1>8. FullServices(addresses)' =
         [k \in 1..count |-> Dictionary(addresses', services'[Nth(found, k)])]
  BY <1>4, <1>5 DEF FullServices
<1> QED BY <1>6, <1>7, <1>8
LEMMA FindStep ==
    ASSUME DeviceInv, NEW n \in Names, NEW more \in BOOLEAN, DidFindService(n, more)
    PROVE  DeviceInv'
<1>1. /\ TypeOK /\ Shape /\ ListIsPrefix /\ MenuFits /\ ListTellsHosts
      /\ ListCurrent /\ PickedIsShown /\ CrashNeedsRemoval /\ TitleTellsHost
  BY DEF DeviceInv
<1>2. /\ n \notin ToSet(services) /\ services' = Inserted(n)
      /\ addresses' = [addresses EXCEPT ![n] = <<>>]
      /\ batch' = more /\ changes' = changes + 1 /\ changes < MaxChanges
      /\ UNCHANGED <<platform, menu, title, host, crashed, picks, menuStale, reordered, last>>
  BY DEF DidFindService
<1>3. \/ /\ platform = "osx" /\ ~more /\ list' = services' /\ listStale' = FALSE
      \/ /\ ~(platform = "osx" /\ ~more) /\ UNCHANGED <<list, listStale>>
  BY DEF DidFindService, ShowsServices
<1>4. platform \in {"ios", "osx"} /\ services \in Seq(Names \cup Sentinels)
  BY <1>1 DEF TypeOK
<1>5. PICK len, p : len = Len(services) /\ p = IF platform = "osx" THEN len ELSE len + 1
  OBVIOUS
<1>6. /\ services' \in Seq(Names \cup Sentinels)
      /\ len \in Nat /\ DOMAIN services = 1..len /\ DOMAIN services' = 1..(len + 1)
      /\ Len(services') = len + 1 /\ p \in 1..(len + 1)
      /\ \A i \in 1..(len + 1) :
            services'[i] = IF i < p THEN services[i] ELSE IF i = p THEN n ELSE services[i - 1]
  <2>1. /\ services' \in Seq(Names \cup Sentinels) /\ len \in Nat /\ Len(services') = len + 1
        /\ p \in 1..(len + 1)
        /\ \A i \in 1..(len + 1) :
              services'[i] = IF i < p THEN services[i] ELSE IF i = p THEN n ELSE services[i - 1]
    BY <1>1, <1>2, <1>5, InsertedIs
  <2> QED BY <1>4, <1>5, <2>1, LenProperties
<1>7. /\ addresses' \in [Names -> Seq({"v4", "v6"})] /\ addresses'[n] = <<>>
      /\ \A m \in Names \ {n} : addresses'[m] = addresses[m]
  BY <1>1, <1>2 DEF TypeOK
<1>8. \A m \in ToSet(services') : m = n \/ m \in ToSet(services)
  <2> SUFFICES ASSUME NEW i \in 1..(len + 1), services'[i] # n
               PROVE  services'[i] \in ToSet(services)
    BY <1>6, Members
  <2>1. (i < p => i \in 1..len) /\ (i > p => i - 1 \in 1..len)
    BY <1>6
  <2>2. \E j \in 1..len : services[j] = services'[i]
    BY <1>6, <2>1
  <2> QED BY <1>6, <2>2, Members
<1>9. TypeOK'
  <2>1. changes' \in 0..MaxChanges
    BY <1>1, <1>2, BoundAssumption DEF TypeOK
  <2>2. /\ platform' = "ios" => list' \in Seq(Entries)
        /\ platform' = "osx" => list' \in Seq(Names \cup Sentinels)
    BY <1>1, <1>2, <1>3, <1>6 DEF TypeOK
  <2>3. {crashed, batch, listStale, menuStale, reordered}' \subseteq BOOLEAN
    BY <1>1, <1>2, <1>3 DEF TypeOK
  <2>4. /\ platform' \in {"ios", "osx"}
        /\ menu' = Nil \/ menu' \in Seq(Names)
        /\ host' \in Names \cup {NoAddress, Typed, Nil}
        /\ title' \in Names \cup Sentinels \cup {Nil}
        /\ picks' \in 0..MaxPicks
    BY <1>1, <1>2 DEF TypeOK
  <2>5. last' = Nil \/ last' \in [shown : Names, got : Names \cup {Nil},
                                 disturbed : BOOLEAN, resolved : BOOLEAN]
    BY <1>1, <1>2 DEF TypeOK
  <2> QED BY <1>6, <1>7, <2>1, <2>2, <2>3, <2>4, <2>5 DEF TypeOK
<1>10. Shape'
  <2>1. \A i, j \in DOMAIN services' : services'[i] = services'[j] => i = j
    <3>1. \A i \in 1..len : services[i] # n
      BY <1>2, <1>6, Members
    <3>2. \A i, j \in 1..len : services[i] = services[j] => i = j
      BY <1>1, <1>6 DEF Shape
    <3>3. \A i \in 1..(len + 1) : (i < p => i \in 1..len) /\ (i > p => i - 1 \in 1..len)
      BY <1>6
    <3> SUFFICES ASSUME NEW i \in 1..(len + 1), NEW j \in 1..(len + 1),
                        services'[i] = services'[j]
                 PROVE  i = j
      BY <1>6
    <3>4. i = p <=> j = p
      BY <1>6, <3>1, <3>3
    <3>5. CASE i # p /\ j # p
      <4>1. PICK k, l : /\ k = (IF i < p THEN i ELSE i - 1) /\ services'[i] = services[k]
                        /\ l = (IF j < p THEN j ELSE j - 1) /\ services'[j] = services[l]
        BY <1>6, <3>5
      <4>2. k \in 1..len /\ l \in 1..len
        BY <1>6, <3>3, <3>5, <4>1
      <4>3. k = l
        BY <3>2, <4>1, <4>2
      <4> QED BY <1>6, <3>5, <4>1, <4>3
    <3> QED BY <3>4, <3>5
  <2>2. ASSUME platform = "ios" PROVE \A i \in DOMAIN services' : services'[i] \in Names
    BY <1>1, <1>5, <1>6, <2>2 DEF Shape
  <2>3. ASSUME platform = "osx" PROVE Framed(services)' /\ (list' = <<>> \/ Framed(list)') /\ menu' = Nil
    <3>1. Framed(services) /\ (list = <<>> \/ Framed(list)) /\ menu = Nil
      BY <1>1, <2>3 DEF Shape
    <3>2. /\ len >= 2 /\ p = len /\ services[1] = Choose /\ services[len] = Other
          /\ \A i \in 2..(len - 1) : services[i] \in Names
      BY <1>5, <2>3, <3>1 DEF Framed
    <3>3. /\ services'[1] = Choose /\ services'[len + 1] = Other
          /\ \A i \in 2..len : services'[i] \in Names
      BY <1>6, <3>2
    <3>4. Framed(services)'
      BY <1>6, <3>2, <3>3 DEF Framed
    <3>5. list' = <<>> \/ Framed(list)'
      BY <1>3, <3>1, <3>4 DEF Framed
    <3> QED BY <1>2, <3>1, <3>4, <3>5
  <2> QED BY <1>1, <1>2, <2>1, <2>2, <2>3 DEF Shape
<1>11. ListIsPrefix'
  <2> SUFFICES ASSUME platform = "osx", ~listStale'
               PROVE  /\ Len(list') <= Len(services')
                      /\ \A i \in 1..(Len(list') - 1) : list'[i] = services'[i]
    BY <1>2 DEF ListIsPrefix
  <2>1. CASE list' = services'
    BY <1>6, <2>1
  <2>2. CASE UNCHANGED <<list, listStale>>
    <3>1. /\ Len(list) \in Nat /\ Len(list) <= len
          /\ \A i \in 1..(Len(list) - 1) : list[i] = services[i]
      BY <1>1, <1>5, <2>2, LenProperties DEF ListIsPrefix, TypeOK
    <3>2. \A i \in 1..(Len(list) - 1) : services'[i] = services[i]
      BY <1>5, <1>6, <3>1
    <3> QED BY <1>6, <2>2, <3>1, <3>2
  <2> QED BY <1>3, <2>1, <2>2
<1>12. MenuFits'
  <2>1. CASE platform = "osx"
    BY <1>1, <1>2, <2>1 DEF MenuFits, Shape
  <2>2. CASE platform = "ios"
    <3>1. UNCHANGED <<list, listStale, menu, menuStale, reordered>>
      BY <1>2, <1>3, <2>2
    <3> QED BY <1>1, <3>1 DEF MenuFits
  <2> QED BY <1>4, <2>1, <2>2
<1>13. \A m \in Names : m \in ToSet(services') /\ addresses'[m] # <<>> =>
          m \in ToSet(services) /\ addresses'[m] = addresses[m]
  BY <1>7, <1>8
<1>14. ListTellsHosts'
  <2> SUFFICES ASSUME platform = "ios", NEW i \in DOMAIN list',
                      list'[i].name \in ToSet(services'), addresses'[list'[i].name] # <<>>
               PROVE  list'[i].fullIP = FullIP(addresses', list'[i].name)
    BY <1>2 DEF ListTellsHosts, Resolved
  <2>1. list' = list
    BY <1>3
  <2>2. PICK e : e = list[i]
    OBVIOUS
  <2>3. e.name \in Names
    BY <1>1, <2>1, <2>2, ListEntries
  <2>4. e.name \in ToSet(services) /\ addresses'[e.name] = addresses[e.name] /\ addresses[e.name] # <<>>
    BY <1>13, <2>1, <2>2, <2>3
  <2>5. e.fullIP = FullIP(addresses, e.name)
    BY <1>1, <2>1, <2>2, <2>4 DEF ListTellsHosts, Resolved
  <2>6. FullIP(addresses, e.name) = FullIP(addresses', e.name)
    BY <2>4 DEF FullIP
  <2> QED BY <2>1, <2>2, <2>5, <2>6
<1>15. ListCurrent'
  <2>1. CASE platform = "ios"
    <3>1. FullServices(addresses)' = FullServices(addresses)
      BY <1>1, <1>2, <2>1, NewIsNotListed
    <3> QED BY <1>1, <1>2, <1>3, <2>1, <3>1 DEF ListCurrent
  <2>2. CASE platform = "osx"
    BY <1>2, <1>3, <2>2 DEF ListCurrent
  <2> QED BY <1>4, <2>1, <2>2
<1>16. PickedIsShown' /\ CrashNeedsRemoval'
  BY <1>1, <1>2 DEF PickedIsShown, CrashNeedsRemoval
<1>17. TitleTellsHost'
  <2>1. CASE platform = "ios"
    <3> SUFFICES ASSUME title # Nil, title \in ToSet(services'), addresses'[title] # <<>>
                 PROVE  host = FullIP(addresses', title)
      BY <1>2, <2>1 DEF TitleTellsHost, Resolved
    <3>1. title \in Names
      BY <1>10, <1>2, <2>1, Members DEF Shape
    <3>2. title \in ToSet(services) /\ addresses'[title] = addresses[title] /\ addresses[title] # <<>>
      BY <1>13, <3>1
    <3>3. host = FullIP(addresses, title)
      BY <1>1, <2>1, <3>2 DEF TitleTellsHost, Resolved
    <3> QED BY <3>2, <3>3 DEF FullIP
  <2>2. CASE platform = "osx"
    BY <1>1, <1>2, <2>2 DEF TitleTellsHost
  <2> QED BY <1>4, <2>1, <2>2
<1> QED BY <1>9, <1>10, <1>11, <1>12, <1>14, <1>15, <1>16, <1>17 DEF DeviceInv
\* A service is removed, or could not be resolved.
LEMMA LeaveStep ==
    ASSUME DeviceInv, NEW n \in Names, Leaves(n), batch' \in BOOLEAN, changes' \in 0..MaxChanges
    PROVE  DeviceInv'
<1>1. /\ TypeOK /\ Shape /\ ListIsPrefix /\ MenuFits /\ ListTellsHosts
      /\ ListCurrent /\ PickedIsShown /\ CrashNeedsRemoval /\ TitleTellsHost
  BY DEF DeviceInv
<1>2. /\ addresses' = [addresses EXCEPT ![n] = <<>>]
      /\ listStale' = TRUE /\ menuStale' = TRUE
      /\ UNCHANGED <<platform, list, menu, title, host, crashed, picks, reordered, last>>
  BY DEF Leaves, shown
<1>3. PICK p \in DOMAIN services : services[p] = n /\ services' = RemoveAt(services, p)
  BY DEF Leaves
<1>4. PICK len : len = Len(services)
  OBVIOUS
<1>5. platform \in {"ios", "osx"} /\ services \in Seq(Names \cup Sentinels)
  BY <1>1 DEF TypeOK
<1>6. /\ services' \in Seq(Names \cup Sentinels) /\ Len(services') = len - 1
      /\ len \in Nat /\ DOMAIN services = 1..len /\ DOMAIN services' = 1..(len - 1)
      /\ p \in 1..len
      /\ \A i \in 1..(len - 1) : services'[i] = IF i < p THEN services[i] ELSE services[i + 1]
  <2> DEFINE S == Names \cup Sentinels
  <2>1. services \in Seq(S)
    BY <1>5
  <2> HIDE DEF S
  <2>2. len \in Nat /\ DOMAIN services = 1..len /\ p \in 1..Len(services)
    BY <1>4, <2>1, LenProperties
  <2>3. /\ services' \in Seq(S) /\ Len(services') = len - 1
        /\ \A i \in 1..(len - 1) : services'[i] = IF i < p THEN services[i] ELSE services[i + 1]
    BY <1>3, <1>4, <2>1, <2>2, RemoveAtIs
  <2>4. DOMAIN services' = 1..(len - 1)
    BY <2>3, LenProperties
  <2> QED BY <1>4, <2>2, <2>3, <2>4 DEF S
<1>7. /\ addresses' \in [Names -> Seq({"v4", "v6"})] /\ addresses'[n] = <<>>
      /\ \A m \in Names \ {n} : addresses'[m] = addresses[m]
  BY <1>1, <1>2 DEF TypeOK
<1>8. \A m \in ToSet(services') : m \in ToSet(services)
  <2> SUFFICES ASSUME NEW i \in 1..(len - 1) PROVE services'[i] \in ToSet(services)
    BY <1>6, Members
  <2>1. i \in 1..len /\ i + 1 \in 1..len
    BY <1>6
  <2>2. \E j \in 1..len : services[j] = services'[i]
    BY <1>6, <2>1
  <2> QED BY <1>6, <2>2, Members
<1>9. TypeOK'
  <2>1. /\ platform' = "ios" => list' \in Seq(Entries)
        /\ platform' = "osx" => list' \in Seq(Names \cup Sentinels)
    BY <1>1, <1>2 DEF TypeOK
  <2>2. {crashed, batch, listStale, menuStale, reordered}' \subseteq BOOLEAN
    BY <1>1, <1>2 DEF TypeOK
  <2>3. /\ platform' \in {"ios", "osx"}
        /\ menu' = Nil \/ menu' \in Seq(Names)
        /\ host' \in Names \cup {NoAddress, Typed, Nil}
        /\ title' \in Names \cup Sentinels \cup {Nil}
        /\ picks' \in 0..MaxPicks
    BY <1>1, <1>2 DEF TypeOK
  <2>4. last' = Nil \/ last' \in [shown : Names, got : Names \cup {Nil},
                                 disturbed : BOOLEAN, resolved : BOOLEAN]
    BY <1>1, <1>2 DEF TypeOK
  <2> QED BY <1>6, <1>7, <2>1, <2>2, <2>3, <2>4 DEF TypeOK
<1>10. Shape'
  <2>1. \A i \in 1..(len - 1) : i \in 1..len /\ i + 1 \in 1..len
    BY <1>6
  <2>2. \A i, j \in DOMAIN services' : services'[i] = services'[j] => i = j
    <3>1. \A i, j \in 1..len : services[i] = services[j] => i = j
      BY <1>1, <1>6 DEF Shape
    <3> SUFFICES ASSUME NEW i \in 1..(len - 1), NEW j \in 1..(len - 1),
                        services'[i] = services'[j]
                 PROVE  i = j
      BY <1>6
    <3>2. PICK k, l : /\ k = (IF i < p THEN i ELSE i + 1) /\ services'[i] = services[k]
                      /\ l = (IF j < p THEN j ELSE j + 1) /\ services'[j] = services[l]
      BY <1>6
    <3>3. k \in 1..len /\ l \in 1..len
      BY <2>1, <3>2
    <3>4. k = l
      BY <3>1, <3>2, <3>3
    <3>5. i \in Nat /\ j \in Nat /\ p \in Nat
      BY <1>6
    <3> QED BY <3>2, <3>4, <3>5
  <2>3. ASSUME platform = "ios" PROVE \A i \in DOMAIN services' : services'[i] \in Names
    BY <1>1, <1>6, <2>1, <2>3 DEF Shape
  <2>4. ASSUME platform = "osx" PROVE Framed(services)' /\ (list' = <<>> \/ Framed(list)') /\ menu' = Nil
    <3>1. /\ len >= 2 /\ services[1] = Choose /\ services[len] = Other
          /\ \A i \in 2..(len - 1) : services[i] \in Names
          /\ (list = <<>> \/ Framed(list)) /\ menu = Nil
      BY <1>1, <1>4, <2>4 DEF Shape, Framed
    <3>2. n # Choose /\ n # Other
      BY SpecialAssumption
    <3>3. p # 1 /\ p # len
      BY <1>3, <3>1, <3>2
    <3>4. 2 <= p /\ p <= len - 1 /\ len - 1 >= 2
      BY <1>6, <3>3
    <3>5. services'[1] = Choose /\ services'[len - 1] = Other
      BY <1>6, <3>1, <3>4
    <3>6. ASSUME NEW i \in 2..(len - 2) PROVE services'[i] \in Names
      <4>1. i \in 1..(len - 1) /\ i \in 2..(len - 1) /\ i + 1 \in 2..(len - 1)
        BY <1>6, <3>6
      <4>2. services'[i] = services[i] \/ services'[i] = services[i + 1]
        BY <1>6, <4>1
      <4> QED BY <3>1, <4>1, <4>2
    <3>7. Framed(services)'
      <4>1. Len(services') >= 2 /\ len - 1 - 1 = len - 2
        BY <1>6, <3>4
      <4> QED BY <1>6, <3>5, <3>6, <4>1 DEF Framed
    <3>8. list' = <<>> \/ Framed(list)'
      BY <1>2, <3>1 DEF Framed
    <3> QED BY <1>2, <3>1, <3>7, <3>8
  <2> QED BY <1>1, <1>2, <2>2, <2>3, <2>4 DEF Shape
<1>11. ListIsPrefix' /\ MenuFits' /\ ListCurrent' /\ PickedIsShown' /\ CrashNeedsRemoval'
  BY <1>1, <1>2 DEF ListIsPrefix, MenuFits, ListCurrent, PickedIsShown, CrashNeedsRemoval
<1>12. \A m \in Names : m \in ToSet(services') /\ addresses'[m] # <<>> =>
          m \in ToSet(services) /\ addresses'[m] = addresses[m]
  BY <1>7, <1>8
<1>13. ListTellsHosts'
  <2> SUFFICES ASSUME platform = "ios", NEW i \in DOMAIN list,
                      list[i].name \in ToSet(services'), addresses'[list[i].name] # <<>>
               PROVE  list[i].fullIP = FullIP(addresses', list[i].name)
    BY <1>2 DEF ListTellsHosts, Resolved
  <2>1. PICK e : e = list[i]
    OBVIOUS
  <2>2. e.name \in Names
    BY <1>1, <2>1, ListEntries
  <2>3. e.name \in ToSet(services) /\ addresses'[e.name] = addresses[e.name] /\ addresses[e.name] # <<>>
    BY <1>12, <2>1, <2>2
  <2>4. e.fullIP = FullIP(addresses, e.name)
    BY <1>1, <2>1, <2>3 DEF ListTellsHosts, Resolved
  <2>5. FullIP(addresses, e.name) = FullIP(addresses', e.name)
    BY <2>3 DEF FullIP
  <2> QED BY <2>1, <2>4, <2>5
<1>14. TitleTellsHost'
  <2>1. CASE platform = "ios"
    <3> SUFFICES ASSUME title # Nil, title \in ToSet(services'), addresses'[title] # <<>>
                 PROVE  host = FullIP(addresses', title)
      BY <1>2, <2>1 DEF TitleTellsHost, Resolved
    <3>1. title \in Names
      BY <1>10, <1>2, <2>1, Members DEF Shape
    <3>2. title \in ToSet(services) /\ addresses'[title] = addresses[title] /\ addresses[title] # <<>>
      BY <1>12, <3>1
    <3>3. host = FullIP(addresses, title)
      BY <1>1, <2>1, <3>2 DEF TitleTellsHost, Resolved
    <3> QED BY <3>2, <3>3 DEF FullIP
  <2>2. CASE platform = "osx"
    BY <1>1, <1>2, <2>2 DEF TitleTellsHost
  <2> QED BY <1>5, <2>1, <2>2
<1> QED BY <1>9, <1>10, <1>11, <1>13, <1>14 DEF DeviceInv
\* What is found when one more service has an address.
LEMMA FoundGrows ==
    ASSUME TypeOK, Shape, NEW n \in Names, NEW families \in [Names -> Seq({"v4", "v6"})],
           families[n] # <<>>, \A m \in Names \ {n} : families[m] = addresses[m],
           platform = "ios",
           NEW p \in DOMAIN services, services[p] = n
    PROVE  /\ Found(families) = Found(addresses) \cup {p}
           /\ Resolved(n) => p \in Found(addresses)
<1>1. \A i \in DOMAIN services : services[i] \in Names /\ (services[i] = n <=> i = p)
  BY DEF Shape
<1>2. \A i \in DOMAIN services : families[services[i]] # <<>> <=>
                                    addresses[services[i]] # <<>> \/ i = p
  BY <1>1
<1> QED BY <1>2 DEF Found, Resolved

LEMMA ResolveStep ==
    ASSUME DeviceInv, NEW n \in Names, NEW f \in {"v4", "v6"}, DidResolveAddress(n, f)
    PROVE  DeviceInv'
<1>1. /\ TypeOK /\ Shape /\ ListIsPrefix /\ MenuFits /\ ListTellsHosts
      /\ ListCurrent /\ PickedIsShown /\ CrashNeedsRemoval /\ TitleTellsHost
  BY DEF DeviceInv
<1>2. /\ n \in ToSet(services) /\ addresses' = [addresses EXCEPT ![n] = Append(@, f)]
      /\ UNCHANGED <<platform, services, batch, changes, menu, crashed, picks, menuStale, last>>
  BY DEF DidResolveAddress
<1>3. reordered' <=> (reordered \/ \E i, j \in DOMAIN services :
                        i < j /\ services[i] = n /\ ~Resolved(n)
                              /\ services[j] \in Names /\ Resolved(services[j]))
  BY DEF DidResolveAddress
<1>4. platform \in {"ios", "osx"} /\ services \in Seq(Names \cup Sentinels)
  BY <1>1 DEF TypeOK
<1>5. PICK fam : fam = addresses'
  OBVIOUS
<1>6. /\ fam \in [Names -> Seq({"v4", "v6"})] /\ fam[n] # <<>>
      /\ \A m \in Names \ {n} : fam[m] = addresses[m]
  <2> DEFINE S == Seq({"v4", "v6"})
  <2>1. addresses \in [Names -> S] /\ addresses[n] \in S
    BY <1>1 DEF TypeOK
  <2>2. Append(addresses[n], f) \in S /\ Append(addresses[n], f) # <<>>
    BY <2>1, AppendProperties
  <2>3. PICK new : new = Append(addresses[n], f)
    OBVIOUS
  <2>4. fam = [addresses EXCEPT ![n] = new] /\ new \in S /\ new # <<>>
    BY <1>2, <1>5, <2>2, <2>3
  <2> HIDE DEF S
  <2>5. fam \in [Names -> S] /\ fam[n] = new /\ \A m \in Names \ {n} : fam[m] = addresses[m]
    BY <2>1, <2>4
  <2> QED BY <2>4, <2>5 DEF S
<1>7. reordered' \in BOOLEAN
  BY DEF DidResolveAddress
<1>8. Shape'
  <2>1. platform = "osx" => UNCHANGED list
    BY DEF DidResolveAddress
  <2> QED BY <1>1, <1>2, <2>1 DEF Shape, Framed
<1>9. PickedIsShown' /\ CrashNeedsRemoval'
  BY <1>1, <1>2 DEF PickedIsShown, CrashNeedsRemoval
<1>10. last' = Nil \/ last' \in [shown : Names, got : Names \cup {Nil},
                                disturbed : BOOLEAN, resolved : BOOLEAN]
  BY <1>1, <1>2 DEF TypeOK
<1>11. CASE platform = "osx"
  <2>1. UNCHANGED <<list, listStale, host, title>>
    BY <1>11 DEF DidResolveAddress
  <2>2. TypeOK'
    BY <1>1, <1>2, <1>5, <1>6, <1>7, <1>10, <1>11, <2>1 DEF TypeOK
  <2>3. ListIsPrefix' /\ ListCurrent' /\ ListTellsHosts'
    BY <1>1, <1>2, <1>11, <2>1 DEF ListIsPrefix, ListCurrent, ListTellsHosts
  <2>4. MenuFits'
    BY <1>1, <1>2, <1>11 DEF MenuFits, Shape
  <2>5. TitleTellsHost'
    BY <1>1, <1>2, <1>11, <2>1 DEF TitleTellsHost
  <2> QED BY <1>8, <1>9, <2>2, <2>3, <2>4, <2>5 DEF DeviceInv
<1>12. CASE platform = "ios"
  <2>1. /\ list' = FullServices(fam) /\ listStale' = FALSE
        /\ title' = list'[1].name /\ host' = list'[1].fullIP
    BY <1>5, <1>12 DEF DidResolveAddress, SelectDeviceAtIndex
  <2>2. PICK p \in DOMAIN services : services[p] = n
    BY <1>2, Members
  <2>3. PICK P, Q : P = Found(addresses) /\ Q = Found(fam)
    OBVIOUS
  <2>4. Q = P \cup {p} /\ (Resolved(n) => p \in P)
    BY <1>1, <1>6, <1>12, <2>2, <2>3, FoundGrows
  <2>5. /\ P \in SUBSET Nat /\ IsFiniteSet(P) /\ Cardinality(P) \in Nat
        /\ Q \in SUBSET Nat /\ IsFiniteSet(Q) /\ Cardinality(Q) \in Nat
    BY <1>1, <2>3, FoundIs
  <2>6. Cardinality(P) <= Cardinality(Q) /\ 1 <= Cardinality(Q)
    <3>1. Cardinality(P) <= Cardinality(Q)
      BY <2>4, <2>5, FS_Subset
    <3>2. Cardinality(Q) # 0
      BY <2>4, <2>5, FS_EmptySet
    <3> QED BY <2>5, <3>1, <3>2
  <2>7. PICK made : made = list'
    OBVIOUS
  <2>8. /\ made \in Seq(Entries) /\ DOMAIN made = 1..Cardinality(Q)
        /\ \A k \in DOMAIN made :
              /\ made[k].name = services[Nth(Q, k)]
              /\ made[k].name \in Names /\ made[k].name \in ToSet(services)
              /\ fam[made[k].name] # <<>>
              /\ made[k].fullIP = FullIP(fam, made[k].name)
    BY <1>1, <1>6, <1>12, <2>1, <2>3, <2>7, FullServicesIs
  <2>9. 1 \in DOMAIN made
    BY <2>5, <2>6, <2>8
  <2>10. /\ title' \in Names /\ host' = FullIP(fam, title') /\ host' \in Names \cup {NoAddress}
    <3>1. title' = made[1].name /\ host' = made[1].fullIP
      BY <2>1, <2>7
    <3> QED BY <2>8, <2>9, <3>1 DEF FullIP
  <2>11. TypeOK'
    <3>1. list' \in Seq(Entries)
      BY <2>7, <2>8
    <3>2. {crashed, batch, listStale, menuStale, reordered}' \subseteq BOOLEAN
      BY <1>1, <1>2, <1>7, <2>1 DEF TypeOK
    <3>3. /\ platform' = "ios" /\ services' \in Seq(Names \cup Sentinels)
          /\ menu' = Nil \/ menu' \in Seq(Names)
          /\ picks' \in 0..MaxPicks /\ changes' \in 0..MaxChanges
      BY <1>1, <1>2, <1>12 DEF TypeOK
    <3> QED BY <1>5, <1>6, <1>10, <2>10, <3>1, <3>2, <3>3 DEF TypeOK
  <2>12. ListIsPrefix'
    BY <1>2, <1>12 DEF ListIsPrefix
  <2>13. ListCurrent'
    <3>1. FullServices(addresses)' = FullServices(fam)
      BY <1>2, <1>5 DEF FullServices, Found
    <3> QED BY <1>2, <1>12, <2>1, <3>1 DEF ListCurrent
  <2>14. ListTellsHosts'
    BY <1>5, <2>7, <2>8 DEF ListTellsHosts
  <2>15. TitleTellsHost'
    BY <1>2, <1>5, <1>12, <2>10 DEF TitleTellsHost
  <2>16. MenuFits'
    <3> SUFFICES ASSUME menu # Nil, ~menuStale, NEW i \in DOMAIN menu
                 PROVE  i \in DOMAIN made /\ (~reordered' => made[i].name = menu[i])
      BY <1>2, <2>1, <2>7 DEF MenuFits
    <3>1. ~listStale /\ i \in DOMAIN list /\ (~reordered => list[i].name = menu[i])
      BY <1>1 DEF MenuFits
    <3>2. list = FullServices(addresses)
      BY <1>1, <1>12, <3>1 DEF ListCurrent
    <3>3. addresses \in [Names -> Seq({"v4", "v6"})]
      BY <1>1 DEF TypeOK
    <3>4. i \in 1..Cardinality(P) /\ list[i].name = services[Nth(P, i)]
      <4>1. PICK old, now : old = addresses /\ now = list
        OBVIOUS
      <4>2. DOMAIN now = 1..Cardinality(P) /\ \A k \in DOMAIN now : now[k].name = services[Nth(P, k)]
        BY <1>1, <1>12, <2>3, <3>2, <3>3, <4>1, FullServicesIs
      <4> QED BY <3>1, <4>1, <4>2
    <3>5. i \in DOMAIN made /\ made[i].name = services[Nth(Q, i)]
      BY <2>5, <2>6, <2>8, <3>4
    <3>6. ASSUME ~reordered' PROVE Nth(Q, i) = Nth(P, i)
      <4>1. CASE p \in P
        <5>1. Q = P
          BY <2>4, <4>1
        <5> QED BY <5>1
      <4>2. CASE p \notin P
        <5>1. ~Resolved(n)
          BY <2>4, <4>2
        <5>2. \A j \in P : j \in DOMAIN services /\ services[j] \in Names /\ Resolved(services[j])
          BY <1>1, <1>12, <2>3 DEF Found, Shape, Resolved
        <5>3. p \in Nat
          BY <2>4, <2>5
        <5>4. \A j \in P : j < p
          <6> SUFFICES ASSUME NEW j \in P PROVE j < p
            OBVIOUS
          <6>1. ~(p < j)
            BY <1>3, <2>2, <3>6, <5>1, <5>2
          <6>2. j \in Nat /\ j # p
            BY <2>5, <4>2
          <6> QED BY <5>3, <6>1, <6>2
        <5> QED BY <2>4, <2>5, <3>4, <5>3, <5>4, NthStays
      <4> QED BY <4>1, <4>2
    <3>7. ~reordered' => ~reordered
      BY <1>3
    <3> QED BY <3>1, <3>4, <3>5, <3>6, <3>7
  <2> QED BY <1>8, <1>9, <2>11, <2>12, <2>13, <2>14, <2>15, <2>16 DEF DeviceInv
<1> QED BY <1>4, <1>11, <1>12
LEMMA OpenStep ==
    ASSUME DeviceInv, AtvButtonSelected
    PROVE  DeviceInv'
<1>1. /\ TypeOK /\ Shape /\ ListIsPrefix /\ MenuFits /\ ListTellsHosts
      /\ ListCurrent /\ PickedIsShown /\ CrashNeedsRemoval /\ TitleTellsHost
  BY DEF DeviceInv
<1>2. /\ platform = "ios" /\ ~crashed /\ picks < MaxPicks
      /\ menu' = MenuItems /\ menuStale' = listStale /\ reordered' = FALSE
      /\ UNCHANGED <<platform, list, title, host, crashed, picks, listStale, last>>
      /\ UNCHANGED <<services, addresses, batch, changes>>
  BY DEF AtvButtonSelected, bonjour
<1>3. menu' \in Seq(Names) /\ DOMAIN menu' = DOMAIN list /\ \A i \in DOMAIN list : menu'[i] = list[i].name
  <2>1. list \in Seq(Entries)
    BY <1>1, <1>2 DEF TypeOK
  <2>2. Len(list) \in Nat /\ DOMAIN list = 1..Len(list)
    BY <2>1, LenProperties
  <2>3. \A i \in DOMAIN list : list[i].name \in Names
    BY <1>1, <1>2, ListEntries
  <2>4. menu' = [i \in 1..Len(list) |-> list[i].name]
    BY <1>2, <2>2 DEF MenuItems
  <2>5. menu' \in [1..Len(list) -> Names]
    BY <2>2, <2>3, <2>4
  <2> QED BY <2>2, <2>4, <2>5, FunctionIsSeq
<1>4. TypeOK'
  BY <1>1, <1>2, <1>3 DEF TypeOK
<1>5. Shape'
  BY <1>1, <1>2 DEF Shape
<1>6. MenuFits'
  BY <1>2, <1>3 DEF MenuFits
<1>7. ListIsPrefix' /\ PickedIsShown' /\ CrashNeedsRemoval'
  BY <1>1, <1>2 DEF ListIsPrefix, PickedIsShown, CrashNeedsRemoval
<1>8. ListTellsHosts' /\ TitleTellsHost'
  BY <1>1, <1>2 DEF ListTellsHosts, TitleTellsHost, Resolved, FullIP
<1>9. ListCurrent'
  BY <1>1, <1>2 DEF ListCurrent, FullServices, Found, Dictionary, FullIP
<1> QED BY <1>4, <1>5, <1>6, <1>7, <1>8, <1>9 DEF DeviceInv

\* The menu of the iOS client is answered with an index.
LEMMA PickStep ==
    ASSUME DeviceInv, NEW i, MenuItemAction(i)
    PROVE  DeviceInv'
<1>1. /\ TypeOK /\ Shape /\ ListIsPrefix /\ MenuFits /\ ListTellsHosts
      /\ ListCurrent /\ PickedIsShown /\ CrashNeedsRemoval /\ TitleTellsHost
  BY DEF DeviceInv
<1>2. /\ menu # Nil /\ ~crashed /\ i \in DOMAIN menu /\ menu' = Nil /\ picks' = picks + 1
      /\ UNCHANGED <<platform, list, listStale, menuStale, reordered>>
      /\ UNCHANGED <<services, addresses, batch, changes>>
  BY DEF MenuItemAction, bonjour
<1>3. platform = "ios" /\ menu \in Seq(Names) /\ picks' \in 0..MaxPicks
  BY <1>1, <1>2, BoundAssumption DEF Shape, TypeOK
<1>4. menu[i] \in Names
  BY <1>2, <1>3, ElementOfSeq, LenProperties
<1>5. Shape' /\ ListIsPrefix' /\ MenuFits'
  BY <1>1, <1>2, <1>3 DEF Shape, ListIsPrefix, MenuFits
<1>6. ListTellsHosts'
  BY <1>1, <1>2 DEF ListTellsHosts, Resolved, FullIP
<1>7. ListCurrent'
  BY <1>1, <1>2 DEF ListCurrent, FullServices, Found, Dictionary, FullIP
<1>8. CASE i \in DOMAIN list
  <2>1. PICK e : e = list[i]
    OBVIOUS
  <2>2. /\ title' = e.name /\ host' = e.fullIP /\ UNCHANGED crashed
    BY <1>8, <2>1 DEF MenuItemAction, SelectDeviceAtIndex
  <2>3. last' = [shown |-> menu[i], got |-> list[i].name,
                 disturbed |-> menuStale \/ reordered, resolved |-> TRUE]
    BY <1>8 DEF MenuItemAction
  <2>4. PICK d \in BOOLEAN : d <=> menuStale \/ reordered
    OBVIOUS
  <2>5. last' = [shown |-> menu[i], got |-> e.name, disturbed |-> d, resolved |-> TRUE]
    <3>1. (menuStale \/ reordered) = d
      BY <2>4
    <3> QED BY <2>1, <2>3, <3>1
  <2>6. e.name \in Names /\ e.fullIP \in Names \cup {NoAddress}
    BY <1>1, <1>3, <1>8, <2>1, ListEntries
  <2>7. TypeOK'
    <3>1. last' \in [shown : Names, got : Names \cup {Nil}, disturbed : BOOLEAN, resolved : BOOLEAN]
      BY <1>4, <2>5, <2>6
    <3> QED BY <1>1, <1>2, <1>3, <2>2, <2>6, <3>1 DEF TypeOK
  <2>8. PickedIsShown'
    <3> SUFFICES ASSUME ~last'.disturbed PROVE last'.got = last'.shown
      BY DEF PickedIsShown
    <3>1. ~d /\ last'.got = e.name /\ last'.shown = menu[i]
      BY <2>5
    <3>2. list[i].name = menu[i]
      BY <1>1, <1>2, <2>4, <3>1 DEF MenuFits
    <3> QED BY <2>1, <3>1, <3>2
  <2>9. CrashNeedsRemoval'
    BY <1>2, <2>2 DEF CrashNeedsRemoval
  <2>10. TitleTellsHost'
    BY <1>1, <1>2, <1>3, <1>8, <2>1, <2>2 DEF TitleTellsHost, ListTellsHosts, Resolved, FullIP
  <2> QED BY <1>5, <1>6, <1>7, <2>7, <2>8, <2>9, <2>10 DEF DeviceInv
<1>9. CASE i \notin DOMAIN list
  <2>1. crashed' = TRUE /\ UNCHANGED <<host, title, last>>
    BY <1>9 DEF MenuItemAction
  <2>2. TypeOK'
    BY <1>1, <1>2, <1>3, <2>1 DEF TypeOK
  <2>3. menuStale
    BY <1>1, <1>2, <1>9 DEF MenuFits
  <2>4. CrashNeedsRemoval' /\ PickedIsShown'
    BY <1>1, <1>2, <2>1, <2>3 DEF CrashNeedsRemoval, PickedIsShown
  <2>5. TitleTellsHost'
    BY <1>1, <1>2, <1>3, <2>1 DEF TitleTellsHost, Resolved, FullIP
  <2> QED BY <1>5, <1>6, <1>7, <2>2, <2>4, <2>5 DEF DeviceInv
<1> QED BY <1>8, <1>9

LEMMA DismissStep ==
    ASSUME DeviceInv, Dismiss
    PROVE  DeviceInv'
<1>1. /\ TypeOK /\ Shape /\ ListIsPrefix /\ MenuFits /\ ListTellsHosts
      /\ ListCurrent /\ PickedIsShown /\ CrashNeedsRemoval /\ TitleTellsHost
  BY DEF DeviceInv
<1>2. /\ menu # Nil /\ menu' = Nil /\ picks' = picks + 1
      /\ UNCHANGED <<platform, list, title, host, crashed, listStale, menuStale, reordered, last>>
      /\ UNCHANGED <<services, addresses, batch, changes>>
  BY DEF Dismiss, bonjour, history
<1>3. platform = "ios" /\ picks' \in 0..MaxPicks
  BY <1>1, <1>2, BoundAssumption DEF Shape, TypeOK
<1>4. TypeOK'
  BY <1>1, <1>2, <1>3 DEF TypeOK
<1>5. Shape' /\ ListIsPrefix' /\ MenuFits' /\ PickedIsShown' /\ CrashNeedsRemoval'
  BY <1>1, <1>2, <1>3 DEF Shape, ListIsPrefix, MenuFits, PickedIsShown, CrashNeedsRemoval
<1>6. ListTellsHosts' /\ TitleTellsHost'
  BY <1>1, <1>2 DEF ListTellsHosts, TitleTellsHost, Resolved, FullIP
<1>7. ListCurrent'
  BY <1>1, <1>2 DEF ListCurrent, FullServices, Found, Dictionary, FullIP
<1> QED BY <1>4, <1>5, <1>6, <1>7 DEF DeviceInv
\* The pop-up button of the Mac client is answered with an index.
LEMMA MacStep ==
    ASSUME DeviceInv, NEW i, MenuItemSelected(i)
    PROVE  DeviceInv'
<1>1. /\ TypeOK /\ Shape /\ ListIsPrefix /\ MenuFits /\ ListTellsHosts
      /\ ListCurrent /\ PickedIsShown /\ CrashNeedsRemoval /\ TitleTellsHost
  BY DEF DeviceInv
<1>2. /\ platform = "osx" /\ picks < MaxPicks /\ i \in DOMAIN list
      /\ title' = list[i] /\ picks' = picks + 1
      /\ UNCHANGED <<platform, list, menu, crashed, listStale, menuStale, reordered>>
      /\ UNCHANGED <<services, addresses, batch, changes>>
  BY DEF MenuItemSelected, bonjour
<1>3. list \in Seq(Names \cup Sentinels) /\ services \in Seq(Names \cup Sentinels)
  BY <1>1, <1>2 DEF TypeOK
<1>4. PICK len : len = Len(list)
  OBVIOUS
<1>5. len \in Nat /\ DOMAIN list = 1..len /\ i \in 1..len
  BY <1>2, <1>3, <1>4, LenProperties
<1>6. /\ len >= 2 /\ list[1] = Choose /\ list[len] = Other
      /\ \A j \in 2..(len - 1) : list[j] \in Names
  BY <1>1, <1>2, <1>4, <1>5 DEF Shape, Framed
<1>7. title' \in Names \cup Sentinels
  BY <1>2, <1>5, <1>6 DEF Sentinels
<1>8. picks' \in 0..MaxPicks
  BY <1>1, <1>2, BoundAssumption DEF TypeOK
<1>9. Shape' /\ ListIsPrefix' /\ MenuFits' /\ ListTellsHosts' /\ ListCurrent' /\ CrashNeedsRemoval'
  BY <1>1, <1>2 DEF Shape, Framed, ListIsPrefix, MenuFits, ListTellsHosts, ListCurrent,
                    CrashNeedsRemoval
<1>10. ASSUME host' \in Names \cup {NoAddress, Typed, Nil},
              last' = Nil \/ last' \in [shown : Names, got : Names \cup {Nil},
                                       disturbed : BOOLEAN, resolved : BOOLEAN]
       PROVE  TypeOK'
  BY <1>1, <1>2, <1>7, <1>8, <1>10 DEF TypeOK
<1>11. CASE i = 1 \/ i = len
  <2>1. title' = Choose \/ title' = Other
    BY <1>2, <1>6, <1>11
  <2>2. TitleTellsHost'
    BY <1>2, <2>1, SpecialAssumption DEF TitleTellsHost
  <2>3. host' \in Names \cup {NoAddress, Typed, Nil} /\ UNCHANGED last
    <3>1. host \in Names \cup {NoAddress, Typed, Nil}
      BY <1>1 DEF TypeOK
    <3> QED BY <1>4, <1>11, <3>1 DEF MenuItemSelected
  <2>4. PickedIsShown'
    BY <1>1, <2>3 DEF PickedIsShown
  <2>5. last' = Nil \/ last' \in [shown : Names, got : Names \cup {Nil},
                                 disturbed : BOOLEAN, resolved : BOOLEAN]
    BY <1>1, <2>3 DEF TypeOK
  <2> QED BY <1>9, <1>10, <2>2, <2>3, <2>4, <2>5 DEF DeviceInv
<1>12. CASE i # 1 /\ i # len
  <2>1. PICK got, resolved :
            got = Service(i) /\ resolved = (Service(i) # Nil /\ Resolved(Service(i)))
    OBVIOUS
  <2>2. /\ last' = [shown |-> list[i], got |-> got, disturbed |-> listStale, resolved |-> resolved]
        /\ host' = IF last'.resolved THEN FullIP(addresses, got) ELSE host
    BY <1>4, <1>12, <2>1 DEF MenuItemSelected
  <2>3. i \in 2..(len - 1) /\ list[i] \in Names
    BY <1>5, <1>6, <1>12
  <2>4. resolved \in BOOLEAN /\ got \in Names \cup {Nil} /\ (resolved => got \in Names)
    BY <2>1 DEF Service
  <2>5. listStale \in BOOLEAN
    BY <1>1 DEF TypeOK
  <2>6. /\ last'.shown = list[i] /\ last'.got = got
        /\ last'.disturbed = listStale /\ last'.resolved = resolved
        /\ last' \in [shown : Names, got : Names \cup {Nil}, disturbed : BOOLEAN, resolved : BOOLEAN]
    BY <2>2, <2>3, <2>4, <2>5
  <2>7. ASSUME ~listStale PROVE got = list[i]
    <3>1. len <= Len(services) /\ list[i] = services[i]
      BY <1>1, <1>2, <1>4, <2>3, <2>7 DEF ListIsPrefix
    <3>2. i \in DOMAIN services
      BY <1>3, <1>5, <3>1, LenProperties
    <3> QED BY <2>1, <2>3, <3>1, <3>2 DEF Service
  <2>8. host' = IF resolved THEN FullIP(addresses, got) ELSE host
    BY <2>2, <2>6
  <2>9. FullIP(addresses, got) \in {got, NoAddress}
    BY DEF FullIP
  <2>10. host' \in Names \cup {NoAddress, Typed, Nil}
    BY <1>1, <2>4, <2>8, <2>9 DEF TypeOK
  <2>11. PickedIsShown'
    BY <2>6, <2>7 DEF PickedIsShown
  <2>12. TitleTellsHost'
    <3> SUFFICES ASSUME ~last'.disturbed, last'.resolved PROVE host' \in {title', NoAddress}
      BY <1>2 DEF TitleTellsHost
    <3>1. got = title' /\ resolved
      BY <1>2, <2>6, <2>7
    <3> QED BY <2>8, <2>9, <3>1
  <2> QED BY <1>9, <1>10, <2>6, <2>10, <2>11, <2>12 DEF DeviceInv
<1> QED BY <1>11, <1>12
(***************************************************************************)
(* The invariant, and the properties it gives.                             *)
(***************************************************************************)

LEMMA DeviceInit == Init => DeviceInv
<1> SUFFICES ASSUME Init PROVE DeviceInv
  OBVIOUS
<1>1. /\ platform \in {"ios", "osx"}
      /\ services = IF platform = "osx" THEN <<Choose, Other>> ELSE <<>>
      /\ addresses = [n \in Names |-> <<>>]
      /\ list = <<>> /\ menu = Nil /\ host \in {Nil, Typed} /\ title = Nil
      /\ crashed = FALSE /\ batch = FALSE /\ changes = 0 /\ picks = 0
      /\ (listStale <=> platform = "osx") /\ menuStale = FALSE /\ reordered = FALSE /\ last = Nil
  BY DEF Init
<1>2. listStale \in BOOLEAN
  BY DEF Init
<1>3. services \in Seq(Names \cup Sentinels)
  <2> DEFINE S == Names \cup Sentinels
  <2>1. Choose \in S /\ Other \in S
    BY DEF Sentinels
  <2> HIDE DEF S
  <2>2. <<Choose, Other>> \in Seq(S) /\ <<>> \in Seq(S)
    BY <2>1
  <2>3. services \in Seq(S)
    BY <1>1, <2>2
  <2> QED BY <2>3 DEF S
<1>4. TypeOK
  <2>1. addresses \in [Names -> Seq({"v4", "v6"})]
    BY <1>1
  <2>2. \A S : list \in Seq(S)
    BY <1>1
  <2>3. list \in Seq(Entries) /\ list \in Seq(Names \cup Sentinels)
    BY <2>2
  <2>4. {crashed, batch, listStale, menuStale, reordered} \subseteq BOOLEAN
    BY <1>1, <1>2
  <2>5. changes \in 0..MaxChanges /\ picks \in 0..MaxPicks
    BY <1>1, BoundAssumption
  <2>6. /\ menu = Nil /\ host \in Names \cup {NoAddress, Typed, Nil}
        /\ title \in Names \cup Sentinels \cup {Nil} /\ last = Nil
    BY <1>1
  <2> QED BY <1>1, <1>3, <2>1, <2>3, <2>4, <2>5, <2>6 DEF TypeOK
<1>5. Shape
  <2>1. Choose # Other
    <3>1. ASSUME Choose = Other PROVE FALSE
      <4>1. /\ IsFiniteSet({Choose, Typed, NoAddress, Nil})
            /\ Cardinality({Choose, Typed, NoAddress, Nil}) <= 4
        <5>1. /\ IsFiniteSet({Nil}) /\ Cardinality({Nil}) = 1
          BY FS_Singleton
        <5>2. /\ IsFiniteSet({NoAddress, Nil}) /\ Cardinality({NoAddress, Nil}) <= 2
          <6>1. {NoAddress, Nil} = {Nil} \cup {NoAddress}
            OBVIOUS
          <6> QED BY <5>1, <6>1, FS_AddElement
        <5>3. /\ IsFiniteSet({Typed, NoAddress, Nil}) /\ Cardinality({Typed, NoAddress, Nil}) <= 3
          <6>1. {Typed, NoAddress, Nil} = {NoAddress, Nil} \cup {Typed}
            OBVIOUS
          <6>2. Cardinality({NoAddress, Nil}) \in Nat
            BY <5>2, FS_CardinalityType
          <6> QED BY <5>2, <6>1, <6>2, FS_AddElement
        <5>4. {Choose, Typed, NoAddress, Nil} = {Typed, NoAddress, Nil} \cup {Choose}
          OBVIOUS
        <5>5. Cardinality({Typed, NoAddress, Nil}) \in Nat
          BY <5>3, FS_CardinalityType
        <5> QED BY <5>3, <5>4, <5>5, FS_AddElement
      <4>2. {Choose, Other, Typed, NoAddress, Nil} = {Choose, Typed, NoAddress, Nil}
        BY <3>1
      <4> QED BY <4>1, <4>2, SpecialAssumption
    <3> QED BY <3>1
  <2>2. CASE platform = "osx"
    <3>1. services = <<Choose, Other>> /\ Len(services) = 2 /\ DOMAIN services = 1..2
          /\ services[1] = Choose /\ services[2] = Other
      BY <1>1, <2>2
    <3>2. Framed(services)
      BY <3>1 DEF Framed
    <3>3. \A i, j \in DOMAIN services : services[i] = services[j] => i = j
      BY <2>1, <3>1
    <3> QED BY <1>1, <2>2, <3>2, <3>3 DEF Shape
  <2>3. CASE platform = "ios"
    BY <1>1, <2>3 DEF Shape
  <2> QED BY <1>1, <2>2, <2>3
<1>6. ListIsPrefix /\ MenuFits /\ ListTellsHosts /\ PickedIsShown /\ CrashNeedsRemoval
  BY <1>1 DEF ListIsPrefix, MenuFits, ListTellsHosts, PickedIsShown, CrashNeedsRemoval
<1>7. ListCurrent
  <2> SUFFICES ASSUME platform = "ios" PROVE list = FullServices(addresses)
    BY <1>1 DEF ListCurrent
  <2>1. Found(addresses) = {}
    BY <1>1 DEF Found
  <2>2. Cardinality(Found(addresses)) = 0
    BY <2>1, FS_EmptySet
  <2>3. PICK made : made = FullServices(addresses)
    OBVIOUS
  <2>4. made \in Seq(Entries) /\ DOMAIN made = 1..0
    <3>1. addresses \in [Names -> Seq({"v4", "v6"})]
      BY <1>4 DEF TypeOK
    <3>2. PICK families : families = addresses
      OBVIOUS
    <3> QED BY <1>4, <1>5, <2>2, <2>3, <3>1, <3>2, FullServicesIs
  <2>5. Len(made) = 0
    BY <2>4, LenProperties
  <2> QED BY <1>1, <2>3, <2>4, <2>5, EmptySeq
<1>8. TitleTellsHost
  <2>1. Nil \notin Names
    BY SpecialAssumption
  <2> QED BY <1>1, <2>1 DEF TitleTellsHost
<1> QED BY <1>4, <1>5, <1>6, <1>7, <1>8 DEF DeviceInv

LEMMA DeviceNext == DeviceInv /\ [Next]_vars => DeviceInv'
<1> SUFFICES ASSUME DeviceInv, [Next]_vars PROVE DeviceInv'
  OBVIOUS
<1>1. CASE \E n \in Names, more \in BOOLEAN : DidFindService(n, more)
  BY <1>1, FindStep
<1>2. CASE \E n \in Names, more \in BOOLEAN : DidRemoveService(n, more)
  <2>1. PICK n \in Names, more \in BOOLEAN : DidRemoveService(n, more)
    BY <1>2
  <2>2. Leaves(n) /\ batch' \in BOOLEAN /\ changes < MaxChanges /\ changes' = changes + 1
    BY <2>1 DEF DidRemoveService
  <2>3. changes' \in 0..MaxChanges
    BY <2>2, BoundAssumption DEF DeviceInv, TypeOK
  <2> QED BY <2>2, <2>3, LeaveStep
<1>3. CASE \E n \in Names : DidNotResolve(n)
  <2>1. PICK n \in Names : Leaves(n) /\ UNCHANGED <<batch, changes>>
    BY <1>3 DEF DidNotResolve
  <2>2. batch' \in BOOLEAN /\ changes' \in 0..MaxChanges
    BY <2>1 DEF DeviceInv, TypeOK
  <2> QED BY <2>1, <2>2, LeaveStep
<1>4. CASE \E n \in Names, f \in {"v4", "v6"} : DidResolveAddress(n, f)
  BY <1>4, ResolveStep
<1>5. CASE AtvButtonSelected
  BY <1>5, OpenStep
<1>6. CASE \E i \in 1..Cardinality(Names) : MenuItemAction(i)
  BY <1>6, PickStep
<1>7. CASE Dismiss
  BY <1>7, DismissStep
<1>8. CASE \E i \in 1..(Cardinality(Names) + 2) : MenuItemSelected(i)
  BY <1>8, MacStep
<1>9. CASE UNCHANGED vars
  <2>1. UNCHANGED <<platform, services, addresses, batch, changes, list, menu, title, host,
                    crashed, picks, listStale, menuStale, reordered, last>>
    BY <1>9 DEF vars, bonjour, shown, history
  <2>2. TypeOK'
    BY <2>1 DEF DeviceInv, TypeOK
  <2>3. Shape' /\ ListIsPrefix' /\ MenuFits' /\ PickedIsShown' /\ CrashNeedsRemoval'
    BY <2>1 DEF DeviceInv, Shape, Framed, ListIsPrefix, MenuFits, PickedIsShown, CrashNeedsRemoval
  <2>4. ListTellsHosts' /\ TitleTellsHost'
    BY <2>1 DEF DeviceInv, ListTellsHosts, TitleTellsHost, Resolved, FullIP
  <2>5. ListCurrent'
    BY <2>1 DEF DeviceInv, ListCurrent, FullServices, Found, Dictionary, FullIP
  <2> QED BY <2>2, <2>3, <2>4, <2>5 DEF DeviceInv
<1>10. CASE Over
  BY <1>9, <1>10 DEF Over
<1> QED BY <1>1, <1>2, <1>3, <1>4, <1>5, <1>6, <1>7, <1>8, <1>9, <1>10 DEF Next

LEMMA DeviceInvariant == Spec => []DeviceInv
<1> QED BY DeviceInit, DeviceNext, PTL DEF Spec

\* The types of DeviceBrowser: in particular commands are sent to an address or to nowhere
\* (the default appleTVHost), whatever array the index of a menu is taken from.
THEOREM DeviceTypeCorrect == Spec => []TypeOK
<1>1. DeviceInv => TypeOK
  BY DEF DeviceInv
<1> QED BY <1>1, DeviceInvariant, PTL

\* Both clients: menuItemAction: and menuItemSelected: take the device that stood at the
\* chosen place of the menu, unless a service left the array or was resolved out of order.
THEOREM PickedIsShownAlways == Spec => []PickedIsShown
<1>1. DeviceInv => PickedIsShown
  BY DEF DeviceInv
<1> QED BY <1>1, DeviceInvariant, PTL

\* iOS: the index of an open menu is outside of the list (NSRangeException) only after a
\* service left since the list of the menu was made.
THEOREM CrashNeedsRemovalAlways == Spec => []CrashNeedsRemoval
<1>1. DeviceInv => CrashNeedsRemoval
  BY DEF DeviceInv
<1> QED BY <1>1, DeviceInvariant, PTL

\* The address that commands go to is that of the device on the screen, in the cases that
\* TitleTellsHost names.
THEOREM TitleTellsHostAlways == Spec => []TitleTellsHost
<1>1. DeviceInv => TitleTellsHost
  BY DEF DeviceInv
<1> QED BY <1>1, DeviceInvariant, PTL

\* Between batches the lists of both clients are the services of the browser, in order,
\* until one leaves.
THEOREM ListCurrentAlways == Spec => []ListCurrent
<1>1. DeviceInv => ListCurrent
  BY DEF DeviceInv
<1> QED BY <1>1, DeviceInvariant, PTL
==============================================================================
