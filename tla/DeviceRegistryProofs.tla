------------------------ MODULE DeviceRegistryProofs ------------------------
(***************************************************************************)
(* The properties of DeviceRegistry, for every set of devices and names.   *)
(*                                                                         *)
(* The inductive invariant is TypeOK, together with two facts the code     *)
(* relies on without saying so: a claim points at a row that exists (the   *)
(* foreign key of device_alias), and ids are distinct (the primary key of  *)
(* device).  The first keeps availability messages off missing rows; the   *)
(* second makes "lowest id wins" pick one device.                          *)
(***************************************************************************)
EXTENDS DeviceRegistry, FiniteSetTheorems, WellFoundedInduction, TLAPS

ClaimsPointAtRows == \A n \in Name : alias[n] \in Registered \cup {Nobody}

IdsAreDistinct ==
    \A a, b \in Registered : device[a].id = device[b].id => a = b

RegistryInv == TypeOK /\ ClaimsPointAtRows /\ IdsAreDistinct

-----------------------------------------------------------------------------
(***************************************************************************)
(* Numbers, lists and the choices the operators make.                      *)
(***************************************************************************)
\* A set of natural numbers that is not empty has a least element.
LEMMA LeastExists ==
    ASSUME NEW S \in SUBSET Nat, S # {}
    PROVE  \E m \in S : \A k \in S : m <= k
<1> DEFINE R == {p \in Nat \X Nat : p[1] < p[2]}
<1>1. IsWellFoundedOn(R, Nat)
  BY NatLessThanWellFounded, Zenon DEF OpToRel
<1>2. \A x, y \in Nat : x < y => <<x, y>> \in R
  OBVIOUS
<1> HIDE DEF R
<1>3. PICK m \in S : \A k \in S : ~(<<k, m>> \in R)
  BY <1>1, WFMin, Zenon
<1>4. ASSUME NEW k \in S PROVE m <= k
  <2>1. m \in Nat /\ k \in Nat
    OBVIOUS
  <2>2. ~(k < m)
    BY <1>2, <1>3, <2>1
  <2> QED BY <2>1, <2>2
<1> QED BY <1>4

\* What a list of DeviceList is.
LEMMA ListFacts ==
    ASSUME NEW list \in DeviceList
    PROVE  /\ DOMAIN list \in SUBSET Nat
           /\ IsFiniteSet(DOMAIN list)
           /\ \A i \in DOMAIN list : list[i] \in Payload
           /\ \A i \in DOMAIN list : list[i].ieee_address \in Ieee
           /\ \A i \in DOMAIN list : list[i].friendly_name \in Name
           /\ \A i, j \in DOMAIN list :
                 list[i].ieee_address = list[j].ieee_address => i = j
           /\ \A i, j \in DOMAIN list :
                 list[i].friendly_name = list[j].friendly_name => i = j
<1>1. Cardinality(Ieee) \in Nat
  BY FS_CardinalityType, RegistryAssumption
<1>2. PICK k \in 0..Cardinality(Ieee) : list \in [1..k -> Payload]
  BY DEF DeviceList
<1>3. DOMAIN list = 1..k /\ k \in Nat
  BY <1>1, <1>2
<1>4. IsFiniteSet(1..k)
  BY <1>3, FS_Interval
<1>5. \A i \in DOMAIN list : list[i] \in Payload
  BY <1>2
<1>6. \A i, j \in DOMAIN list : i # j =>
            /\ list[i].ieee_address # list[j].ieee_address
            /\ list[i].friendly_name # list[j].friendly_name
  BY DEF DeviceList
<1> QED BY <1>3, <1>4, <1>5, <1>6 DEF Payload

\* The entry of a listed device is the only one with its address.
LEMMA EntryFacts ==
    ASSUME NEW list \in DeviceList, NEW a \in Listed(list)
    PROVE  /\ EntryOf(list, a) \in DOMAIN list
           /\ list[EntryOf(list, a)].ieee_address = a
BY DEF EntryOf, Listed

\* The entry at i is the entry of its device.
LEMMA EntryOfItsDevice ==
    ASSUME NEW list \in DeviceList, NEW i \in DOMAIN list
    PROVE  /\ list[i].ieee_address \in Listed(list)
           /\ EntryOf(list, list[i].ieee_address) = i
<1>1. list[i].ieee_address \in Listed(list)
  BY DEF Listed
<1> QED BY <1>1, EntryFacts, ListFacts

\* Devices seen for the first time are counted by numbers below their total, and a
\* later one by a larger number than an earlier one.
LEMMA FirstSeenCounts ==
    ASSUME NEW list \in DeviceList
    PROVE  /\ Cardinality(FirstSeen(list)) \in Nat
           /\ \A i \in FirstSeen(list) :
                 /\ Cardinality(FirstSeenBefore(list, i)) \in Nat
                 /\ Cardinality(FirstSeenBefore(list, i)) < Cardinality(FirstSeen(list))
                 /\ \A j \in FirstSeen(list) : i < j =>
                       Cardinality(FirstSeenBefore(list, i))
                          < Cardinality(FirstSeenBefore(list, j))
<1>1. /\ FirstSeen(list) \subseteq DOMAIN list
      /\ IsFiniteSet(FirstSeen(list))
      /\ FirstSeen(list) \subseteq Nat
  BY ListFacts, FS_Subset DEF FirstSeen
<1>2. ASSUME NEW i \in FirstSeen(list), NEW T, T \subseteq FirstSeen(list),
             FirstSeenBefore(list, i) \subseteq T, i \in T
      PROVE  /\ Cardinality(FirstSeenBefore(list, i)) \in Nat
             /\ Cardinality(FirstSeenBefore(list, i)) < Cardinality(T)
  <2> DEFINE B == FirstSeenBefore(list, i)
  <2>1. IsFiniteSet(T) /\ IsFiniteSet(B)
    BY <1>1, <1>2, FS_Subset
  <2>2. i \notin B
    BY <1>1 DEF FirstSeenBefore
  <2>3. Cardinality(B \cup {i}) = Cardinality(B) + 1
    BY <2>1, <2>2, FS_AddElement
  <2>4. B \cup {i} \subseteq T
    BY <1>2
  <2>5. Cardinality(B \cup {i}) <= Cardinality(T)
    BY <2>1, <2>4, FS_Subset
  <2>6. Cardinality(B) \in Nat /\ Cardinality(T) \in Nat
    BY <2>1, FS_CardinalityType
  <2> QED BY <2>3, <2>5, <2>6
<1>3. ASSUME NEW i \in FirstSeen(list)
      PROVE  /\ Cardinality(FirstSeenBefore(list, i)) \in Nat
             /\ Cardinality(FirstSeenBefore(list, i)) < Cardinality(FirstSeen(list))
  <2>1. FirstSeenBefore(list, i) \subseteq FirstSeen(list)
    BY DEF FirstSeenBefore
  <2> QED BY <1>2, <2>1
<1>4. ASSUME NEW i \in FirstSeen(list), NEW j \in FirstSeen(list), i < j
      PROVE  Cardinality(FirstSeenBefore(list, i)) < Cardinality(FirstSeenBefore(list, j))
  <2>1. /\ FirstSeenBefore(list, j) \subseteq FirstSeen(list)
        /\ FirstSeenBefore(list, i) \subseteq FirstSeenBefore(list, j)
        /\ i \in FirstSeenBefore(list, j)
    BY <1>1, <1>4 DEF FirstSeenBefore
  <2> QED BY <1>2, <2>1
<1>5. Cardinality(FirstSeen(list)) \in Nat
  BY <1>1, FS_CardinalityType
<1> QED BY <1>3, <1>4, <1>5

-----------------------------------------------------------------------------
(***************************************************************************)
(* What a sync makes of rows and aliases.                                  *)
(***************************************************************************)
\* A device that is listed has a row afterwards: its own, under its new label, or
\* a fresh one whose id the sequence has not handed out before.
LEMMA SyncedListed ==
    ASSUME TypeOK, NEW list \in DeviceList, SyncDevices(list), NEW i \in DOMAIN list
    PROVE  LET a == list[i].ieee_address IN
           /\ device'[a] = SyncedRow(list, i)
           /\ device'[a] \in Row
           /\ device'[a].friendly_name = list[i].friendly_name
           /\ a \in Registered => /\ device'[a].id = device[a].id
                                  /\ device'[a].available = device[a].available
           /\ a \notin Registered =>
                 device'[a].id = nextId + Cardinality(FirstSeenBefore(list, i))
           /\ device'[a].id < nextId'
<1> DEFINE a == list[i].ieee_address
<1>1. a \in Ieee /\ list[i] \in Payload /\ list[i].friendly_name \in Name
  BY ListFacts
<1>2. a \in Listed(list) /\ EntryOf(list, a) = i
  BY EntryOfItsDevice
<1>3. device'[a] = SyncedRow(list, i)
  BY <1>1, <1>2 DEF SyncDevices, SyncedDevice
<1>4. DerivedType[a] \in Type
  BY <1>1, RegistryAssumption
<1>5. /\ nextId \in Nat /\ nextId >= 1
      /\ nextId' = nextId + Cardinality(FirstSeen(list))
      /\ nextId' <= MaxId + 1
      /\ MaxId \in Nat
      /\ Cardinality(FirstSeen(list)) \in Nat
  BY RegistryAssumption, FirstSeenCounts DEF TypeOK, SyncDevices, SyncedNextId
<1>6. CASE a \in Registered
  <2>1. device[a] \in Row /\ device[a].id < nextId
    BY <1>1, <1>6, RowAssumption DEF TypeOK, Registered, IsRegistered
  <2>2. device'[a] = UpdateEntityFromPayload(list[i], device[a])
    BY <1>3, <1>6 DEF SyncedRow, Registered
  <2>3. device'[a] = [device[a] EXCEPT !.friendly_name = list[i].friendly_name,
                                       !.type = DerivedType[a]]
    BY <2>2 DEF UpdateEntityFromPayload
  <2>4. device'[a] \in Row
    BY <1>1, <1>4, <2>1, <2>3 DEF Row
  <2>5. /\ device'[a].friendly_name = list[i].friendly_name
        /\ device'[a].id = device[a].id
        /\ device'[a].available = device[a].available
    BY <2>1, <2>3 DEF Row
  <2>6. device[a].id \in Nat
    BY <2>1, <1>5 DEF Row
  <2> QED BY <1>3, <1>5, <1>6, <2>1, <2>4, <2>5, <2>6
<1>7. CASE a \notin Registered
  <2>1. i \in FirstSeen(list)
    BY <1>1, <1>7 DEF FirstSeen, Registered
  <2>2. device'[a] = ToEntity(list[i], nextId + Cardinality(FirstSeenBefore(list, i)))
    BY <1>1, <1>3, <1>7 DEF SyncedRow, Registered
  <2>3. device'[a].id = nextId + Cardinality(FirstSeenBefore(list, i))
    BY <2>2 DEF ToEntity
  <2>4. /\ Cardinality(FirstSeenBefore(list, i)) \in Nat
        /\ Cardinality(FirstSeenBefore(list, i)) < Cardinality(FirstSeen(list))
    BY <2>1, FirstSeenCounts
  <2>5. device'[a].id \in 1..MaxId /\ device'[a].id < nextId'
    BY <1>5, <2>3, <2>4
  <2>6. device'[a] \in Row /\ device'[a].friendly_name = list[i].friendly_name
    BY <1>1, <1>4, <2>2, <2>3, <2>5 DEF ToEntity, Row
  <2> QED BY <1>3, <1>7, <2>3, <2>5, <2>6
<1> QED BY <1>6, <1>7

\* A device that is not listed keeps its row, marked offline, or stays unknown.
LEMMA SyncedUnlisted ==
    ASSUME TypeOK, NEW list \in DeviceList, SyncDevices(list),
           NEW a \in Ieee, a \notin Listed(list)
    PROVE  /\ a \in Registered <=> a \in Registered'
           /\ a \in Registered => /\ device'[a] \in Row
                                  /\ device'[a].id = device[a].id
                                  /\ device'[a].friendly_name = device[a].friendly_name
                                  /\ device'[a].available = FALSE
<1>1. device'[a] = MarkUnavailable(a)
  BY DEF SyncDevices, SyncedDevice
<1>2. CASE a \in Registered
  <2>1. device[a] \in Row
    BY <1>2 DEF TypeOK, Registered, IsRegistered
  <2>2. device'[a] = [device[a] EXCEPT !.available = FALSE]
    BY <1>1, <1>2 DEF MarkUnavailable, Registered
  <2>3. device'[a] \in Row
    BY <2>1, <2>2 DEF Row
  <2>4. a \in Registered'
    BY <2>3, RowAssumption DEF Registered, IsRegistered
  <2> QED BY <1>2, <2>1, <2>2, <2>3, <2>4 DEF Row
<1>3. CASE a \notin Registered
  BY <1>1, <1>3 DEF MarkUnavailable, Registered, IsRegistered
<1> QED BY <1>2, <1>3

\* A sync registers the listed devices and forgets none.
LEMMA SyncedRegistered ==
    ASSUME TypeOK, NEW list \in DeviceList, SyncDevices(list)
    PROVE  Registered' = Registered \cup Listed(list)
<1>1. ASSUME NEW a \in Listed(list) PROVE a \in Registered'
  <2>1. PICK i \in DOMAIN list : list[i].ieee_address = a
    BY <1>1 DEF Listed
  <2>2. a \in Ieee /\ device'[a] \in Row
    BY <2>1, ListFacts, SyncedListed
  <2> QED BY <2>2, RowAssumption DEF Registered, IsRegistered
<1>2. Registered \subseteq Ieee /\ Registered' \subseteq Ieee
  BY DEF Registered
<1>3. \A a \in Ieee : a \notin Listed(list) => (a \in Registered <=> a \in Registered')
  BY SyncedUnlisted
<1> QED BY <1>1, <1>2, <1>3

\* A name that is taken stays taken, a name an entry records is taken afterwards,
\* and a name that was free is taken by a listed device.
LEMMA SyncedNames ==
    ASSUME TypeOK, NEW list \in DeviceList, SyncDevices(list), NEW n \in Name
    PROVE  /\ alias[n] # Nobody => alias'[n] = alias[n]
           /\ alias'[n] = alias[n] \/ alias'[n] \in Listed(list)
           /\ \A i \in DOMAIN list : n \in Recorded(list, i) => alias'[n] # Nobody
<1> DEFINE claimants == {i \in DOMAIN list : n \in Recorded(list, i)}
           first == CHOOSE i \in claimants : \A j \in claimants : i <= j
<1>1. alias'[n] = IF alias[n] # Nobody \/ claimants = {} THEN alias[n]
                  ELSE list[first].ieee_address
  BY DEF SyncDevices, SyncedAlias
<1>2. claimants # {} => first \in claimants
  <2>1. claimants \in SUBSET Nat
    BY ListFacts
  <2>2. claimants # {} => \E i \in claimants : \A j \in claimants : i <= j
    BY <2>1, LeastExists
  <2> QED BY <2>2
<1>3. claimants # {} => /\ list[first].ieee_address \in Listed(list)
                        /\ list[first].ieee_address \in Ieee
  BY <1>2, ListFacts DEF Listed
<1>4. Nobody \notin Ieee
  BY RegistryAssumption
<1> HIDE DEF first
<1> QED BY <1>1, <1>3, <1>4

-----------------------------------------------------------------------------
(***************************************************************************)
(* The inductive invariant.                                                *)
(***************************************************************************)
LEMMA InitInv == Init => RegistryInv
BY RegistryAssumption DEF Init, RegistryInv, TypeOK, ClaimsPointAtRows, IdsAreDistinct,
    Registered, IsRegistered

\* A registered device has a row with an id.
LEMMA RowFacts ==
    ASSUME TypeOK, NEW a \in Registered
    PROVE  /\ a \in Ieee
           /\ device[a] \in Row
           /\ device[a].id \in Nat
           /\ device[a].friendly_name \in Name
           /\ device[a].id < nextId
<1>1. a \in Ieee /\ device[a] \in Row
  BY DEF TypeOK, Registered, IsRegistered
<1>2. MaxId \in Nat
  BY RegistryAssumption
<1> QED BY <1>1, <1>2 DEF TypeOK, Row

\* A label leads to the row with the least id.
LEMMA LowestIdWins ==
    ASSUME TypeOK, NEW n, Labelled(n) # {}
    PROVE  /\ FindByFriendlyName(n) \in Labelled(n)
           /\ \A b \in Labelled(n) : device[FindByFriendlyName(n)].id <= device[b].id
<1> DEFINE ids == {device[a].id : a \in Labelled(n)}
<1>1. \A a \in Labelled(n) : device[a].id \in Nat
  BY RowFacts DEF Labelled
<1>2. ids \in SUBSET Nat /\ ids # {}
  BY <1>1
<1>3. PICK m \in ids : \A k \in ids : m <= k
  BY <1>2, LeastExists
<1>4. \E a \in Labelled(n) : \A b \in Labelled(n) : device[a].id <= device[b].id
  BY <1>3
<1> QED BY <1>4 DEF FindByFriendlyName

\* A resolved name leads to a row.
LEMMA ResolvedIsRegistered ==
    ASSUME RegistryInv, NEW n \in Name
    PROVE  Resolve(n) \in Registered \cup {Nobody}
BY LowestIdWins DEF Resolve, Labelled, RegistryInv, ClaimsPointAtRows

-----------------------------------------------------------------------------
(***************************************************************************)
(* Each operation preserves the invariant.                                 *)
(***************************************************************************)
LEMMA SyncInv ==
    ASSUME RegistryInv, NEW list \in DeviceList, SyncDevices(list)
    PROVE  RegistryInv'
<1>1. TypeOK
  BY DEF RegistryInv
<1>2. Registered' = Registered \cup Listed(list)
  BY <1>1, SyncedRegistered
<1>3. ASSUME NEW a \in Registered'
      PROVE  /\ device'[a] \in Row
             /\ device'[a].id < nextId'
             /\ a \in Registered => device'[a].id = device[a].id
             /\ a \notin Registered => a \in Listed(list)
  <2>1. CASE a \in Listed(list)
    BY <1>1, <2>1, EntryFacts, SyncedListed
  <2>2. CASE a \notin Listed(list)
    <3>1. a \in Registered /\ a \in Ieee
      BY <1>2, <2>2 DEF Registered
    <3>2. device'[a] \in Row /\ device'[a].id = device[a].id
      BY <1>1, <2>2, <3>1, SyncedUnlisted
    <3>3. device[a].id \in Nat /\ device[a].id < nextId
      BY <1>1, <3>1, RowFacts
    <3>4. nextId \in Nat /\ nextId' \in Nat /\ nextId <= nextId'
      BY <1>1, FirstSeenCounts, RegistryAssumption DEF TypeOK, SyncDevices, SyncedNextId
    <3> QED BY <3>1, <3>2, <3>3, <3>4
  <2> QED BY <2>1, <2>2
<1>4. TypeOK'
  <2>1. device' \in [Ieee -> Row \cup {NotRegistered}]
    <3>1. \A a \in Ieee : device'[a] \in Row \cup {NotRegistered}
      BY <1>3 DEF Registered, IsRegistered
    <3>2. device' = [a \in Ieee |-> device'[a]]
      BY DEF SyncDevices, SyncedDevice
    <3> QED BY <3>1, <3>2
  <2>2. alias' \in [Name -> Ieee \cup {Nobody}]
    <3>1. \A n \in Name : alias'[n] \in Ieee \cup {Nobody}
      BY <1>1, SyncedNames, ListFacts DEF TypeOK, Listed
    <3>2. alias' = [n \in Name |-> alias'[n]]
      BY DEF SyncDevices, SyncedAlias
    <3> QED BY <3>1, <3>2
  <2>3. nextId' \in 1..(MaxId + 1)
    BY <1>1, FirstSeenCounts, RegistryAssumption DEF TypeOK, SyncDevices, SyncedNextId
  <2> QED BY <1>3, <2>1, <2>2, <2>3 DEF TypeOK
<1>5. ClaimsPointAtRows'
  <2>1. ASSUME NEW n \in Name PROVE alias'[n] \in Registered' \cup {Nobody}
    BY <1>1, <1>2, SyncedNames DEF RegistryInv, ClaimsPointAtRows
  <2> QED BY <2>1 DEF ClaimsPointAtRows
<1>6. IdsAreDistinct'
  <2>1. ASSUME NEW a \in Registered', NEW b \in Registered',
               device'[a].id = device'[b].id, a \in Registered
        PROVE  a = b
    <3>1. CASE b \in Registered
      BY <1>3, <2>1, <3>1 DEF RegistryInv, IdsAreDistinct
    <3>2. CASE b \notin Registered
      <4>1. /\ EntryOf(list, b) \in DOMAIN list
            /\ list[EntryOf(list, b)].ieee_address = b
        BY <1>3, <3>2, EntryFacts
      <4>2. EntryOf(list, b) \in FirstSeen(list)
        BY <1>2, <3>2, <4>1, ListFacts DEF FirstSeen, Registered
      <4>3. device'[b].id >= nextId
        BY <1>1, <3>2, <4>1, <4>2, SyncedListed, FirstSeenCounts DEF TypeOK
      <4>4. device'[a].id < nextId /\ device'[a].id \in Nat
        BY <1>1, <1>3, <2>1, RowFacts
      <4> QED BY <1>1, <2>1, <4>3, <4>4 DEF TypeOK
    <3> QED BY <3>1, <3>2
  <2>2. ASSUME NEW a \in Registered', NEW b \in Registered',
               device'[a].id = device'[b].id, a \notin Registered, b \notin Registered
        PROVE  a = b
    <3> DEFINE i == EntryOf(list, a)
               j == EntryOf(list, b)
    <3>1. /\ i \in DOMAIN list /\ list[i].ieee_address = a
          /\ j \in DOMAIN list /\ list[j].ieee_address = b
      BY <1>3, <2>2, EntryFacts
    <3>2. i \in FirstSeen(list) /\ j \in FirstSeen(list) /\ i \in Nat /\ j \in Nat
      BY <2>2, <3>1, ListFacts DEF FirstSeen, Registered
    <3>3. /\ device'[a].id = nextId + Cardinality(FirstSeenBefore(list, i))
          /\ device'[b].id = nextId + Cardinality(FirstSeenBefore(list, j))
      BY <1>1, <2>2, <3>1, SyncedListed
    <3>4. nextId \in Nat
      BY <1>1 DEF TypeOK
    <3> DEFINE ci == Cardinality(FirstSeenBefore(list, i))
               cj == Cardinality(FirstSeenBefore(list, j))
    <3> HIDE DEF i, j
    <3>5. /\ ci \in Nat /\ cj \in Nat
          /\ i < j => ci < cj
          /\ j < i => cj < ci
      BY <3>2, FirstSeenCounts
    <3>6. nextId + ci = nextId + cj
      BY <2>2, <3>3
    <3> HIDE DEF ci, cj
    <3>7. i = j
      BY <3>2, <3>4, <3>5, <3>6
    <3> QED BY <3>1, <3>7
  <2> QED BY <2>1, <2>2 DEF IdsAreDistinct
<1> QED BY <1>4, <1>5, <1>6 DEF RegistryInv

\* A rename writes one row, and claims only names nobody holds, for that row.
LEMMA RenameFacts ==
    ASSUME TypeOK, NEW a \in Ieee, NEW n \in Name, NEW t \in Type \cup {Null},
           UpdateDevice(a, n, t)
    PROVE  /\ a \in Registered
           /\ Registered' = Registered
           /\ nextId' = nextId
           /\ device' \in [Ieee -> Row \cup {NotRegistered}]
           /\ \A b \in Registered : /\ device'[b] \in Row
                                    /\ device'[b].id = device[b].id
                                    /\ device'[b].available = device[b].available
           /\ \A b \in Ieee \ {a} : device'[b] = device[b]
           /\ device'[a].friendly_name = n
           /\ alias' \in [Name -> Ieee \cup {Nobody}]
           /\ \A m \in Name : \/ alias'[m] = alias[m]
                              \/ alias[m] = Nobody /\ alias'[m] = a
           /\ alias'[device[a].friendly_name] # Nobody \/ device[a].friendly_name = n
<1> DEFINE row == [device[a] EXCEPT !.friendly_name = n,
                                    !.type = IF t = Null THEN @ ELSE t]
<1>1. a \in Registered /\ device[a] \in Row /\ nextId' = nextId
  BY RowFacts DEF UpdateDevice
<1>2. device' = [device EXCEPT ![a] = row]
  BY <1>1 DEF UpdateDevice
<1>3. row \in Row /\ row.id = device[a].id /\ row.friendly_name = n
      /\ row.available = device[a].available
  BY <1>1 DEF Row
<1> HIDE DEF row
<1>4. device'[a] = row /\ \A b \in Ieee \ {a} : device'[b] = device[b]
  BY <1>2 DEF TypeOK
<1>5. device' \in [Ieee -> Row \cup {NotRegistered}]
  BY <1>2, <1>3 DEF TypeOK
<1>6. Registered' = Registered
  BY <1>1, <1>3, <1>4, RowAssumption DEF Registered, IsRegistered
<1>7. \A b \in Registered : /\ device'[b] \in Row
                            /\ device'[b].id = device[b].id
                            /\ device'[b].available = device[b].available
  BY <1>3, <1>4, RowFacts
<1>8. /\ alias' \in [Name -> Ieee \cup {Nobody}]
      /\ \A m \in Name : \/ alias'[m] = alias[m]
                         \/ alias[m] = Nobody /\ alias'[m] = a
  BY DEF UpdateDevice, RememberNames, TypeOK
<1>9. alias'[device[a].friendly_name] # Nobody \/ device[a].friendly_name = n
  BY <1>1, RowFacts, RegistryAssumption DEF UpdateDevice, RememberNames
<1> QED BY <1>1, <1>3, <1>4, <1>5, <1>6, <1>7, <1>8, <1>9

LEMMA RenameInv ==
    ASSUME RegistryInv, NEW a \in Ieee, NEW n \in Name, NEW t \in Type \cup {Null},
           UpdateDevice(a, n, t)
    PROVE  RegistryInv'
<1>1. TypeOK
  BY DEF RegistryInv
<1>2. TypeOK'
  BY <1>1, RenameFacts DEF TypeOK
<1>3. ClaimsPointAtRows'
  BY <1>1, RenameFacts DEF RegistryInv, ClaimsPointAtRows
<1>4. IdsAreDistinct'
  BY <1>1, RenameFacts DEF RegistryInv, IdsAreDistinct
<1> QED BY <1>2, <1>3, <1>4 DEF RegistryInv

\* A delete removes one row and exactly the claims on it.
LEMMA DeleteFacts ==
    ASSUME TypeOK, NEW a \in Ieee, DeleteDevice(a)
    PROVE  /\ Registered' = Registered \ {a}
           /\ nextId' = nextId
           /\ device' \in [Ieee -> Row \cup {NotRegistered}]
           /\ \A b \in Ieee \ {a} : device'[b] = device[b]
           /\ alias' \in [Name -> Ieee \cup {Nobody}]
           /\ \A n \in Name : alias'[n] = IF alias[n] = a THEN Nobody ELSE alias[n]
<1>1. device' = [device EXCEPT ![a] = NotRegistered]
  BY DEF DeleteDevice
<1>2. device'[a] = NotRegistered /\ \A b \in Ieee \ {a} : device'[b] = device[b]
  BY <1>1 DEF TypeOK
<1>3. Registered' = Registered \ {a}
  BY <1>2 DEF Registered, IsRegistered
<1> QED BY <1>1, <1>2, <1>3 DEF DeleteDevice, TypeOK

LEMMA DeleteInv ==
    ASSUME RegistryInv, NEW a \in Ieee, DeleteDevice(a)
    PROVE  RegistryInv'
<1>1. TypeOK
  BY DEF RegistryInv
<1>2. TypeOK'
  BY <1>1, DeleteFacts DEF TypeOK, Registered
<1>3. ClaimsPointAtRows'
  BY <1>1, DeleteFacts DEF RegistryInv, ClaimsPointAtRows
<1>4. IdsAreDistinct'
  BY <1>1, DeleteFacts DEF RegistryInv, IdsAreDistinct, Registered
<1> QED BY <1>2, <1>3, <1>4 DEF RegistryInv

\* An availability message writes the availability of the one row it resolves to.
LEMMA AvailabilityFacts ==
    ASSUME RegistryInv, NEW n \in Name, NEW online \in BOOLEAN,
           UpdateAvailability(n, online)
    PROVE  /\ Resolve(n) \in Registered
           /\ Registered' = Registered
           /\ alias' = alias /\ nextId' = nextId
           /\ device' \in [Ieee -> Row \cup {NotRegistered}]
           /\ \A b \in Registered : /\ device'[b] \in Row
                                    /\ device'[b].id = device[b].id
                                    /\ device'[b].friendly_name = device[b].friendly_name
           /\ \A b \in Ieee \ {Resolve(n)} : device'[b] = device[b]
           /\ device'[Resolve(n)].available = online
<1> DEFINE a == Resolve(n)
           row == [device[a] EXCEPT !.available = online]
<1>1. TypeOK /\ a \in Registered /\ alias' = alias /\ nextId' = nextId
  BY ResolvedIsRegistered DEF RegistryInv, UpdateAvailability
<1>2. device' = [device EXCEPT ![a] = row]
  BY DEF UpdateAvailability
<1> HIDE DEF a
<1>3. a \in Ieee /\ device[a] \in Row
  BY <1>1, RowFacts
<1>4. /\ row \in Row /\ row.id = device[a].id /\ row.available = online
      /\ row.friendly_name = device[a].friendly_name
  BY <1>3 DEF Row
<1> HIDE DEF row
<1>5. device'[a] = row /\ \A b \in Ieee \ {a} : device'[b] = device[b]
  BY <1>1, <1>2, <1>3 DEF TypeOK
<1>6. device' \in [Ieee -> Row \cup {NotRegistered}]
  BY <1>1, <1>2, <1>4 DEF TypeOK
<1>7. Registered' = Registered
  BY <1>1, <1>4, <1>5, RowAssumption DEF Registered, IsRegistered
<1>8. \A b \in Registered : /\ device'[b] \in Row
                            /\ device'[b].id = device[b].id
                            /\ device'[b].friendly_name = device[b].friendly_name
  BY <1>1, <1>4, <1>5, RowFacts
<1> QED BY <1>1, <1>4, <1>5, <1>6, <1>7, <1>8 DEF a

LEMMA AvailabilityInv ==
    ASSUME RegistryInv, NEW n \in Name, NEW online \in BOOLEAN,
           UpdateAvailability(n, online)
    PROVE  RegistryInv'
<1>1. TypeOK
  BY DEF RegistryInv
<1>2. TypeOK'
  BY <1>1, AvailabilityFacts DEF TypeOK
<1>3. ClaimsPointAtRows'
  BY AvailabilityFacts DEF RegistryInv, ClaimsPointAtRows
<1>4. IdsAreDistinct'
  BY AvailabilityFacts DEF RegistryInv, IdsAreDistinct
<1> QED BY <1>2, <1>3, <1>4 DEF RegistryInv

LEMMA StutterInv ==
    ASSUME RegistryInv, UNCHANGED vars
    PROVE  RegistryInv'
BY DEF RegistryInv, TypeOK, ClaimsPointAtRows, IdsAreDistinct, Registered, IsRegistered, vars

LEMMA NextInv == RegistryInv /\ [Next]_vars => RegistryInv'
BY SyncInv, RenameInv, DeleteInv, AvailabilityInv, StutterInv DEF Next

\* The invariant holds throughout: claims point at rows that exist and ids are
\* distinct, in every run of the registry.
THEOREM Invariance == Spec => []RegistryInv
<1>1. Init => RegistryInv
  BY InitInv
<1>2. RegistryInv /\ [Next]_vars => RegistryInv'
  BY NextInv
<1> QED BY <1>1, <1>2, PTL DEF Spec

\* Rows, aliases and ids keep the types of schema.sql, and no id in use is one the
\* sequence will hand out again.
THEOREM TypeCorrect == Spec => []TypeOK
<1>1. RegistryInv => TypeOK
  BY DEF RegistryInv
<1> QED BY <1>1, Invariance, PTL

-----------------------------------------------------------------------------
(***************************************************************************)
(* The registry implements the ledger of names.                            *)
(***************************************************************************)
LEMMA LedgerStep ==
    ASSUME RegistryInv, [Next]_vars
    PROVE  [Ledger!Next]_(Ledger!ledgerVars)
<1>1. TypeOK
  BY DEF RegistryInv
<1>2. ASSUME NEW list \in DeviceList, SyncDevices(list)
      PROVE  Ledger!Record
  <2>1. Registered' = Registered \cup Listed(list)
    BY <1>1, <1>2, SyncedRegistered
  <2>2. alias' = [n \in Name |-> alias'[n]]
    BY <1>2 DEF SyncDevices, SyncedAlias
  <2>3. \A n \in Name : \/ alias'[n] = alias[n]
                        \/ alias[n] = Nobody /\ alias'[n] \in Registered'
    BY <1>1, <1>2, <2>1, SyncedNames
  <2>4. Registered' \subseteq Ieee
    BY DEF Registered
  <2> QED BY <2>1, <2>2, <2>3, <2>4 DEF Ledger!Record
<1>3. ASSUME NEW a \in Ieee, NEW n \in Name, NEW t \in Type \cup {Null},
             UpdateDevice(a, n, t)
      PROVE  Ledger!Record
  <2>1. a \in Registered /\ Registered' = Registered /\ Registered' \subseteq Ieee
    BY <1>1, <1>3, RenameFacts DEF Registered
  <2>2. alias' = [m \in Name |-> alias'[m]]
    BY <1>1, <1>3, RenameFacts
  <2> QED BY <1>1, <1>3, <2>1, <2>2, RenameFacts DEF Ledger!Record
<1>4. ASSUME NEW a \in Ieee, DeleteDevice(a)
      PROVE  a \in Registered /\ Ledger!Forget(a)
  BY <1>1, <1>4, DeleteFacts DEF DeleteDevice, Ledger!Forget
<1>5. ASSUME NEW n \in Name, NEW online \in BOOLEAN, UpdateAvailability(n, online)
      PROVE  UNCHANGED Ledger!ledgerVars
  BY <1>5, AvailabilityFacts DEF Ledger!ledgerVars
<1>6. ASSUME UNCHANGED vars PROVE UNCHANGED Ledger!ledgerVars
  BY <1>6 DEF vars, Ledger!ledgerVars, Registered, IsRegistered
<1> QED BY <1>2, <1>3, <1>4, <1>5, <1>6 DEF Next, Ledger!Next

\* Every run of the registry is a run of the ledger: a name is claimed by at most
\* one device, the first to claim it, until that device's row is deleted.
THEOREM ImplementsLedger == Spec => LedgerSpec
<1>1. Init => Ledger!Init
  BY DEF Init, Ledger!Init, Registered, IsRegistered
<1>2. RegistryInv /\ [Next]_vars => [Ledger!Next]_(Ledger!ledgerVars)
  BY LedgerStep
<1> QED BY <1>1, <1>2, Invariance, PTL DEF Spec, LedgerSpec, Ledger!Spec

-----------------------------------------------------------------------------
(***************************************************************************)
(* Readings are not cut off by renames.                                    *)
(***************************************************************************)
LEMMA KeyKept ==
    ASSUME RegistryInv, [Next]_vars, NEW a \in Registered \cap Registered',
           NEW n \in TelemetryKeys(a)
    PROVE  n \in TelemetryKeys(a)' \/ alias'[n] \in Ieee \ {a}
<1>1. TypeOK /\ a \in Ieee /\ device[a].friendly_name \in Name /\ a \in Name
  BY RowFacts, RegistryAssumption DEF RegistryInv
<1>2. n \in Name /\ alias[n] \in Ieee \cup {Nobody}
  BY <1>1 DEF TelemetryKeys, Aliases, TypeOK
<1>3. /\ a \in TelemetryKeys(a)'
      /\ device'[a].friendly_name \in TelemetryKeys(a)'
      /\ \A m \in Name : alias'[m] = a => m \in TelemetryKeys(a)'
  BY DEF TelemetryKeys, Aliases
<1>4. ASSUME NEW list \in DeviceList, SyncDevices(list), n # a,
             n = device[a].friendly_name
      PROVE  n = device'[a].friendly_name \/ alias'[n] \in Ieee
  <2>1. CASE a \in Listed(list)
    <3>1. n \in Recorded(list, EntryOf(list, a))
      BY <1>4, <2>1, EntryFacts DEF Recorded, Registered
    <3>2. alias'[n] # Nobody
      BY <1>1, <1>2, <1>4, <2>1, <3>1, EntryFacts, SyncedNames
    <3> QED BY <1>1, <1>2, <1>4, <3>2, SyncInv DEF RegistryInv, TypeOK
  <2>2. CASE a \notin Listed(list)
    BY <1>1, <1>4, <2>2, SyncedUnlisted
  <2> QED BY <2>1, <2>2
<1>5. CASE \E list \in DeviceList : SyncDevices(list)
  <2>1. PICK list \in DeviceList : SyncDevices(list)
    BY <1>5
  <2>2. alias[n] = a => alias'[n] = a
    BY <1>1, <1>2, <2>1, SyncedNames, RegistryAssumption
  <2>3. n = device[a].friendly_name /\ n # a =>
           n = device'[a].friendly_name \/ alias'[n] \in Ieee
    BY <1>4, <2>1
  <2> QED BY <1>2, <1>3, <2>2, <2>3 DEF TelemetryKeys, Aliases
<1>6. CASE \E b \in Ieee, m \in Name, t \in Type \cup {Null} : UpdateDevice(b, m, t)
  <2>1. PICK b \in Ieee, m \in Name, t \in Type \cup {Null} : UpdateDevice(b, m, t)
    BY <1>6
  <2>2. alias[n] = a => alias'[n] = a
    BY <1>1, <1>2, <2>1, RenameFacts, RegistryAssumption
  <2>3. CASE a = b
    <3>1. n = device[a].friendly_name =>
             n = device'[a].friendly_name \/ alias'[n] \in Ieee
      BY <1>1, <1>2, <2>1, <2>3, RenameFacts
    <3> QED BY <1>2, <1>3, <2>2, <3>1 DEF TelemetryKeys, Aliases
  <2>4. CASE a # b
    <3>1. device'[a] = device[a]
      BY <1>1, <2>1, <2>4, RenameFacts
    <3> QED BY <1>2, <1>3, <2>2, <3>1 DEF TelemetryKeys, Aliases
  <2> QED BY <2>3, <2>4
<1>7. CASE \E b \in Ieee : DeleteDevice(b)
  <2>1. PICK b \in Ieee : DeleteDevice(b)
    BY <1>7
  <2>2. a # b /\ device'[a] = device[a]
    BY <1>1, <2>1, DeleteFacts
  <2>3. alias[n] = a => alias'[n] = a
    BY <1>1, <1>2, <2>1, <2>2, DeleteFacts
  <2> QED BY <1>2, <1>3, <2>2, <2>3 DEF TelemetryKeys, Aliases
<1>8. CASE \E m \in Name, online \in BOOLEAN : UpdateAvailability(m, online)
  <2>1. alias' = alias /\ device'[a].friendly_name = device[a].friendly_name
    BY <1>8, AvailabilityFacts
  <2> QED BY <1>2, <1>3, <2>1 DEF TelemetryKeys, Aliases
<1>9. CASE UNCHANGED vars
  BY <1>2, <1>3, <1>9 DEF vars, TelemetryKeys, Aliases
<1> QED BY <1>5, <1>6, <1>7, <1>8, <1>9 DEF Next

\* As long as a device has its row, a tag its history is read from stays one, or
\* is recorded as the name of another device.
THEOREM HistoryKeys == Spec => HistoryKeysAreKept
<1>1. RegistryInv /\ [Next]_vars =>
         [\A a \in Registered \cap Registered' : \A n \in TelemetryKeys(a) :
             n \in TelemetryKeys(a)' \/ alias'[n] \in Ieee \ {a}]_vars
  BY KeyKept
<1> QED BY <1>1, Invariance, PTL DEF Spec, HistoryKeysAreKept

-----------------------------------------------------------------------------
(***************************************************************************)
(* Availability belongs to its topic.                                      *)
(***************************************************************************)
LEMMA BroughtOnline ==
    ASSUME RegistryInv, [Next]_vars, NEW a \in Registered \cap Registered',
           ~device[a].available, device'[a].available
    PROVE  \E n \in Name : UpdateAvailability(n, TRUE)
<1>1. TypeOK /\ a \in Ieee
  BY DEF RegistryInv, Registered
<1>2. ASSUME NEW list \in DeviceList, SyncDevices(list) PROVE FALSE
  <2>1. CASE a \in Listed(list)
    BY <1>1, <1>2, <2>1, EntryFacts, SyncedListed
  <2>2. CASE a \notin Listed(list)
    BY <1>1, <1>2, <2>2, SyncedUnlisted
  <2> QED BY <2>1, <2>2
<1>3. ASSUME NEW b \in Ieee, NEW n \in Name, NEW t \in Type \cup {Null},
             UpdateDevice(b, n, t)
      PROVE  FALSE
  BY <1>1, <1>3, RenameFacts
<1>4. ASSUME NEW b \in Ieee, DeleteDevice(b) PROVE FALSE
  <2>1. a # b
    BY <1>1, <1>4, DeleteFacts
  <2> QED BY <1>1, <1>4, <2>1, DeleteFacts
<1>5. ASSUME NEW n \in Name, NEW online \in BOOLEAN, UpdateAvailability(n, online)
      PROVE  UpdateAvailability(n, TRUE)
  <2>1. a = Resolve(n)
    BY <1>1, <1>5, AvailabilityFacts
  <2>2. online = TRUE
    BY <1>5, <2>1, AvailabilityFacts
  <2> QED BY <1>5, <2>2
<1>6. ASSUME UNCHANGED vars PROVE FALSE
  BY <1>6 DEF vars
<1> QED BY <1>2, <1>3, <1>4, <1>5, <1>6 DEF Next

\* Only an availability message brings a registered device online.
THEOREM OnlineByAvailability == Spec => OnlyAvailabilityBringsOnline
<1>1. RegistryInv /\ [Next]_vars =>
         [\A a \in Registered \cap Registered' :
             ~device[a].available /\ device'[a].available =>
                \E n \in Name : UpdateAvailability(n, TRUE)]_vars
  BY BroughtOnline
<1> QED BY <1>1, Invariance, PTL DEF Spec, OnlyAvailabilityBringsOnline

-----------------------------------------------------------------------------
(***************************************************************************)
(* Where topics lead.                                                      *)
(***************************************************************************)
\* A name that is an address leads to its device; any other to the lowest id that
\* carries it as its label, if there is one.
ResolvesByPriority ==
    \A n \in Name :
        /\ n \in Registered => Resolve(n) = n
        /\ n \notin Registered /\ Labelled(n) # {} =>
              /\ Resolve(n) \in Labelled(n)
              /\ \A b \in Labelled(n) : device[Resolve(n)].id <= device[b].id
        /\ n \notin Registered /\ Labelled(n) = {} => Resolve(n) = alias[n]

LEMMA ResolveFacts == TypeOK => ResolvesByPriority
BY LowestIdWins DEF Resolve, ResolvesByPriority

\* ... in the next state as well.
LEMMA ResolveFactsNext == RegistryInv' => ResolvesByPriority'
<1>1. RegistryInv => ResolvesByPriority
  BY ResolveFacts DEF RegistryInv
<1> QED BY <1>1, PTL

LEMMA ListedNameRoutes ==
    ASSUME RegistryInv, RegistryInv', NEW list \in DeviceList, SyncDevices(list),
           NEW i \in DOMAIN list
    PROVE  LET target == Resolve(list[i].friendly_name)' IN
           \/ target = list[i].ieee_address
           \/ target = list[i].friendly_name
           \/ target \notin Listed(list)
<1> DEFINE n == list[i].friendly_name
           target == Resolve(n)'
<1>1. TypeOK /\ n \in Name
  BY ListFacts DEF RegistryInv
<1>2. list[i].ieee_address \in Labelled(n)'
  BY <1>1, SyncedListed, SyncedRegistered, EntryOfItsDevice DEF Labelled
<1>3. CASE n \in Registered'
  BY <1>1, <1>3, ResolveFactsNext DEF ResolvesByPriority
<1>4. CASE n \notin Registered'
  <2>1. target \in Labelled(n)'
    BY <1>1, <1>2, <1>4, ResolveFactsNext DEF ResolvesByPriority
  <2>2. device'[target].friendly_name = n
    BY <2>1 DEF Labelled
  <2>3. ASSUME target \in Listed(list) PROVE target = list[i].ieee_address
    <3>1. PICK j \in DOMAIN list : list[j].ieee_address = target
      BY <2>3 DEF Listed
    <3>2. device'[target].friendly_name = list[j].friendly_name
      BY <1>1, <3>1, SyncedListed
    <3>3. list[j].friendly_name = list[i].friendly_name
      BY <2>2, <3>2
    <3>4. i = j
      BY <3>3, ListFacts
    <3> QED BY <3>1, <3>4
  <2> QED BY <2>3
<1> QED BY <1>3, <1>4

\* After a sync no listed name leads to another device of the list.
THEOREM ListedNamesRoute == Spec => SyncRoutesListedNames
<1>1. RegistryInv /\ RegistryInv' /\ [Next]_vars =>
         [\A list \in DeviceList : SyncDevices(list) =>
             \A i \in DOMAIN list :
                LET target == Resolve(list[i].friendly_name)' IN
                \/ target = list[i].ieee_address
                \/ target = list[i].friendly_name
                \/ target \notin Listed(list)]_vars
  BY ListedNameRoutes
<1> QED BY <1>1, Invariance, PTL DEF Spec, SyncRoutesListedNames

\* No operation changes the id of a row that stays.
LEMMA IdsAreKept ==
    ASSUME RegistryInv, [Next]_vars, NEW a \in Registered \cap Registered'
    PROVE  device'[a].id = device[a].id
<1>1. TypeOK /\ a \in Ieee
  BY DEF RegistryInv, Registered
<1>2. ASSUME NEW list \in DeviceList, SyncDevices(list)
      PROVE  device'[a].id = device[a].id
  <2>1. CASE a \in Listed(list)
    BY <1>1, <1>2, <2>1, EntryFacts, SyncedListed
  <2>2. CASE a \notin Listed(list)
    BY <1>1, <1>2, <2>2, SyncedUnlisted
  <2> QED BY <2>1, <2>2
<1>3. ASSUME NEW b \in Ieee, NEW n \in Name, NEW t \in Type \cup {Null},
             UpdateDevice(b, n, t)
      PROVE  device'[a].id = device[a].id
  BY <1>1, <1>3, RenameFacts
<1>4. ASSUME NEW b \in Ieee, DeleteDevice(b)
      PROVE  device'[a].id = device[a].id
  <2>1. a # b
    BY <1>1, <1>4, DeleteFacts
  <2> QED BY <1>1, <1>4, <2>1, DeleteFacts
<1>5. ASSUME NEW n \in Name, NEW online \in BOOLEAN, UpdateAvailability(n, online)
      PROVE  device'[a].id = device[a].id
  BY <1>5, AvailabilityFacts
<1>6. ASSUME UNCHANGED vars PROVE device'[a].id = device[a].id
  BY <1>6 DEF vars
<1> QED BY <1>2, <1>3, <1>4, <1>5, <1>6 DEF Next

\* A claim is lost only with its holder's row.
LEMMA ClaimsAreKept ==
    ASSUME RegistryInv, [Next]_vars, NEW n \in Name, alias[n] # Nobody
    PROVE  alias'[n] = alias[n] \/ alias[n] \notin Registered'
<1>1. TypeOK
  BY DEF RegistryInv
<1>2. ASSUME NEW list \in DeviceList, SyncDevices(list) PROVE alias'[n] = alias[n]
  BY <1>1, <1>2, SyncedNames
<1>3. ASSUME NEW b \in Ieee, NEW m \in Name, NEW t \in Type \cup {Null},
             UpdateDevice(b, m, t)
      PROVE  alias'[n] = alias[n]
  BY <1>1, <1>3, RenameFacts
<1>4. ASSUME NEW b \in Ieee, DeleteDevice(b)
      PROVE  alias'[n] = alias[n] \/ alias[n] \notin Registered'
  BY <1>1, <1>4, DeleteFacts
<1>5. ASSUME NEW m \in Name, NEW online \in BOOLEAN, UpdateAvailability(m, online)
      PROVE  alias'[n] = alias[n]
  BY <1>5, AvailabilityFacts
<1>6. ASSUME UNCHANGED vars PROVE alias'[n] = alias[n]
  BY <1>6 DEF vars
<1> QED BY <1>2, <1>3, <1>4, <1>5, <1>6 DEF Next

LEMMA TopicChangesHands ==
    ASSUME RegistryInv, RegistryInv', [Next]_vars, NEW n \in Name,
           Resolve(n) # Nobody, Resolve(n)' # Nobody, Resolve(n) # Resolve(n)'
    PROVE  \/ Resolve(n)' \in Labelled(n)' \ Labelled(n)
           \/ Resolve(n)' = n
           \/ Resolve(n) \notin Registered'
           \/ Resolve(n) \in Labelled(n) \ Labelled(n)'
<1> DEFINE old == Resolve(n)
           new == Resolve(n)'
<1>1. TypeOK /\ TypeOK' /\ ResolvesByPriority /\ ResolvesByPriority'
  BY ResolveFacts, ResolveFactsNext DEF RegistryInv
<1>2. old \in Registered
  BY ResolvedIsRegistered
<1>3. SUFFICES ASSUME old \in Registered', n \notin Registered'
               PROVE  \/ new \in Labelled(n)' \ Labelled(n)
                      \/ old \in Labelled(n) \ Labelled(n)'
  BY <1>1 DEF ResolvesByPriority
<1>4. n \notin Registered
  <2>1. n \in Registered => old = n
    BY <1>1 DEF ResolvesByPriority
  <2> QED BY <1>3, <2>1
<1>5. CASE Labelled(n) = {}
  <2>1. old = alias[n]
    BY <1>1, <1>4, <1>5 DEF ResolvesByPriority
  <2>2. alias'[n] = old
    BY <1>3, <2>1, ClaimsAreKept
  <2>3. Labelled(n)' # {}
    BY <1>1, <1>3, <2>2 DEF ResolvesByPriority
  <2>4. new \in Labelled(n)'
    BY <1>1, <1>3, <2>3 DEF ResolvesByPriority
  <2> QED BY <1>5, <2>4
<1>6. CASE Labelled(n) # {} /\ old \in Labelled(n)'
  <2>1. /\ old \in Labelled(n)
        /\ \A b \in Labelled(n) : device[old].id <= device[b].id
    BY <1>1, <1>4, <1>6 DEF ResolvesByPriority
  <2>2. /\ new \in Labelled(n)'
        /\ \A b \in Labelled(n)' : device'[new].id <= device'[b].id
    BY <1>1, <1>3, <1>6 DEF ResolvesByPriority
  <2>3. ASSUME new \in Labelled(n) PROVE FALSE
    <3>1. new \in Registered /\ new \in Registered'
      BY <2>2, <2>3 DEF Labelled
    <3>2. device'[new].id = device[new].id /\ device'[old].id = device[old].id
      BY <1>2, <1>3, <3>1, IdsAreKept
    <3>3. device[old].id <= device[new].id /\ device[new].id <= device[old].id
      BY <1>6, <2>1, <2>2, <2>3, <3>2
    <3>4. device[old].id \in Nat /\ device[new].id \in Nat
      BY <1>1, <1>2, <3>1, RowFacts
    <3>5. device[old].id = device[new].id
      BY <3>3, <3>4
    <3> QED BY <1>2, <3>1, <3>5 DEF RegistryInv, IdsAreDistinct
  <2> QED BY <2>2, <2>3
<1>7. CASE Labelled(n) # {} /\ old \notin Labelled(n)'
  BY <1>1, <1>4, <1>7 DEF ResolvesByPriority
<1> QED BY <1>5, <1>6, <1>7

\* A topic passes to another device only when one of the two has just been given
\* the name or has just lost it.
THEOREM TopicsAreStable == Spec => TopicsChangeHandsOnlyByRelabelling
<1>1. RegistryInv /\ RegistryInv' /\ [Next]_vars =>
         [\A n \in Name :
             LET old == Resolve(n)
                 new == Resolve(n)'
             IN  old # Nobody /\ new # Nobody /\ old # new =>
                   \/ new \in Labelled(n)' \ Labelled(n)
                   \/ new = n
                   \/ old \notin Registered'
                   \/ old \in Labelled(n) \ Labelled(n)']_vars
  BY TopicChangesHands
<1> QED BY <1>1, Invariance, PTL DEF Spec, TopicsChangeHandsOnlyByRelabelling

-----------------------------------------------------------------------------
(***************************************************************************)
(* The same list twice.                                                    *)
(***************************************************************************)
LEMMA SecondSyncChangesNothing ==
    ASSUME RegistryInv, NEW list \in DeviceList, SyncDevices(list)
    PROVE  UpToDateWith(list)'
<1>1. TypeOK
  BY DEF RegistryInv
<1>2. Registered' = Registered \cup Listed(list)
  BY <1>1, SyncedRegistered
<1>3. ASSUME NEW a \in Ieee, a \in Listed(list)
      PROVE  SyncedRow(list, EntryOf(list, a))' = device'[a]
  <2> DEFINE i == EntryOf(list, a)
  <2>1. i \in DOMAIN list /\ list[i].ieee_address = a
    BY <1>3, EntryFacts
  <2>2. /\ device'[a] = SyncedRow(list, i)
        /\ device'[a] \in Row
        /\ device'[a].friendly_name = list[i].friendly_name
    BY <1>1, <2>1, SyncedListed
  <2>3. device'[a].type = DerivedType[a]
    <3>1. CASE a \in Registered
      <4>1. device[a] \in Row
        BY <1>1, <3>1, RowFacts
      <4>2. device'[a] = UpdateEntityFromPayload(list[i], device[a])
        BY <2>1, <2>2, <3>1 DEF SyncedRow, Registered
      <4> QED BY <2>1, <4>1, <4>2 DEF UpdateEntityFromPayload, Row
    <3>2. CASE a \notin Registered
      <4>1. device'[a] = ToEntity(list[i], nextId + Cardinality(FirstSeenBefore(list, i)))
        BY <1>3, <2>1, <2>2, <3>2 DEF SyncedRow, Registered
      <4> QED BY <2>1, <4>1 DEF ToEntity
    <3> QED BY <3>1, <3>2
  <2>4. SyncedRow(list, i)' = UpdateEntityFromPayload(list[i], device'[a])
    BY <1>2, <1>3, <2>1 DEF SyncedRow, Registered, IsRegistered, UpdateEntityFromPayload
  <2>5. SyncedRow(list, i)' = [device'[a] EXCEPT !.friendly_name = list[i].friendly_name,
                                                 !.type = DerivedType[a]]
    BY <2>1, <2>4 DEF UpdateEntityFromPayload
  <2> HIDE DEF i
  <2>6. SyncedRow(list, i)' = device'[a]
    BY <2>2, <2>3, <2>5 DEF Row
  <2> QED BY <2>6 DEF i
<1>4. ASSUME NEW a \in Ieee, a \notin Listed(list)
      PROVE  MarkUnavailable(a)' = device'[a]
  <2>1. CASE a \in Registered'
    <3>1. device'[a] \in Row /\ device'[a].available = FALSE
      BY <1>1, <1>2, <1>4, <2>1, SyncedUnlisted
    <3>2. MarkUnavailable(a)' = [device'[a] EXCEPT !.available = FALSE]
      BY <2>1 DEF MarkUnavailable, Registered
    <3> QED BY <3>1, <3>2 DEF Row
  <2>2. CASE a \notin Registered'
    BY <1>4, <2>2 DEF MarkUnavailable, Registered
  <2> QED BY <2>1, <2>2
<1>5. SyncedDevice(list)' = device'
  <2>1. device' = [a \in Ieee |-> device'[a]]
    BY DEF SyncDevices, SyncedDevice
  <2>2. SyncedDevice(list)' =
           [a \in Ieee |-> IF a \in Listed(list) THEN SyncedRow(list, EntryOf(list, a))'
                           ELSE MarkUnavailable(a)']
    BY DEF SyncedDevice, Listed, EntryOf
  <2> QED BY <1>3, <1>4, <2>1, <2>2
<1>6. ASSUME NEW n \in Name, NEW i \in DOMAIN list, n \in Recorded(list, i)'
      PROVE  alias'[n] # Nobody
  <2>1. list[i].ieee_address \in Ieee /\ list[i].ieee_address \in Registered'
    BY <1>2, ListFacts DEF Listed
  <2>2. device'[list[i].ieee_address].friendly_name = list[i].friendly_name
    BY <1>1, SyncedListed
  <2>3. n = list[i].friendly_name
    BY <1>6, <2>1, <2>2 DEF Recorded
  <2>4. n \in Recorded(list, i)
    BY <2>3 DEF Recorded
  <2> QED BY <1>1, <2>4, SyncedNames
<1>7. SyncedAlias(list)' = alias'
  <2>1. alias' = [n \in Name |-> alias'[n]]
    BY DEF SyncDevices, SyncedAlias
  <2>2. SyncedAlias(list)' =
           [n \in Name |->
              IF alias'[n] # Nobody \/ {i \in DOMAIN list : n \in Recorded(list, i)'} = {}
              THEN alias'[n]
              ELSE list[CHOOSE i \in {k \in DOMAIN list : n \in Recorded(list, k)'} :
                          \A j \in {k \in DOMAIN list : n \in Recorded(list, k)'} :
                             i <= j].ieee_address]
    BY DEF SyncedAlias
  <2>3. \A n \in Name : \/ alias'[n] # Nobody
                        \/ {i \in DOMAIN list : n \in Recorded(list, i)'} = {}
    BY <1>6
  <2> QED BY <2>1, <2>2, <2>3
<1> QED BY <1>2, <1>5, <1>7 DEF UpToDateWith

\* A list that is delivered again, by QoS 1 or on a reconnect, changes nothing.
THEOREM SyncIdempotence == Spec => SyncIsIdempotent
<1>1. RegistryInv /\ [Next]_vars =>
         [\A list \in DeviceList : SyncDevices(list) => UpToDateWith(list)']_vars
  BY SecondSyncChangesNothing
<1> QED BY <1>1, Invariance, PTL DEF Spec, SyncIsIdempotent
=============================================================================
