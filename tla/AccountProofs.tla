---------------------------- MODULE AccountProofs ----------------------------
(***************************************************************************)
(* The devices of two accounts never coincide, no account is moved, none   *)
(* is refused while there is room, and none strays further than to its     *)
(* legacy device, for every set of accounts, list of slots and number of   *)
(* displays.  The inductive invariants are FileSound, that what the file   *)
(* holds is an injection into the device table, and StrayInv.              *)
(***************************************************************************)
EXTENDS AccountProperties, FiniteSetTheorems, TLAPS

(* The members of a list of accounts have distinct positions in it.        *)
LEMMA Positions ==
  ASSUME NEW list \in Seq(Accounts), NEW a \in Members(list)
  PROVE  /\ Position(list, a) \in DOMAIN list
         /\ Position(list, a) \in Nat
         /\ list[Position(list, a)] = a
  BY DEF Members, Position

(* assign_active_profiles (account_state.py:233-248) gives nobody an index *)
(* that somebody has: its check of the result for a shared profile can     *)
(* never fail.                                                             *)
THEOREM AssignmentsApart ==
  ASSUME NEW s, s.active \in Seq(Accounts), Injective(s.profiles),
         NEW p \in Assignments(s)
  PROVE  Injective(p)
<1> DEFINE kept == Kept(s)
           new == Newcomers(s)
<1>1. /\ DOMAIN p = DOMAIN kept \cup new
      /\ \A a \in DOMAIN kept : p[a] = kept[a]
  BY DEF Assignments
<1>2. ASSUME NEW a \in new
      PROVE  /\ p[a] \notin Taken(kept)
             /\ \A b \in new : Position(s.active, b) < Position(s.active, a)
                               => p[a] # p[b]
  BY DEF Assignments
<1>3. Injective(kept)
  BY DEF Kept, Only, Injective
<1>4. ASSUME NEW a \in DOMAIN p, NEW b \in DOMAIN p, p[a] = p[b]
      PROVE  a = b
  <2>1. CASE a \in DOMAIN kept /\ b \in DOMAIN kept
    BY <2>1, <1>1, <1>3, <1>4 DEF Injective
  <2>2. CASE a \in new /\ b \in DOMAIN kept
    BY <2>2, <1>1, <1>2, <1>4 DEF Taken
  <2>3. CASE a \in DOMAIN kept /\ b \in new
    BY <2>3, <1>1, <1>2, <1>4 DEF Taken
  <2>4. CASE a \in new /\ b \in new
    <3>1. a \in Members(s.active) /\ b \in Members(s.active)
      BY <2>4 DEF Newcomers
    <3>2. /\ Position(s.active, a) \in Nat /\ Position(s.active, b) \in Nat
          /\ s.active[Position(s.active, a)] = a
          /\ s.active[Position(s.active, b)] = b
      BY <3>1, Positions
    <3>3. /\ ~(Position(s.active, a) < Position(s.active, b))
          /\ ~(Position(s.active, b) < Position(s.active, a))
      BY <2>4, <1>2, <1>4
    <3>. QED BY <3>2, <3>3
  <2>. QED BY <2>1, <2>2, <2>3, <2>4, <1>1
<1>. QED BY <1>4 DEF Injective

(* What a state of the store is made of, with its values left open.        *)
IsState(s) ==
  s = [saved |-> s.saved, active |-> s.active, rosters |-> s.rosters,
       profiles |-> s.profiles]

Sound(s) ==
  /\ IsState(s)
  /\ s.saved = TRUE
  /\ s.active \in Seq(Accounts) /\ s.rosters \subseteq SUBSET Accounts
  /\ DOMAIN s.profiles \subseteq Accounts /\ Taken(s.profiles) \subseteq Indices
  /\ Injective(s.profiles)

Stays(a, p, q) == a \in DOMAIN q /\ q[a] = p[a]

FileSound ==
  /\ FileType
  /\ file.saved => Sound(file)

LEMMA KnownAccounts == Known \subseteq Accounts /\ SlotIds \subseteq Accounts
  BY SlotsAssumption, AccountsAssumption DEF Known, SlotIds

(* Being assigned its profiles makes a state sound and moves nobody.       *)
LEMMA AssignedSound ==
  ASSUME NEW s, NEW t \in Assigned(s), IsState(s), s.saved = TRUE,
         s.active \in Seq(Accounts), s.rosters \subseteq SUBSET Accounts
  PROVE  /\ Sound(t)
         /\ \A a \in DOMAIN s.profiles \cap Instagram :
               Stays(a, s.profiles, t.profiles)
<1>1. PICK p \in Assignments(s) : t = [s EXCEPT !.profiles = p] /\ Valid(t)
  BY DEF Assigned
<1>2. t = [saved |-> TRUE, active |-> s.active, rosters |-> s.rosters,
           profiles |-> p]
  BY <1>1 DEF IsState
<1>3. Injective(p) /\ DOMAIN p \subseteq Known /\ Taken(p) \subseteq Indices
  BY <1>1, <1>2 DEF Valid, SoundProfiles
<1>4. Sound(t)
  BY <1>2, <1>3, KnownAccounts DEF Sound, IsState
<1>5. ASSUME NEW a \in DOMAIN s.profiles \cap Instagram
      PROVE  Stays(a, s.profiles, p)
  BY <1>5 DEF Assignments, Kept, Only, Stays
<1>. QED BY <1>2, <1>4, <1>5

LEMMA ContextSound ==
  ASSUME FileSound, NEW t \in Context
  PROVE  /\ Sound(t)
         /\ file.saved => \A a \in DOMAIN file.profiles \cap Instagram :
                             Stays(a, file.profiles, t.profiles)
<1>1. PICK s \in Loaded : t \in Assigned(s)
  BY DEF Context
<1>2. CASE file.saved
  <2>1. s = file /\ Sound(file)
    BY <1>1, <1>2 DEF Loaded, FileSound
  <2>. QED BY <1>1, <2>1, AssignedSound DEF Sound
<1>3. CASE ~file.saved
  <2>1. s = Default
    BY <1>1, <1>3 DEF Loaded
  <2>2. /\ IsState(s) /\ s.saved = TRUE
        /\ s.active \in Seq(Accounts) /\ s.rosters \subseteq SUBSET Accounts
    BY <2>1, SlotsAssumption DEF Default, IsState
  <2>. QED BY <1>1, <1>3, <2>2, AssignedSound
<1>. QED BY <1>2, <1>3 DEF FileSound, FileType

LEMMA OrdersAreSequences ==
  ASSUME NEW active \in Orders
  PROVE  active \in Seq(Accounts)
<1>1. PICK n \in 0..Cardinality(Accounts) : active \in [1..n -> Accounts]
  BY DEF Orders
<1>2. Cardinality(Accounts) \in Nat
  BY AccountsAssumption, FS_CardinalityType
<1>3. n \in Nat
  BY <1>1, <1>2
<1>. QED BY <1>1, <1>3

(* A saved request is sound, and keeps everybody when the file was usable. *)
LEMMA SavedSound ==
  ASSUME FileSound, NEW active \in Orders, NEW rosters \in Rosters,
         NEW t \in Saved(active, rosters)
  PROVE  /\ Sound(t)
         /\ file.saved /\ Context # {} =>
               \A a \in DOMAIN file.profiles \cap Instagram :
                  Stays(a, file.profiles, t.profiles)
<1>1. PICK p \in CarriedOver : t \in Assigned(Requested(active, rosters, p))
  BY DEF Saved
<1>. DEFINE r == Requested(active, rosters, p)
<1>2. /\ IsState(r) /\ r.saved = TRUE /\ r.profiles = p
      /\ r.active \in Seq(Accounts) /\ r.rosters \subseteq SUBSET Accounts
  BY OrdersAreSequences, AccountsAssumption DEF Requested, IsState
<1>3. /\ Sound(t)
      /\ \A a \in DOMAIN p \cap Instagram : Stays(a, p, t.profiles)
  BY <1>1, <1>2, AssignedSound
<1>4. ASSUME file.saved, Context # {},
             NEW a \in DOMAIN file.profiles \cap Instagram
      PROVE  Stays(a, file.profiles, t.profiles)
  <2>1. PICK s \in Context : p = s.profiles
    BY <1>1, <1>4 DEF CarriedOver
  <2>2. Stays(a, file.profiles, p)
    BY <2>1, <1>4, ContextSound
  <2>. QED BY <2>2, <1>3, <1>4 DEF Stays
<1>. QED BY <1>3, <1>4
-----------------------------------------------------------------------------
LEMMA InitSound == Init => FileSound
  BY DEF Init, FileSound, FileType, Taken

(* What a write of the file does to it, whichever endpoint it came from.   *)
LEMMA WriteSound ==
  ASSUME NEW s, Sound(s), Write(s)
  PROVE  FileSound'
  BY DEF Sound, Write, FileSound, FileType, Taken, Injective, IsState

LEMMA FileStep ==
  ASSUME FileSound, [Next]_vars
  PROVE  FileSound'
<1>1. ASSUME NEW s \in Context, Write(s) PROVE FileSound'
  BY <1>1, ContextSound, WriteSound
<1>2. CASE UNCHANGED file
  BY <1>2 DEF FileSound, FileType, Sound, Taken, Injective, IsState
<1>3. CASE Look
  BY <1>3, <1>1 DEF Look
<1>4. ASSUME NEW active \in Orders, NEW rosters \in Rosters,
             PutState(active, rosters)
      PROVE  FileSound'
  BY <1>4, <1>1, SavedSound, WriteSound DEF PutState
<1>5. ASSUME NEW a \in Accounts, Accept(a) PROVE FileSound'
  BY <1>5, <1>1 DEF Accept
<1>6. ASSUME NEW a \in Accounts,
             \/ Launch(a) \/ Done(a) \/ CliStarts(a) \/ LoginOpens(a)
             \/ LoginEnds(a) \/ ClearSession(a) \/ MoveFolder(a)
      PROVE  UNCHANGED file
  BY <1>6 DEF Launch, Done, CliStarts, LoginOpens, LoginEnds, ClearSession,
              MoveFolder
<1>7. ASSUME CliLookup \/ CliLaunches PROVE UNCHANGED file
  BY <1>7 DEF CliLookup, CliLaunches
<1>8. CASE UNCHANGED vars
  BY <1>8, <1>2 DEF vars
<1>. QED BY <1>2, <1>3, <1>4, <1>5, <1>6, <1>7, <1>8 DEF Next

(* The state file always holds an injection into the device table.         *)
THEOREM FileCorrect == Spec => []FileSound
  BY InitSound, FileStep, PTL DEF Spec

(* A saved profile, a legacy position and another account's saved profile  *)
(* are three different devices (device_identity.py:119-166).               *)
LEMMA SoundDevices == FileSound => DistinctDevices
<1> SUFFICES ASSUME FileSound, NEW a \in Accounts, NEW b \in Accounts,
                    a # b, Launchable(a), Launchable(b)
             PROVE  Device(a) # Device(b)
  BY DEF DistinctDevices
<1>1. ASSUME NEW c \in SlotIds
      PROVE  Position(Slots, c) \in Nat /\ Slots[Position(Slots, c)] = c
  BY <1>1, SlotsAssumption, Positions DEF SlotIds, Members
<1>2. a \in SlotIds /\ b \in SlotIds =>
        Position(Slots, a) - 1 # Position(Slots, b) - 1
  BY <1>1
<1>3. CASE ~file.saved
  BY <1>2, <1>3 DEF Launchable, Device
<1>4. CASE file.saved
  <2>1. ASSUME NEW c \in Accounts, Launchable(c), c \notin DOMAIN file.profiles
        PROVE  /\ c \in SlotIds /\ Device(c) = Position(Slots, c) - 1
               /\ Device(c) \notin Taken(file.profiles)
    BY <1>4, <2>1 DEF Launchable, Device, Legacy
  <2>2. ASSUME NEW c \in DOMAIN file.profiles
        PROVE  /\ Device(c) = file.profiles[c]
               /\ Device(c) \in Taken(file.profiles)
    BY <1>4, <2>2 DEF Device, Taken
  <2>3. CASE a \in DOMAIN file.profiles /\ b \in DOMAIN file.profiles
    BY <1>4, <2>2, <2>3 DEF FileSound, Sound, Injective
  <2>4. CASE a \notin DOMAIN file.profiles /\ b \notin DOMAIN file.profiles
    BY <1>2, <2>1, <2>4
  <2>. QED BY <2>1, <2>2, <2>3, <2>4
<1>. QED BY <1>3, <1>4 DEF FileSound, FileType

(* No two accounts ever launch on the same device.                         *)
THEOREM DevicesCorrect == Spec => []DistinctDevices
  BY FileCorrect, SoundDevices, PTL

(* No endpoint moves an account that has its folder, as long as the file   *)
(* it found could be used.                                                 *)
LEMMA StepKeeps ==
  ASSUME FileSound, [Next]_vars, file.saved, Context # {},
         NEW a \in DOMAIN file.profiles \cap Instagram
  PROVE  folder'[a] = "none" \/ KeepsProfile(a)
<1>1. ASSUME NEW s \in Context, Write(s) PROVE KeepsProfile(a)
  BY <1>1, ContextSound DEF Write, Stays, KeepsProfile
<1>2. CASE UNCHANGED file
  BY <1>2 DEF KeepsProfile
<1>3. CASE Look
  BY <1>3, <1>1 DEF Look
<1>4. ASSUME NEW active \in Orders, NEW rosters \in Rosters,
             PutState(active, rosters)
      PROVE  KeepsProfile(a)
  BY <1>4, <1>1, SavedSound DEF PutState, Write, Stays, KeepsProfile
<1>5. ASSUME NEW b \in Accounts, Accept(b) PROVE KeepsProfile(a)
  BY <1>5, <1>1 DEF Accept
<1>6. ASSUME NEW b \in Accounts,
             \/ Launch(b) \/ Done(b) \/ CliStarts(b) \/ LoginOpens(b)
             \/ LoginEnds(b) \/ ClearSession(b) \/ MoveFolder(b)
      PROVE  UNCHANGED file
  BY <1>6 DEF Launch, Done, CliStarts, LoginOpens, LoginEnds, ClearSession,
              MoveFolder
<1>7. ASSUME CliLookup \/ CliLaunches PROVE UNCHANGED file
  BY <1>7 DEF CliLookup, CliLaunches
<1>8. CASE UNCHANGED vars
  BY <1>8, <1>2 DEF vars
<1>. QED BY <1>2, <1>3, <1>4, <1>5, <1>6, <1>7, <1>8 DEF Next

(* Reordering, switching rosters and adding accounts move nobody.          *)
THEOREM AssignedStayCorrect == Spec => AssignedStay
<1>1. FileSound /\ [Next]_vars =>
        [file.saved /\ file' # file /\ Context # {} =>
           \A a \in DOMAIN file.profiles \cap Instagram :
              folder'[a] = "none" \/ KeepsProfile(a)]_vars
  BY StepKeeps
<1>. QED BY <1>1, FileCorrect, PTL DEF Spec, AssignedStay
-----------------------------------------------------------------------------
(* A lookup gives an index of the device table or refuses.                 *)
LEMMA DeviceType ==
  ASSUME FileSound, NEW a \in Accounts
  PROVE  Device(a) \in Indices \cup {Refused}
<1>1. ASSUME NEW c \in SlotIds
      PROVE  Position(Slots, c) - 1 \in Indices
  BY <1>1, SlotsAssumption, CapacityAssumption, Positions
     DEF SlotIds, Members, Indices
<1>2. HashIndex[a] \in Indices
  BY AccountsAssumption
<1>3. a \in DOMAIN file.profiles => file.profiles[a] \in Indices
  BY DEF FileSound, FileType, Taken
<1>. QED BY <1>1, <1>2, <1>3 DEF Device, Legacy, FileSound, FileType

LEMMA TypeStep ==
  ASSUME TypeOK, FileSound, FileSound', [Next]_vars
  PROVE  TypeOK'
<1> USE DEF TypeOK
<1>0. FileType'
  BY DEF FileSound
<1>2. CASE Look
  BY <1>0, <1>2 DEF Look
<1>3. ASSUME NEW active \in Orders, NEW rosters \in Rosters,
             PutState(active, rosters)
      PROVE  TypeOK'
  <2>1. cli' = cli \/ cli' = [cli EXCEPT !.mended = TRUE]
    BY <1>3 DEF PutState
  <2>2. CASE cli = NoCheck
    BY <1>0, <1>3, <2>1, <2>2 DEF PutState, NoCheck
  <2>3. CASE cli \in [account : Accounts, left : 0..3, read : SUBSET Indices,
                      mended : BOOLEAN]
    <3>1. cli' \in [account : Accounts, left : 0..3, read : SUBSET Indices,
                    mended : BOOLEAN]
      BY <2>1, <2>3
    <3>. QED BY <1>0, <1>3, <3>1 DEF PutState
  <2>. QED BY <2>2, <2>3
<1>4. ASSUME NEW a \in Accounts, Accept(a) PROVE TypeOK'
  BY <1>0, <1>4 DEF Accept
<1>5. ASSUME NEW a \in Accounts, Launch(a) PROVE TypeOK'
  BY <1>0, <1>5, DeviceType DEF Launch, Present, Shown
<1>6. ASSUME NEW a \in Accounts, Done(a) \/ CliStarts(a) PROVE TypeOK'
  <2>1. [account |-> a, left |-> 3, read |-> {}, mended |-> FALSE]
          \in [account : Accounts, left : 0..3, read : SUBSET Indices,
               mended : BOOLEAN]
    OBVIOUS
  <2>. QED BY <1>0, <1>6, <2>1 DEF Done, CliStarts
<1>7. ASSUME NEW a \in Accounts, LoginOpens(a) PROVE TypeOK'
  BY <1>0, <1>7 DEF LoginOpens, Folders
<1>8. ASSUME NEW a \in Accounts,
             LoginEnds(a) \/ ClearSession(a) \/ MoveFolder(a)
      PROVE  TypeOK'
  BY <1>0, <1>8 DEF LoginEnds, ClearSession, MoveFolder, Gone, Folders
<1>9. CASE CliLookup
  <2>1. cli \in [account : Accounts, left : 1..3, read : SUBSET Indices,
                 mended : BOOLEAN]
    BY <1>9 DEF CliLookup, NoCheck
  <2>2. PICK i \in Indices \cup {Refused} : i = Device(cli.account)
    BY <2>1, DeviceType
  <2>3. PICK a \in Accounts, n \in 1..3, devices \in SUBSET Indices,
             mended \in BOOLEAN :
          cli = [account |-> a, left |-> n, read |-> devices, mended |-> mended]
    BY <2>1
  <2>4. cli' = NoCheck \/
        cli' = [account |-> a, left |-> n - 1, read |-> devices \cup {i},
                mended |-> mended]
    BY <1>9, <2>2, <2>3 DEF CliLookup
  <2>5. i # Refused => i \in Indices
    BY <2>2
  <2>6. cli' = NoCheck \/
        cli' \in [account : Accounts, left : 0..3, read : SUBSET Indices,
                  mended : BOOLEAN]
    BY <1>9, <2>2, <2>3, <2>4, <2>5 DEF CliLookup
  <2>. QED BY <1>0, <1>9, <2>6 DEF CliLookup
<1>10. CASE CliLaunches
  BY <1>0, <1>10 DEF CliLaunches, Present, NoCheck
<1>11. CASE UNCHANGED vars
  BY <1>0, <1>11 DEF vars
<1>. QED BY <1>2, <1>3, <1>4, <1>5, <1>6, <1>7, <1>8, <1>9, <1>10, <1>11
         DEF Next

(* Every variable keeps its type.                                          *)
THEOREM TypeCorrect == Spec => []TypeOK
<1>1. Init => TypeOK
  BY CapacityAssumption
     DEF Init, TypeOK, FileType, Folders, NoCheck, Taken
<1>2. TypeOK /\ FileSound /\ FileSound' /\ [Next]_vars => TypeOK'
  BY TypeStep
<1>. QED BY <1>1, <1>2, FileCorrect, PTL DEF Spec
-----------------------------------------------------------------------------
(* Of a family of subsets of a finite set, one contains no other.          *)
LEMMA SmallestMember ==
  ASSUME NEW S, IsFiniteSet(S), NEW F \in SUBSET (SUBSET S), F # {}
  PROVE  \E T \in F : \A U \in F : U \subseteq T => U = T
<1>1. IsWellFoundedOn(StrictSubsetOrdering(S), SUBSET S)
  BY FS_StrictSubsetOrderingWellFounded, FS_FiniteSubsetsOfFinite
<1>2. PICK T \in F : \A U \in F : <<U, T>> \notin StrictSubsetOrdering(S)
  BY <1>1, WFMin
<1>. QED BY <1>2 DEF StrictSubsetOrdering

(* So there is a last one of finitely many things at numbered places.      *)
LEMMA LastOne ==
  ASSUME NEW D, IsFiniteSet(D), D # {}, NEW at, \A x \in D : at[x] \in Nat
  PROVE  \E x \in D : \A y \in D : at[y] <= at[x]
<1>. DEFINE after(x) == {y \in D : at[y] > at[x]}
            F == {after(x) : x \in D}
<1>1. F \in SUBSET (SUBSET D) /\ F # {}
  OBVIOUS
<1>2. PICK T \in F : \A U \in F : U \subseteq T => U = T
  <2>. HIDE DEF F
  <2>. QED BY <1>1, SmallestMember
<1>3. PICK x \in D : T = after(x)
  BY <1>2
<1>4. ASSUME NEW y \in D, at[y] > at[x] PROVE FALSE
  <2>1. after(y) \subseteq after(x) /\ y \in after(x) /\ y \notin after(y)
    BY <1>4
  <2>. QED BY <1>2, <1>3, <2>1
<1>. QED BY <1>3, <1>4

(* And a lowest one of some numbers.                                       *)
LEMMA LowestOne ==
  ASSUME NEW I \in SUBSET Nat, I # {}
  PROVE  \E i \in I : \A j \in I : i <= j
<1>1. PICK k \in I : k \in Nat /\ \A i \in I : i \in Nat
  OBVIOUS
<1>. DEFINE below(i) == {j \in I : j < i}
            F == {below(i) : i \in {j \in I : j <= k}}
            S == 0..k
<1>2. IsFiniteSet(S)
  BY <1>1, FS_Interval
<1>3. F \in SUBSET (SUBSET S) /\ F # {}
  <2>1. ASSUME NEW i \in I, i <= k, NEW j \in below(i) PROVE j \in S
    BY <1>1, <2>1
  <2>2. k <= k /\ below(k) \in F
    BY <1>1
  <2>. QED BY <2>1, <2>2
<1>4. PICK T \in F : \A U \in F : U \subseteq T => U = T
  <2>. HIDE DEF F, S
  <2>. QED BY <1>2, <1>3, SmallestMember
<1>5. PICK i \in I : i <= k /\ T = below(i)
  BY <1>4
<1>6. ASSUME NEW j \in I, j < i PROVE FALSE
  <2>1. j <= k /\ i \in Nat /\ j \in Nat
    BY <1>1, <1>5, <1>6
  <2>2. below(j) \in F
    BY <2>1
  <2>3. ASSUME NEW m \in below(j) PROVE m \in below(i)
    <3>1. m \in I /\ m \in Nat /\ m < j
      BY <1>1
    <3>. QED BY <1>6, <2>1, <3>1
  <2>4. j \in below(i) /\ j \notin below(j)
    BY <1>6, <2>1
  <2>. QED BY <1>4, <1>5, <2>2, <2>3, <2>4
<1>. QED BY <1>1, <1>6

(* A function takes at most as many values as it has arguments.            *)
LEMMA FewValues ==
  ASSUME NEW p, IsFiniteSet(DOMAIN p), p = [a \in DOMAIN p |-> p[a]]
  PROVE  IsFiniteSet(Taken(p)) /\ Cardinality(Taken(p)) <= Cardinality(DOMAIN p)
<1>1. p \in Surjection(DOMAIN p, Taken(p))
  BY DEF Surjection, Taken
<1>. QED BY <1>1, FS_Surjection
-----------------------------------------------------------------------------
(* assign_active_profiles for the newcomers in D, those before any of whom *)
(* are in D too: the part of an assignment that concerns them.             *)
Earlier(s, a) ==
  {b \in Newcomers(s) : Position(s.active, b) < Position(s.active, a)}
Used(s, p, a) == Taken(Kept(s)) \cup {p[b] : b \in Earlier(s, a)}
Lowest(s, p, a) == p[a] \notin Used(s, p, a) /\ 0..(p[a] - 1) \subseteq Used(s, p, a)

Partial(s, D) ==
  {p \in [DOMAIN Kept(s) \cup D -> Taken(Kept(s)) \cup Indices] :
     /\ \A a \in DOMAIN Kept(s) : p[a] = Kept(s)[a]
     /\ \A a \in D : Lowest(s, p, a)}

First(s, D) == \A a \in D : Earlier(s, a) \subseteq D

LEMMA WholeAssignment == ASSUME NEW s PROVE Assignments(s) = Partial(s, Newcomers(s))
  BY DEF Assignments, Partial, Assignable, Lowest, Used, Earlier

(* As long as the accounts with an index are fewer than the displays, some *)
(* index is left, and the lowest one goes to the next newcomer.            *)
LEMMA OneNewcomerMore ==
  ASSUME NEW s, s.active \in Seq(Accounts),
         NEW D \in SUBSET Newcomers(s), NEW a \in D, First(s, D),
         \A b \in D : Position(s.active, b) <= Position(s.active, a),
         Cardinality(DOMAIN Kept(s) \cup D) <= Capacity,
         NEW p \in Partial(s, D \ {a})
  PROVE  Partial(s, D) # {}
<1>. DEFINE K == DOMAIN Kept(s)
            E == D \ {a}
            used == Taken(p)
<1>1. /\ K \subseteq Accounts /\ D \subseteq Accounts /\ a \notin K
      /\ IsFiniteSet(K \cup D) /\ IsFiniteSet(K \cup E)
  BY AccountsAssumption, FS_Subset DEF Newcomers, Instagram, Kept, Only
<1>2. \A b \in D : Position(s.active, b) \in Nat /\ s.active[Position(s.active, b)] = b
  BY Positions DEF Newcomers
<1>3. Earlier(s, a) = E
  <2>1. Earlier(s, a) \subseteq E
    BY <1>2 DEF First, Earlier
  <2>2. ASSUME NEW b \in E PROVE b \in Earlier(s, a)
    <3>1. Position(s.active, b) # Position(s.active, a)
      BY <1>2
    <3>. QED BY <1>2, <3>1 DEF Earlier
  <2>. QED BY <2>1, <2>2
<1>4. \A b \in E : Earlier(s, b) \subseteq E
  <2>1. ASSUME NEW b \in E PROVE a \notin Earlier(s, b)
    BY <1>2 DEF Earlier
  <2>. QED BY <2>1 DEF First
<1>5. /\ p \in [K \cup E -> Taken(Kept(s)) \cup Indices]
      /\ \A b \in K : p[b] = Kept(s)[b]
      /\ \A b \in E : Lowest(s, p, b)
  BY DEF Partial
<1>6. used = Taken(Kept(s)) \cup {p[b] : b \in E}
  BY <1>5 DEF Taken
<1>7. Indices \ used # {}
  <2>1. IsFiniteSet(used) /\ Cardinality(used) <= Cardinality(K \cup E)
    BY <1>1, <1>5, FewValues
  <2>2. K \cup D = (K \cup E) \cup {a} /\ a \notin K \cup E
    BY <1>1
  <2>3. Cardinality(K \cup D) = Cardinality(K \cup E) + 1
    BY <1>1, <2>2, FS_AddElement
  <2>4. Cardinality(used) \in Nat /\ Cardinality(K \cup E) \in Nat
    BY <1>1, <2>1, FS_CardinalityType
  <2>5. Cardinality(used) < Capacity
    BY <2>1, <2>3, <2>4, CapacityAssumption
  <2>6. Cardinality(Indices) = Capacity
    BY FS_Interval, CapacityAssumption DEF Indices
  <2>7. Indices \subseteq used => Cardinality(Indices) <= Cardinality(used)
    BY <2>1, FS_Subset
  <2>. QED BY <2>4, <2>5, <2>6, <2>7, CapacityAssumption
<1>8. PICK i \in Indices \ used : \A j \in Indices \ used : i <= j
  <2>1. Indices \ used \in SUBSET Nat
    BY CapacityAssumption DEF Indices
  <2>. QED BY <1>7, <2>1, LowestOne
<1>9. i \notin used /\ 0..(i - 1) \subseteq used
  <2>1. ASSUME NEW j \in 0..(i - 1), j \notin used PROVE FALSE
    <3>1. i \in Nat /\ i <= Capacity - 1 /\ Capacity \in Nat
      BY CapacityAssumption DEF Indices
    <3>2. j \in Indices /\ j < i /\ j \in Nat
      BY <3>1 DEF Indices
    <3>. QED BY <1>8, <2>1, <3>1, <3>2
  <2>. QED BY <2>1
<1>. DEFINE q == [b \in K \cup D |-> IF b = a THEN i ELSE p[b]]
<1>10. q \in [K \cup D -> Taken(Kept(s)) \cup Indices]
  BY <1>5, <1>8
<1>11. \A b \in K : q[b] = Kept(s)[b]
  BY <1>1, <1>5
<1>12. ASSUME NEW b \in E PROVE Lowest(s, q, b)
  <2>1. \A c \in Earlier(s, b) : q[c] = p[c]
    BY <1>4
  <2>2. Used(s, q, b) = Used(s, p, b) /\ q[b] = p[b]
    BY <2>1 DEF Used
  <2>. QED BY <1>5, <2>2 DEF Lowest
<1>13. Lowest(s, q, a)
  <2>1. \A c \in E : q[c] = p[c]
    OBVIOUS
  <2>2. Used(s, q, a) = used /\ q[a] = i
    BY <1>3, <1>6, <2>1 DEF Used
  <2>. QED BY <1>9, <2>2 DEF Lowest
<1>14. \A b \in D : Lowest(s, q, b)
  BY <1>12, <1>13
<1>. QED
  <2>. HIDE DEF q
  <2>. QED BY <1>10, <1>11, <1>14 DEF Partial

(* assign_active_profiles succeeds whenever the accounts that keep a       *)
(* profile and the newcomers together are no more than the displays.  A    *)
(* smallest set of newcomers for whom it fails would have a last one, and  *)
(* those before get their indices.                                         *)
THEOREM AssignmentExists ==
  ASSUME NEW s, s.active \in Seq(Accounts),
         Cardinality(DOMAIN Kept(s) \cup Newcomers(s)) <= Capacity
  PROVE  Assignments(s) # {}
<1>. DEFINE K == DOMAIN Kept(s)
            new == Newcomers(s)
            F == {D \in SUBSET new : First(s, D) /\ Partial(s, D) = {}}
<1>1. /\ K \subseteq Accounts /\ new \subseteq Accounts
      /\ IsFiniteSet(new) /\ IsFiniteSet(K \cup new)
  BY AccountsAssumption, FS_Subset DEF Newcomers, Instagram, Kept, Only
<1>2. SUFFICES ASSUME Partial(s, new) = {} PROVE FALSE
  BY WholeAssignment
<1>3. new \in F /\ F \in SUBSET (SUBSET new)
  BY <1>2 DEF First, Earlier
<1>4. PICK D \in F : \A U \in F : U \subseteq D => U = D
  <2>. HIDE DEF F, new
  <2>. QED BY <1>1, <1>3, SmallestMember
<1>5. D \subseteq new /\ First(s, D) /\ Partial(s, D) = {}
  BY <1>4
<1>6. D # {}
  <2>1. Kept(s) \in [K -> Taken(Kept(s)) \cup Indices]
    BY DEF Kept, Only, Taken
  <2>2. D = {} => Kept(s) \in Partial(s, D)
    BY <2>1 DEF Partial
  <2>. QED BY <1>5, <2>2
<1>. DEFINE place == [b \in D |-> Position(s.active, b)]
<1>7. \A b \in D : place[b] \in Nat /\ place[b] = Position(s.active, b)
  BY <1>5, Positions DEF Newcomers
<1>8. PICK a \in D : \A b \in D : Position(s.active, b) <= Position(s.active, a)
  <2>1. IsFiniteSet(D)
    BY <1>1, <1>5, FS_Subset
  <2>2. \E a \in D : \A b \in D : place[b] <= place[a]
    <3>. HIDE DEF place
    <3>. QED BY <1>6, <1>7, <2>1, LastOne
  <2>. QED BY <1>7, <2>2
<1>9. First(s, D \ {a})
  <2>1. ASSUME NEW b \in D \ {a} PROVE a \notin Earlier(s, b)
    BY <1>7, <1>8 DEF Earlier
  <2>. QED BY <1>5, <2>1 DEF First
<1>10. Partial(s, D \ {a}) # {}
  <2>. DEFINE E == D \ {a}
  <2>1. E \subseteq D /\ E # D /\ E \in SUBSET new
    BY <1>5, <1>8
  <2>2. E \notin F
    BY <1>4, <2>1
  <2>. QED BY <1>9, <2>1, <2>2
<1>11. Cardinality(K \cup D) <= Capacity
  <2>1. Cardinality(K \cup D) <= Cardinality(K \cup new)
    BY <1>1, <1>5, FS_Subset
  <2>2. Cardinality(K \cup D) \in Nat /\ Cardinality(K \cup new) \in Nat
    BY <1>1, <1>5, FS_Subset, FS_CardinalityType
  <2>. QED BY <2>1, <2>2, CapacityAssumption
<1>. QED
  BY <1>5, <1>8, <1>10, <1>11, OneNewcomerMore

(* So a state that is well-formed as it stands can be given its profiles.  *)
LEMMA RoomSuffices ==
  ASSUME NEW s, IsState(s), s.active \in Seq(Accounts), SoundProfiles(s.profiles),
         WellFormed(s.active, s.rosters),
         Cardinality(DOMAIN Kept(s) \cup Newcomers(s)) <= Capacity
  PROVE  Assigned(s) # {}
<1>1. PICK p \in Assignments(s) : TRUE
  BY AssignmentExists
<1>. DEFINE t == [s EXCEPT !.profiles = p]
<1>2. t = [saved |-> s.saved, active |-> s.active, rosters |-> s.rosters, profiles |-> p]
  BY DEF IsState
<1>3. Injective(p)
  BY AssignmentsApart DEF SoundProfiles
<1>4. /\ DOMAIN p = DOMAIN Kept(s) \cup Newcomers(s)
      /\ Taken(p) \subseteq Taken(Kept(s)) \cup Indices
  BY DEF Assignments, Assignable, Taken
<1>5. Taken(Kept(s)) \subseteq Indices
  BY DEF SoundProfiles, Taken, Kept, Only
<1>6. DOMAIN p \subseteq Known
  BY <1>4 DEF Kept, Only, Newcomers, Instagram, Known
<1>7. Valid(t)
  BY <1>2, <1>3, <1>4, <1>5, <1>6 DEF Valid, SoundProfiles
<1>. QED BY <1>7 DEF Assigned

(* update_account_state: a request that is valid by itself is refused only *)
(* when the profiles in use leave no index for an account it activates,    *)
(* and never when it repairs a file that became unusable.                  *)
THEOREM RefusedOnlyWhenFullCorrect == Spec => []RefusedOnlyWhenFull
<1>1. FileSound => RefusedOnlyWhenFull
  <2> SUFFICES ASSUME FileSound, NEW active \in Orders, NEW rosters \in Rosters,
                      WellFormed(active, rosters),
                      \A s \in Context :
                         ~(Cardinality(DOMAIN s.profiles \cup (Members(active) \cap Instagram))
                             > Capacity)
               PROVE  Saved(active, rosters) # {}
    BY DEF RefusedOnlyWhenFull
  <2>. DEFINE sessions == Members(active) \cap Instagram
  <2>1. active \in Seq(Accounts) /\ Members(active) \subseteq Accounts
    BY OrdersAreSequences DEF Members
  <2>2. Cardinality(sessions) <= Capacity
    BY DEF WellFormed
  <2>3. PICK p \in CarriedOver :
          /\ SoundProfiles(p) /\ DOMAIN p \subseteq Accounts
          /\ Cardinality(DOMAIN p \cup sessions) <= Capacity
    <3>1. CASE Context = {}
      <4>1. <<>> \in CarriedOver /\ DOMAIN <<>> = {}
        BY <3>1 DEF CarriedOver
      <4>2. SoundProfiles(<<>>)
        BY <4>1 DEF SoundProfiles, Injective, Taken
      <4>. QED BY <2>2, <4>1, <4>2
    <3>2. CASE Context # {}
      <4>1. PICK s \in Context : TRUE
        BY <3>2
      <4>2. Sound(s) /\ Valid(s)
        BY <4>1, ContextSound DEF Context, Assigned
      <4>3. s.profiles \in CarriedOver /\ DOMAIN s.profiles \subseteq Accounts
        BY <3>2, <4>1, <4>2 DEF CarriedOver, Sound
      <4>4. Cardinality(DOMAIN s.profiles \cup sessions) \in Nat
        BY <2>1, <4>3, AccountsAssumption, FS_Subset, FS_CardinalityType
      <4>5. Cardinality(DOMAIN s.profiles \cup sessions) <= Capacity
        BY <4>1, <4>4, CapacityAssumption
      <4>. QED BY <4>2, <4>3, <4>5 DEF Valid
    <3>. QED BY <3>1, <3>2
  <2>. DEFINE r == Requested(active, rosters, p)
  <2>4. /\ IsState(r) /\ r.profiles = p /\ r.active = active /\ r.rosters = rosters
        /\ Valid(r)
    BY <2>3 DEF Requested, IsState, Valid
  <2>5. /\ DOMAIN Kept(r) \cup Newcomers(r) \subseteq DOMAIN p \cup sessions
        /\ IsFiniteSet(DOMAIN p \cup sessions)
    BY <2>1, <2>3, <2>4, AccountsAssumption, FS_Subset DEF Kept, Only, Newcomers
  <2>6. Cardinality(DOMAIN Kept(r) \cup Newcomers(r)) <= Capacity
    <3>1. /\ Cardinality(DOMAIN Kept(r) \cup Newcomers(r))
               <= Cardinality(DOMAIN p \cup sessions)
          /\ Cardinality(DOMAIN Kept(r) \cup Newcomers(r)) \in Nat
          /\ Cardinality(DOMAIN p \cup sessions) \in Nat
      BY <2>5, FS_Subset, FS_CardinalityType
    <3>. QED BY <2>3, <3>1, CapacityAssumption
  <2>7. Assigned(r) # {}
    <3>. HIDE DEF r
    <3>. QED BY <2>1, <2>3, <2>4, <2>6, RoomSuffices
  <2>. QED BY <2>3, <2>4, <2>7 DEF Saved
<1>. QED BY FileCorrect, <1>1, PTL
-----------------------------------------------------------------------------
(* The devices a slot may present by the file as it is.                    *)
Own(a) ==
  {Position(Slots, a) - 1} \cup
    (IF file.saved /\ a \in DOMAIN file.profiles THEN {file.profiles[a]} ELSE {})

(* What a session has presented, and what a check under way has read, is   *)
(* the slot's own, unless the file was repaired since; and a session that  *)
(* is gone has presented nothing.                                          *)
StrayInv ==
  \A a \in Followed \cap SlotIds :
    /\ folder[a] = "none" => worn[a] = {}
    /\ worn[a] \subseteq Own(a)
    /\ cli.account = a => folder[a] = "session"
    /\ cli.account = a /\ ~cli.mended => cli.read \subseteq Own(a)

LEMMA OwnDevice ==
  ASSUME FileSound, NEW a \in SlotIds, Device(a) # Refused
  PROVE  Device(a) \in Own(a)
BY DEF Device, Legacy, Own, FileSound, FileType

(* A write that repairs nothing leaves a slot with a session its devices.  *)
LEMMA OwnKept ==
  ASSUME FileSound, NEW a \in SlotIds, folder[a] # "none",
         NEW s, Write(s), s.saved = TRUE,
         file.saved => \A b \in DOMAIN file.profiles \cap Instagram :
                          Stays(b, file.profiles, s.profiles)
  PROVE  Own(a) \subseteq Own(a)'
<1>1. a \in Instagram
  BY KnownAccounts DEF Instagram
<1>. QED BY <1>1 DEF Own, Write, Stays

LEMMA StrayStep ==
  ASSUME TypeOK, FileSound, StrayInv, [Next]_vars
  PROVE  StrayInv'
<1>. SUFFICES ASSUME NEW a \in Followed \cap SlotIds
              PROVE  /\ folder'[a] = "none" => worn'[a] = {}
                     /\ worn'[a] \subseteq Own(a)'
                     /\ cli'.account = a => folder'[a] = "session"
                     /\ cli'.account = a /\ ~cli'.mended => cli'.read \subseteq Own(a)'
  BY DEF StrayInv
<1>a. /\ folder[a] = "none" => worn[a] = {}
      /\ worn[a] \subseteq Own(a)
      /\ cli.account = a => folder[a] = "session"
      /\ cli.account = a /\ ~cli.mended => cli.read \subseteq Own(a)
      /\ a \in Accounts /\ NoAccount \notin Accounts
  BY KnownAccounts, AccountsAssumption DEF StrayInv
<1>1. ASSUME UNCHANGED <<folder, cli, worn>>, NEW s, Write(s), s.saved = TRUE,
             file.saved => \A b \in DOMAIN file.profiles \cap Instagram :
                              Stays(b, file.profiles, s.profiles)
      PROVE  /\ folder'[a] = "none" => worn'[a] = {}
             /\ worn'[a] \subseteq Own(a)'
             /\ cli'.account = a => folder'[a] = "session"
             /\ cli'.account = a /\ ~cli'.mended => cli'.read \subseteq Own(a)'
  <2>1. CASE folder[a] = "none"
    BY <1>1, <1>a, <2>1
  <2>2. CASE folder[a] # "none"
    <3>1. Own(a) \subseteq Own(a)'
      BY <1>1, <2>2, OwnKept
    <3>. QED BY <1>1, <1>a, <2>2, <3>1
  <2>. QED BY <2>1, <2>2
<1>2. CASE Look \/ \E b \in Accounts : Accept(b)
  <2>1. PICK s \in Context : Write(s) /\ UNCHANGED <<folder, cli, worn>>
    BY <1>2 DEF Look, Accept
  <2>. QED BY <1>1, <2>1, ContextSound DEF Sound
<1>3. ASSUME NEW active \in Orders, NEW rosters \in Rosters, PutState(active, rosters)
      PROVE  /\ folder'[a] = "none" => worn'[a] = {}
             /\ worn'[a] \subseteq Own(a)'
             /\ cli'.account = a => folder'[a] = "session"
             /\ cli'.account = a /\ ~cli'.mended => cli'.read \subseteq Own(a)'
  <2>1. CASE Context = {}
    <3>1. /\ worn'[a] = {} /\ cli' = [cli EXCEPT !.mended = TRUE] /\ folder' = folder
      BY <1>3, <1>a, <2>1 DEF PutState, Repaired
    <3>2. cli'.account = cli.account /\ cli'.mended = TRUE
      BY <3>1 DEF TypeOK, NoCheck
    <3>. QED BY <1>a, <3>1, <3>2
  <2>2. CASE Context # {}
    <3>1. PICK s \in Saved(active, rosters) \cup Context :
            Write(s) /\ UNCHANGED <<folder, cli, worn>>
      BY <1>3, <2>2 DEF PutState, Repaired
    <3>2. /\ s.saved = TRUE
          /\ file.saved => \A b \in DOMAIN file.profiles \cap Instagram :
                              Stays(b, file.profiles, s.profiles)
      BY <2>2, <3>1, ContextSound, SavedSound DEF Sound
    <3>. QED BY <1>1, <3>1, <3>2
  <2>. QED BY <2>1, <2>2
<1>b. UNCHANGED file => Own(a)' = Own(a)
  BY DEF Own
<1>4. ASSUME NEW b \in Accounts, Launch(b)
      PROVE  /\ worn'[a] \subseteq Own(a) /\ (folder[a] = "none" => worn'[a] = {})
             /\ UNCHANGED <<folder, file, cli>>
  <2>1. worn' = [worn EXCEPT ![b] = @ \cup Shown(Device(b))] /\ folder[b] = "session"
        /\ UNCHANGED <<folder, file, cli>>
    BY <1>4 DEF Launch, Present
  <2>2. a = b => Shown(Device(b)) \subseteq Own(a)
    BY OwnDevice DEF Shown
  <2>. QED BY <1>a, <2>1, <2>2 DEF TypeOK
<1>5. ASSUME NEW b \in Accounts, Done(b) \/ CliStarts(b)
      PROVE  /\ UNCHANGED <<folder, file, worn>>
             /\ cli' = cli \/ (cli'.read = {} /\ folder[cli'.account] = "session")
  BY <1>5 DEF Done, CliStarts
<1>6. ASSUME NEW b \in Accounts, LoginOpens(b)
      PROVE  /\ UNCHANGED <<file, cli, worn>>
             /\ (cli.account = a => folder'[a] = "session")
             /\ (folder'[a] = "none" => folder[a] = "none")
  BY <1>6, <1>a DEF LoginOpens, TypeOK
<1>7. ASSUME NEW b \in Accounts, LoginEnds(b) \/ ClearSession(b) \/ MoveFolder(b)
      PROVE  /\ UNCHANGED <<file, cli>>
             /\ (cli.account = a => folder'[a] = "session")
             /\ (folder'[a] = "none" => worn'[a] = {}) /\ worn'[a] \subseteq worn[a]
  BY <1>7, <1>a DEF LoginEnds, ClearSession, MoveFolder, Gone, TypeOK
<1>8. CASE CliLookup
  <2>1. /\ UNCHANGED <<folder, file, worn>>
        /\ cli \in [account : Accounts, left : 1..3, read : SUBSET Indices,
                    mended : BOOLEAN]
        /\ \/ cli' = NoCheck
           \/ /\ Device(cli.account) # Refused
              /\ cli' = [cli EXCEPT !.left = @ - 1, !.read = @ \cup {Device(cli.account)}]
    BY <1>8 DEF CliLookup, NoCheck, TypeOK
  <2>2. CASE cli' = NoCheck
    BY <1>a, <1>b, <2>1, <2>2 DEF NoCheck
  <2>3. CASE cli' # NoCheck
    <3>1. /\ cli'.account = cli.account /\ cli'.mended = cli.mended
          /\ cli'.read = cli.read \cup {Device(cli.account)}
      BY <2>1, <2>3
    <3>2. cli.account = a => Device(cli.account) \in Own(a)
      BY <2>1, <2>3, OwnDevice
    <3>. QED BY <1>a, <1>b, <2>1, <3>1, <3>2
  <2>. QED BY <2>2, <2>3
<1>9. CASE CliLaunches
  <2>1. /\ UNCHANGED <<folder, file>> /\ cli' = NoCheck
        /\ \/ /\ folder[cli.account] = "session" /\ ~cli.mended
              /\ worn' = [worn EXCEPT ![cli.account] = @ \cup cli.read]
           \/ UNCHANGED worn
    BY <1>9 DEF CliLaunches, Present
  <2>2. /\ worn'[a] \subseteq Own(a)
        /\ folder[a] = "none" => worn'[a] = {}
    BY <1>a, <2>1 DEF TypeOK
  <2>. QED BY <1>a, <1>b, <2>1, <2>2 DEF NoCheck
<1>10. CASE UNCHANGED vars
  BY <1>a, <1>b, <1>10 DEF vars
<1>11. ASSUME NEW b \in Accounts, Launch(b) \/ Done(b) \/ CliStarts(b) \/ LoginOpens(b)
                                 \/ LoginEnds(b) \/ ClearSession(b) \/ MoveFolder(b)
       PROVE  /\ folder'[a] = "none" => worn'[a] = {}
              /\ worn'[a] \subseteq Own(a)'
              /\ cli'.account = a => folder'[a] = "session"
              /\ cli'.account = a /\ ~cli'.mended => cli'.read \subseteq Own(a)'
  BY <1>a, <1>b, <1>4, <1>5, <1>6, <1>7, <1>11
<1>. QED BY <1>2, <1>3, <1>8, <1>9, <1>10, <1>11 DEF Next

(* _index_for_slot: as long as no request has to repair the file, a        *)
(* session presents the device assigned to its account, or the one of the  *)
(* account's position among the slots, and no third one.                   *)
THEOREM StraysToLegacyOnlyCorrect == Spec => []StraysToLegacyOnly
<1>1. Init => StrayInv
  BY KnownAccounts, AccountsAssumption DEF Init, StrayInv, NoCheck, Own
<1>2. TypeOK /\ FileSound /\ StrayInv /\ [Next]_vars => StrayInv'
  BY StrayStep
<1>3. FileSound /\ StrayInv => StraysToLegacyOnly
  BY DEF StrayInv, StraysToLegacyOnly, Own
<1>. QED BY <1>1, <1>2, <1>3, FileCorrect, TypeCorrect, PTL DEF Spec
=============================================================================
