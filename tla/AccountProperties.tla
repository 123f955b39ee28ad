------------------------- MODULE AccountProperties -------------------------
(* What the account state promises about devices, and the claims of the    *)
(* repository that it does not keep.                                       *)
EXTENDS AccountDevices

(* Every variable holds values of its type; the sources leave them untyped *)
(* (a dict of a JSON file, a folder, a process).                           *)
FileType ==
  /\ file.saved \in BOOLEAN
  /\ file.active \in Seq(Accounts)
  /\ file.rosters \subseteq SUBSET Accounts
  /\ DOMAIN file.profiles \subseteq Accounts
  /\ Taken(file.profiles) \subseteq Indices

TypeOK ==
  /\ folder \in [Accounts -> Folders]
  /\ FileType
  /\ opened \subseteq SlotIds /\ targets \subseteq Accounts
  /\ cli \in {NoCheck} \cup
        [account : Accounts, left : 0..3, read : SUBSET Indices, mended : BOOLEAN]
  /\ worn \in [Accounts -> SUBSET Indices]

(* Whoever is launched, by a run or by the command line, presents a device *)
(* that no other account would present: a saved profile, or the legacy     *)
(* position of a slot, never coincide (device_identity.py:119-166 against  *)
(* account_state.py:233-248).  Only an id outside the slots, before the    *)
(* file exists, takes a hashed index.                                      *)
Launchable(a) == Device(a) # Refused /\ (file.saved \/ a \in SlotIds)

DistinctDevices ==
  \A a, b \in Accounts :
     a # b /\ Launchable(a) /\ Launchable(b) => Device(a) # Device(b)

KeepsProfile(a) ==
  a \in DOMAIN file'.profiles /\ file'.profiles[a] = file.profiles[a]

(* While its folder stays and the file can be used, an account keeps the   *)
(* index it has, through reordering, roster switches and new accounts      *)
(* (account_state.py:233, "without moving any existing account").          *)
AssignedStay ==
  [][ file.saved /\ file' # file /\ Context # {} =>
      \A a \in DOMAIN file.profiles \cap Instagram :
         folder'[a] = "none" \/ KeepsProfile(a)
    ]_vars

(* How far an account can stray: as long as no request has to repair the   *)
(* file, all launches of one session present the assigned device or the    *)
(* one of the account's position in ACCOUNT_SLOTS, which serves until a    *)
(* profile is assigned (device_identity.py:148-155).                       *)
StraysToLegacyOnly ==
  \A a \in Followed :
     file.saved /\ a \in DOMAIN file.profiles \cap SlotIds =>
       worn[a] \subseteq {file.profiles[a], Position(Slots, a) - 1}

(* A request that is valid by itself is refused only when the profiles in  *)
(* use, those of inactive accounts included, leave no index for an account *)
(* it activates (account_state.py:233-248); and it is never refused when   *)
(* it has to repair a file that became unusable, for whatever reason       *)
(* (main.py:280-304).                                                      *)
RefusedOnlyWhenFull ==
  \A active \in Orders, rosters \in Rosters :
     WellFormed(active, rosters) /\ Saved(active, rosters) = {} =>
       \E s \in Context :
          Cardinality(DOMAIN s.profiles \cup (Members(active) \cap Instagram))
            > Capacity
-----------------------------------------------------------------------------
(* Claims that the code does not keep.                                     *)

(* main.py:286: "stable assignments survive whenever the old file was      *)
(* readable".                                                              *)
AssignmentsSurvive ==
  [][ file.saved =>
      \A a \in DOMAIN file.profiles \cap Instagram :
         folder'[a] = "none" \/ KeepsProfile(a)
    ]_vars

(* device_identity.py:23-24: assignment is persisted per account id, so    *)
(* "reordering or switching rosters [...] does not change hardware": in    *)
(* one Instagram session an account presents one device.                   *)
OneDevicePerSession ==
  \A a \in Accounts : Cardinality(worn[a]) <= 1

(* device_identity.py:45-48: the display and the viewport "must agree",    *)
(* and its table makes their drift "unrepresentable" (device_identity.py:  *)
(* 79-82): the three lookups of one launch give one index.                 *)
OneDisplayPerLaunch == Cardinality(cli.read) <= 1
=============================================================================
