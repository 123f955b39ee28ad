--------------------------- MODULE AccountDevices ---------------------------
(***************************************************************************)
(* Which Instagram device each account presents.  The accounts are the     *)
(* configured slots and whatever has a session folder                      *)
(* (backend/account_state.py, discover_accounts); a versioned state file   *)
(* holds the active roster, the saved rosters and one device profile per   *)
(* account; a headless browser takes its device from that file             *)
(* (backend/device_identity.py).  Three parties touch it: the endpoints of *)
(* the server (backend/main.py), the runs the server has accepted, and the *)
(* command-line tool (backend/session_manager.py), a second process.       *)
(***************************************************************************)
EXTENDS Integers, Sequences, FiniteSets

CONSTANTS
  Accounts,        \* every account id that may appear
  Slots,           \* SLOT_IDS, the configured ids in order
  Capacity,        \* len(DISPLAYS)
  OnTikTok,        \* the accounts that have a TikTok session
  Rosters,         \* the sets of saved rosters a request may carry
  HashIndex,       \* sha256(id) mod Capacity, for ids outside the slots
  Followed,        \* the accounts whose launches are followed
  ByHand,          \* session folders outside the slots come and go by hand
  NoAccount        \* not an account

SlotIds == {Slots[i] : i \in DOMAIN Slots}
Indices == 0..(Capacity - 1)
Folders == {"none", "empty", "session"}

ASSUME SlotsAssumption ==
  /\ Slots \in Seq(Accounts)
  /\ \A i, j \in DOMAIN Slots : Slots[i] = Slots[j] => i = j
ASSUME CapacityAssumption ==       \* _validate_capacity refuses to start
  /\ Capacity \in Nat /\ Len(Slots) <= Capacity
ASSUME AccountsAssumption ==
  /\ IsFiniteSet(Accounts) /\ NoAccount \notin Accounts
  /\ OnTikTok \subseteq Accounts
  /\ Rosters \subseteq SUBSET SUBSET Accounts
  /\ HashIndex \in [Accounts -> Indices]
  /\ ByHand \in BOOLEAN /\ Followed \subseteq Accounts

VARIABLES
  folder,     \* the Instagram session folder of each account
  file,       \* .account-state.json
  opened,     \* the accounts whose folder an open login attempt created
  targets,    \* the followed accounts an accepted run will still launch
  cli,        \* the device lookups of a command-line check under way
  worn        \* (ghost) the devices each account has presented in its session

vars == <<folder, file, opened, targets, cli, worn>>

-----------------------------------------------------------------------------
(* The store.                                                              *)

Known == SlotIds \cup OnTikTok \cup {a \in Accounts : folder[a] # "none"}
Instagram == {a \in Accounts : folder[a] # "none"}

Members(list) == {list[i] : i \in DOMAIN list}
Position(list, a) == CHOOSE i \in DOMAIN list : list[i] = a
Injective(p) == \A a, b \in DOMAIN p : p[a] = p[b] => a = b
Only(p, S) == [a \in DOMAIN p \cap S |-> p[a]]
Taken(p) == {p[a] : a \in DOMAIN p}

(* AccountStateStore.validate.                                             *)
WellFormed(active, rosters) ==
  \A names \in rosters \cup {Members(active)} :
     /\ names \subseteq Known
     /\ Cardinality(names \cap Instagram) <= Capacity
SoundProfiles(p) ==
  DOMAIN p \subseteq Known /\ Injective(p) /\ Taken(p) \subseteq Indices
Valid(s) == WellFormed(s.active, s.rosters) /\ SoundProfiles(s.profiles)

(* assign_active_profiles: what an account already has stays; the active   *)
(* Instagram accounts without a profile take, in roster order, the lowest  *)
(* index left.  There is no such assignment when the indices run out.      *)
Assignable == Indices
KeptMutant(s) == Only(s.profiles, Instagram \cap Members(s.active))
Kept(s) == Only(s.profiles, Instagram)
Newcomers(s) == (Members(s.active) \cap Instagram) \ DOMAIN Kept(s)

Assignments(s) ==
  LET kept == Kept(s)
      new == Newcomers(s)
      earlier(a) == {b \in new : Position(s.active, b) < Position(s.active, a)}
  IN {p \in [DOMAIN kept \cup new -> Taken(kept) \cup Assignable] :
        /\ \A a \in DOMAIN kept : p[a] = kept[a]
        /\ \A a \in new :
             LET used == Taken(kept) \cup {p[b] : b \in earlier(a)}
             IN p[a] \notin used /\ 0..(p[a] - 1) \subseteq used}

Assigned(s) ==
  {t \in {[s EXCEPT !.profiles = p] : p \in Assignments(s)} : Valid(t)}

(* default_state, while there is no file.                                  *)
Default ==
  [saved |-> TRUE, active |-> Slots, rosters |-> {},
   profiles |-> [a \in SlotIds \cap Instagram |-> Position(Slots, a) - 1]]

Loaded == IF file.saved THEN {s \in {file} : Valid(s)} ELSE {Default}

(* _account_context: the state every endpoint works with, and saves when   *)
(* the assignment changed it; empty when it raised AccountStateError.      *)
Context == UNION {Assigned(s) : s \in Loaded}

(* update_account_state.  A file that could not be used hands on nothing.  *)
CarriedOverMutant ==
  UNION {{s.profiles : s \in IF Context = {} THEN {file} ELSE Context}}
CarriedOver == IF Context = {} THEN {<<>>} ELSE {s.profiles : s \in Context}

Requested(active, rosters, p) ==
  [saved |-> TRUE, active |-> active, rosters |-> rosters, profiles |-> p]

Saved(active, rosters) ==
  UNION {Assigned(s) : s \in {r \in {Requested(active, rosters, p) :
                                        p \in CarriedOver} : Valid(r)}}

(* device_identity._index_for_slot; Capacity stands for its ValueError.    *)
Refused == Capacity
LegacyMutant(a) == Position(Slots, a) - 1
Legacy(a) == LET i == Position(Slots, a) - 1
             IN IF i \in Taken(file.profiles) THEN Refused ELSE i
Device(a) ==
  CASE ~file.saved /\ a \in SlotIds -> Position(Slots, a) - 1
    [] ~file.saved /\ a \notin SlotIds -> HashIndex[a]
    [] file.saved /\ a \in DOMAIN file.profiles -> file.profiles[a]
    [] file.saved /\ a \in SlotIds \ DOMAIN file.profiles -> Legacy(a)
    [] OTHER -> Refused
-----------------------------------------------------------------------------
NoCheck == [account |-> NoAccount, left |-> 0, read |-> {}, mended |-> TRUE]

Init ==
  /\ folder \in [Accounts -> {"none", "session"}]
  /\ file = [saved |-> FALSE, active |-> <<>>, rosters |-> {}, profiles |-> <<>>]
  /\ opened = {} /\ targets = {}
  /\ cli = NoCheck
  /\ worn = [a \in Accounts |-> {}]

Write(s) == file' = s

(* Any endpoint that looks at the accounts.                                *)
Look ==
  /\ \E s \in Context : Write(s)
  /\ UNCHANGED <<folder, opened, targets, cli, worn>>

(* PUT /api/accounts/state.  The context is saved before the request is    *)
(* judged; a refused request (422) leaves that behind.  What is worn is    *)
(* not followed across the repair of a file that could not be used.        *)
Repaired == Context = {}

PutState(active, rosters) ==
  /\ LET accepted == Saved(active, rosters)
     IN \E s \in IF accepted # {} THEN accepted ELSE Context : Write(s)
  /\ worn' = IF Repaired THEN [a \in Accounts |-> {}] ELSE worn
  /\ cli' = IF Repaired THEN [cli EXCEPT !.mended = TRUE] ELSE cli
  /\ UNCHANGED <<folder, opened, targets>>

(* _validate_active_targets for a run or a batch that includes a; the run  *)
(* itself comes later and does not look again.                             *)
Accept(a) ==
  /\ \E s \in Context :
       /\ a \in Members(s.active)
       /\ a \in Instagram => a \in DOMAIN s.profiles
       /\ Write(s)
  /\ targets' = targets \cup ({a} \cap Followed)
  /\ UNCHANGED <<folder, opened, cli, worn>>

(* A refused lookup fails the launch before there is a browser.            *)
Shown(i) == IF i = Refused THEN {} ELSE {i}

Present(a, devices) ==
  worn' = [worn EXCEPT ![a] = @ \cup devices]

(* An accepted run, or its pre-flight check, opens Instagram for a: the    *)
(* three lookups of _identity_kwargs follow one another without an await.  *)
(* A launch changes nothing but the ghosts, so some accounts are followed. *)
Launch(a) ==
  /\ a \in targets /\ folder[a] = "session"
  /\ Present(a, Shown(Device(a)))
  /\ UNCHANGED <<folder, file, opened, targets, cli>>

(* The run is over for a.                                                  *)
Done(a) ==
  /\ a \in targets /\ targets' = targets \ {a}
  /\ UNCHANGED <<folder, file, opened, cli, worn>>

(* `session_manager check', a process of its own: viewport, screen and     *)
(* pixel ratio are three readings of the file.  (mended, a ghost, tells    *)
(* whether the file was repaired in between.)                              *)
CliStarts(a) ==
  /\ cli = NoCheck /\ a \in SlotIds \cap Followed /\ folder[a] = "session"
  /\ cli' = [account |-> a, left |-> 3, read |-> {}, mended |-> FALSE]
  /\ UNCHANGED <<folder, file, opened, targets, worn>>

CliLookup ==
  /\ cli.left > 0
  /\ LET i == Device(cli.account)
     IN cli' = IF i = Refused THEN NoCheck
               ELSE [cli EXCEPT !.left = @ - 1, !.read = @ \cup {i}]
  /\ UNCHANGED <<folder, file, opened, targets, worn>>

CliLaunches ==
  /\ cli # NoCheck /\ cli.left = 0
  /\ IF folder[cli.account] = "session" /\ ~cli.mended
       THEN Present(cli.account, cli.read) ELSE UNCHANGED worn
  /\ cli' = NoCheck
  /\ UNCHANGED <<folder, file, opened, targets>>

(* `session_manager login': Chrome fills the folder that _get_context      *)
(* made, or fails to start; `abort' removes a folder the attempt created.  *)
LoginOpens(a) ==
  /\ a \in SlotIds /\ folder[a] # "session"
  /\ \E f \in {"empty", "session"} : folder' = [folder EXCEPT ![a] = f]
  /\ opened' = opened \cup {a}
  /\ UNCHANGED <<file, targets, cli, worn>>

(* A folder is not removed between the lookups of a check of that account. *)
Gone(a) ==
  /\ cli.account # a
  /\ folder' = [folder EXCEPT ![a] = "none"]
  /\ worn' = [worn EXCEPT ![a] = {}]

LoginEnds(a) ==
  /\ a \in opened /\ opened' = opened \ {a}
  /\ Gone(a) \/ UNCHANGED <<folder, worn>>
  /\ UNCHANGED <<file, targets, cli>>

(* `session_manager clear', by the maintainer who is not logging in.       *)
ClearSession(a) ==
  /\ a \in SlotIds \ opened /\ folder[a] # "none"
  /\ Gone(a)
  /\ UNCHANGED <<file, opened, targets, cli>>

(* A folder outside the slots is copied in or removed by hand.             *)
MoveFolder(a) ==
  /\ ByHand /\ a \notin SlotIds
  /\ \/ /\ folder[a] = "none"
        /\ folder' = [folder EXCEPT ![a] = "session"] /\ UNCHANGED worn
     \/ folder[a] # "none" /\ Gone(a)
  /\ UNCHANGED <<file, opened, targets, cli>>

(* The ordered lists of distinct accounts a request may carry.             *)
Orders == UNION {{l \in [1..n -> Accounts] : Cardinality(Members(l)) = n} :
                   n \in 0..Cardinality(Accounts)}

Next ==
  \/ Look
  \/ \E active \in Orders, rosters \in Rosters : PutState(active, rosters)
  \/ \E a \in Accounts :
       \/ Accept(a) \/ Launch(a) \/ Done(a)
       \/ CliStarts(a) \/ LoginOpens(a) \/ LoginEnds(a)
       \/ ClearSession(a) \/ MoveFolder(a)
  \/ CliLookup \/ CliLaunches

Spec == Init /\ [][Next]_vars
=============================================================================
