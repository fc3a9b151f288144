----------------------------- MODULE ProfileStore -----------------------------
(***************************************************************************)
(* ProfileManager in two processes: the app's, with its main thread and    *)
(* the coroutines of the SDK, and the service's, with its main thread and  *)
(* the binder threads of the API.  Both add, remove, look up and reload    *)
(* profiles without a lock, each in a map of its own.  They share one file *)
(* per profile and the list of the names in the preferences; a version     *)
(* number tells the service that its copy is old.                          *)
(***************************************************************************)
EXTENDS Integers, Sequences

CONSTANTS
  Io,           \* coroutines of the SDK, on threads of Dispatchers.IO
  Binder,       \* threads that serve the API
  Own,          \* profiles with a name of their own (a random UUID)
  Managed,      \* profiles the device's management names
  MaxOps,       \* bound: number of operations
  MaxTries,     \* a look-up's tries
  None, Torn    \* model values

App == {"main"} \cup Io
Service == {"service"} \cup Binder
Threads == App \cup Service
Process == {"app", "openvpn"}
In(t) == IF t \in App THEN "app" ELSE "openvpn"

Profiles == Own \cup Managed

(* mVersion, the configuration (for a managed profile the number of the    *)
(* restrictions it came with), and whether it holds the password.          *)
Profile == [version : Nat, config : Nat, password : BOOLEAN]

(* A start command: the profile's name, and its version by the profile.    *)
Start == [uuid : Profiles, vp : Profile]

ASSUME ProfileAssumption ==
  /\ MaxOps \in Nat /\ MaxTries \in Nat
  /\ App \cap Service = {} /\ "main" \notin Io /\ "service" \notin Binder
  /\ Own \cap Managed = {}
  /\ None # Torn /\ None \notin Profile /\ Torn \notin Profile

VARIABLES
  profiles,     \* per process: the map
  list, dirty,  \* per process: "vpnlist" in memory, and whether the disk is to follow
  listOnDisk,
  file,         \* the files: missing, written in part, or a profile
  mixed,        \* profiles whose file two threads have had open at a time
  ops, policy, imported, removed,
  pc, job, uuid, \* per thread: next step, what for, and the profile's name,
  vp, shared,   \* the object, and whether it is the one of the map,
  late,         \* the thread holds a map that has been replaced,
  vlist,        \* the names it has still to load,
  version, tried, \* the version it looks for and the tries it has used
  starts,       \* start commands on the way to the service
  used          \* history: the last start's profile as launched and as found

disk == <<listOnDisk, file, mixed>>
prefs == <<list, dirty>>
count == <<ops, policy, imported, removed>>
object == <<vp, shared, late>>
lookup == <<vlist, version, tried>>
thread == <<pc, job, uuid, object, lookup>>
starting == <<starts, used>>
vars == <<profiles, prefs, disk, count, thread, starting>>

Init ==
  /\ profiles = [m \in Process |-> [p \in Profiles |-> None]]
  /\ list = [m \in Process |-> {}] /\ dirty = [m \in Process |-> FALSE]
  /\ listOnDisk = {} /\ file = [p \in Profiles |-> None] /\ mixed = {}
  /\ ops = 0 /\ policy = 0 /\ imported = {} /\ removed = {}
  /\ pc = [t \in Threads |-> "idle"] /\ job = pc
  /\ uuid = [t \in Threads |-> None] /\ vp = uuid
  /\ shared = [t \in Threads |-> FALSE] /\ late = shared
  /\ vlist = [t \in Threads |-> {}]
  /\ version = [t \in Threads |-> 0] /\ tried = version
  /\ starts = <<>> /\ used = None

Goto(t, label) == pc' = [pc EXCEPT ![t] = label]

Begin(t, p, label, what) ==
  /\ pc[t] = "idle"
  /\ Goto(t, label)
  /\ job' = [job EXCEPT ![t] = what]
  /\ uuid' = [uuid EXCEPT ![t] = p]

Count == ops < MaxOps /\ ops' = ops + 1

(* The map's entry and the object of the thread.                           *)
Entry(t) == profiles[In(t)][uuid[t]]

(* A change of the object is one of the map, if it is there.               *)
Change(t, new) ==
  /\ vp' = [vp EXCEPT ![t] = new]
  /\ profiles' = IF shared[t] THEN [profiles EXCEPT ![In(t)][uuid[t]] = new] ELSE profiles

(* No other thread holds the map's object any more.                        *)
Unshare(t) == [u \in Threads |->
  shared[u] /\ (In(u) # In(t) \/ (u # t /\ uuid[u] # uuid[t]))]

(* Two puts at a time into a HashMap: one may be lost.                     *)
Put(t, p, new) ==
  \/ profiles' = [profiles EXCEPT ![In(t)][p] = new]
  \/ /\ \E u \in Threads \ {t} : In(u) = In(t) /\ pc[u] \in {"add", "load"}
     /\ UNCHANGED profiles

-------------------------------------------------------------------------------
(* A look-up for "what"; it may load the list again.                       *)
Get(t, p, v, what) ==
  /\ Begin(t, p, "get", what)
  /\ version' = [version EXCEPT ![t] = v]
  /\ tried' = [tried EXCEPT ![t] = 0]

(* An import under a random UUID, by the app or over the API.              *)
ImportProfile(t, p) ==
  /\ t \in {"main"} \cup Binder /\ p \in Own \ imported
  /\ Count /\ Begin(t, p, "add", "import")
  /\ imported' = imported \cup {p}
  /\ vp' = [vp EXCEPT ![t] = [version |-> 0, config |-> 0, password |-> FALSE]]
  /\ late' = [late EXCEPT ![t] = FALSE]
  /\ UNCHANGED <<policy, removed, disk, prefs, profiles, shared, lookup, starting>>

(* The device's management changes what it names.                          *)
ChangeRestrictions ==
  /\ Managed # {} /\ Count
  /\ policy' = policy + 1
  /\ UNCHANGED <<imported, removed, disk, prefs, profiles, thread, starting>>

(* applyRestrictions, in either process.                                   *)
ApplyRestrictions(t, p) ==
  /\ t \in {"main", "service"} /\ p \in Managed /\ policy > 0
  /\ Count /\ Get(t, p, 0, "apply")
  /\ UNCHANGED <<policy, imported, removed, disk, prefs, profiles, object, vlist, starting>>

(* The app and the management know the profile; the API looks it up.       *)
RemoveProfile(t, p) ==
  /\ Count
  /\ \/ t \in Binder /\ Get(t, p, 0, "remove")
     \/ /\ t = "main" \/ (t = "service" /\ p \in Managed)
        /\ profiles[In(t)][p] # None
        /\ Begin(t, p, "remove", "remove") /\ UNCHANGED <<version, tried>>
  /\ UNCHANGED <<policy, imported, removed, disk, prefs, profiles, object, vlist, starting>>

(* LaunchVPN, connectZeroData, or startProfile of the API.                 *)
Launch(t, p) ==
  /\ t # "service"
  /\ Count /\ Get(t, p, 0, IF t \in Io THEN "connect" ELSE "launch")
  /\ UNCHANGED <<policy, imported, removed, disk, prefs, profiles, object, vlist, starting>>

(* onStartCommand looks for the version that was launched.                 *)
OnStartCommand ==
  /\ starts # <<>>
  /\ Get("service", Head(starts).uuid, Head(starts).vp.version, "start")
  /\ UNCHANGED <<count, disk, prefs, profiles, object, vlist, starting>>

-------------------------------------------------------------------------------
(* ProfileManager.get.                                                     *)
Current(t) == Entry(t) # None /\ Entry(t).version >= version[t]

(* loadVPNList starts with an empty map and the names in the preferences,  *)
(* which are read again if the other process has written them.             *)
Names(m) == IF dirty[m] THEN list[m] ELSE listOnDisk

(* Mutant: the tries are only counted when there is an old version.        *)
LoadVPNList_Uncounted(t) ==
  /\ pc[t] = "get" /\ ~Current(t) /\ (Entry(t) = None \/ tried[t] < MaxTries)
  /\ profiles' = [profiles EXCEPT ![In(t)] = [p \in Profiles |-> None]]
  /\ late' = [u \in Threads |-> late[u] \/ (In(u) = In(t) /\ pc[u] = "add")]
  /\ shared' = [u \in Threads |-> shared[u] /\ In(u) # In(t)]
  /\ vlist' = [vlist EXCEPT ![t] = Names(In(t))]
  /\ tried' = [tried EXCEPT ![t] = IF Entry(t) = None THEN @ ELSE @ + 1]
  /\ Goto(t, "load")
  /\ UNCHANGED <<disk, prefs, count, job, uuid, vp, version, starting>>

LoadVPNList(t) ==
  /\ pc[t] = "get" /\ ~Current(t) /\ tried[t] < MaxTries
  /\ profiles' = [profiles EXCEPT ![In(t)] = [p \in Profiles |-> None]]
  /\ late' = [u \in Threads |-> late[u] \/ (In(u) = In(t) /\ pc[u] = "add")]
  /\ shared' = [u \in Threads |-> shared[u] /\ In(u) # In(t)]
  /\ vlist' = [vlist EXCEPT ![t] = Names(In(t))]
  /\ tried' = [tried EXCEPT ![t] = @ + 1]
  /\ Goto(t, "load")
  /\ UNCHANGED <<disk, prefs, count, job, uuid, vp, version, starting>>

(* A file that is missing or torn is left out.                             *)
Readable(p) == file[p] \notin {None, Torn}

(* Mutant: whatever there is of a file is taken.                           *)
LoadProfile_TakesTorn(t) ==
  /\ pc[t] = "load"
  /\ \/ vlist[t] = {} /\ Goto(t, "get") /\ UNCHANGED <<profiles, vlist>>
     \/ \E p \in vlist[t] :
          /\ vlist' = [vlist EXCEPT ![t] = @ \ {p}]
          /\ Put(t, p, file[p])
          /\ UNCHANGED pc
  /\ UNCHANGED <<disk, prefs, count, job, uuid, object, version, tried, starting>>

LoadProfile(t) ==
  /\ pc[t] = "load"
  /\ \/ vlist[t] = {} /\ Goto(t, "get") /\ UNCHANGED <<profiles, vlist>>
     \/ \E p \in vlist[t] :
          /\ vlist' = [vlist EXCEPT ![t] = @ \ {p}]
          /\ IF Readable(p) THEN Put(t, p, file[p]) ELSE UNCHANGED profiles
          /\ UNCHANGED pc
  /\ UNCHANGED <<disk, prefs, count, job, uuid, object, version, tried, starting>>

(* The look-up ends with the current version, or after its tries with an   *)
(* older one or none: the service stops, the others report an error.       *)
GetProfile(t) ==
  /\ pc[t] = "get" /\ (Current(t) \/ tried[t] >= MaxTries)
  /\ \/ /\ job[t] = "apply"
        /\ UNCHANGED <<starting, shared>>
        /\ IF Entry(t) # None /\ Entry(t).config = policy
           THEN Goto(t, "idle") /\ UNCHANGED <<vp, late>>
           ELSE /\ Goto(t, "add")
                /\ late' = [late EXCEPT ![t] = FALSE]
                /\ vp' = [vp EXCEPT ![t] =
                     [version |-> IF Entry(t) = None THEN 0 ELSE Entry(t).version + 1,
                      config |-> policy, password |-> FALSE]]
     \/ /\ job[t] = "start"
        /\ starts' = Tail(starts)
        /\ used' = [start |-> Head(starts), found |-> Entry(t)]
        /\ Goto(t, "idle") /\ UNCHANGED object
     \/ /\ job[t] \in {"launch", "connect", "remove"}
        /\ vp' = [vp EXCEPT ![t] = Entry(t)]
        /\ shared' = [shared EXCEPT ![t] = Entry(t) # None]
        /\ \E label \in IF Entry(t) = None \/ job[t] = "connect" THEN {"idle"}
                        ELSE IF job[t] = "remove" THEN {"remove"}
                        ELSE IF t = "main" THEN {"selected"} ELSE {"start", "idle"} :
             Goto(t, label)
        /\ UNCHANGED <<late, starting>>
  /\ UNCHANGED <<disk, prefs, profiles, count, job, uuid, lookup>>

-------------------------------------------------------------------------------
(* Mutant: the new profile is not saved.                                   *)
AddProfile_Unsaved(t) ==
  /\ pc[t] = "add"
  /\ IF late[t] THEN UNCHANGED profiles /\ shared' = [shared EXCEPT ![t] = FALSE]
     ELSE /\ Put(t, uuid[t], vp[t])
          /\ shared' = [Unshare(t) EXCEPT ![t] = profiles'[In(t)][uuid[t]] = vp[t]]
  /\ Goto(t, "saveList")
  /\ UNCHANGED <<disk, prefs, job, uuid, vp, late, lookup, count, starting>>

(* The thread has read the field; it puts the object into that map.        *)
AddProfile(t) ==
  /\ pc[t] = "add"
  /\ IF late[t] THEN UNCHANGED profiles /\ shared' = [shared EXCEPT ![t] = FALSE]
     ELSE /\ Put(t, uuid[t], vp[t])
          /\ shared' = [Unshare(t) EXCEPT ![t] = profiles'[In(t)][uuid[t]] = vp[t]]
  /\ Goto(t, "save")
  /\ UNCHANGED <<disk, prefs, job, uuid, vp, late, lookup, count, starting>>

(* openFileOutput leaves an empty file, which another thread may have open *)
(* as well.                                                                *)
Writes(t, p) == uuid[t] = p /\ pc[t] \in {"write", "writeLRU"}

Open(t) ==
  /\ file' = [file EXCEPT ![uuid[t]] = Torn]
  /\ mixed' = IF \E u \in Threads : Writes(u, uuid[t]) THEN mixed \cup {uuid[t]}
              ELSE mixed \ {uuid[t]}

SaveProfile(t) ==
  /\ pc[t] = "save"
  /\ Change(t, [vp[t] EXCEPT !.version = @ + 1])
  /\ Open(t)
  /\ Goto(t, "write")
  /\ UNCHANGED <<listOnDisk, prefs, job, uuid, shared, late, lookup, count, starting>>

(* What is written to a deleted file is lost; of what two threads write    *)
(* any part may be left.                                                   *)
WriteObject(t) ==
  /\ pc[t] \in {"write", "writeLRU"}
  /\ \/ file[uuid[t]] # None /\ file' = [file EXCEPT ![uuid[t]] = vp[t]]
     \/ uuid[t] \in mixed /\ file[uuid[t]] # None /\ file' = [file EXCEPT ![uuid[t]] = Torn]
     \/ file[uuid[t]] = None /\ UNCHANGED file
  /\ Goto(t, IF pc[t] = "write" THEN "saveList" ELSE "start")
  /\ UNCHANGED <<listOnDisk, mixed, profiles, prefs, job, uuid, object, lookup, count, starting>>

(* saveProfileList; apply: the disk follows.                               *)
SaveProfileList(t) ==
  /\ pc[t] \in {"saveList", "saveListThenDelete"}
  /\ list' = [list EXCEPT ![In(t)] = {p \in Profiles : profiles[In(t)][p] # None}]
  /\ dirty' = [dirty EXCEPT ![In(t)] = TRUE]
  /\ Goto(t, IF pc[t] = "saveList" THEN "idle" ELSE "delete")
  /\ UNCHANGED <<disk, profiles, job, uuid, object, lookup, count, starting>>

WriteList(m) ==
  /\ dirty[m]
  /\ listOnDisk' = list[m]
  /\ dirty' = [dirty EXCEPT ![m] = FALSE]
  /\ UNCHANGED <<file, mixed, list, profiles, count, thread, starting>>

RemoveFromMap(t) ==
  /\ pc[t] = "remove"
  /\ profiles' = [profiles EXCEPT ![In(t)][uuid[t]] = None]
  /\ shared' = Unshare(t)
  /\ removed' = removed \cup {uuid[t]}
  /\ Goto(t, "saveListThenDelete")
  /\ UNCHANGED <<disk, prefs, ops, policy, imported, job, uuid, vp, late, lookup, starting>>

DeleteFile(t) ==
  /\ pc[t] = "delete"
  /\ file' = [file EXCEPT ![uuid[t]] = None]
  /\ Goto(t, "idle")
  /\ UNCHANGED <<listOnDisk, mixed, profiles, prefs, job, uuid, object, lookup, count, starting>>

-------------------------------------------------------------------------------
(* A password may be asked for and become part of the profile.             *)
AskForPW(t) ==
  \/ UNCHANGED <<vp, profiles>>
  \/ Change(t, [vp[t] EXCEPT !.password = TRUE])

(* updateLRU saves the profile under the same version; the condition of a  *)
(* call that is commented out is now that of this one, so it may be left   *)
(* out.                                                                    *)
UpdateLRU(t) ==
  /\ pc[t] = "selected"
  /\ AskForPW(t)
  /\ \/ Open(t) /\ Goto(t, "writeLRU")
     \/ Goto(t, "start") /\ UNCHANGED <<file, mixed>>
  /\ UNCHANGED <<listOnDisk, prefs, job, uuid, shared, late, lookup, count, starting>>

StartService(t) ==
  /\ pc[t] = "start"
  /\ starts' = Append(starts, [uuid |-> uuid[t], vp |-> vp[t]])
  /\ Goto(t, "idle")
  /\ UNCHANGED <<disk, profiles, prefs, job, uuid, object, lookup, count, used>>

-------------------------------------------------------------------------------
Step(t) ==
  \/ LoadVPNList(t) \/ LoadProfile(t) \/ GetProfile(t)
  \/ AddProfile(t) \/ SaveProfile(t) \/ WriteObject(t) \/ SaveProfileList(t)
  \/ RemoveFromMap(t) \/ DeleteFile(t) \/ UpdateLRU(t) \/ StartService(t)

Next ==
  \/ \E t \in Threads, p \in Profiles :
       ImportProfile(t, p) \/ ApplyRestrictions(t, p) \/ RemoveProfile(t, p) \/ Launch(t, p)
  \/ ChangeRestrictions \/ OnStartCommand
  \/ \E t \in Threads : Step(t)
  \/ \E m \in Process : WriteList(m)

(* Threads run; a start command is delivered before the service's next     *)
(* work of its own for ever.                                               *)
Fairness ==
  /\ \A t \in Threads : WF_vars(Step(t))
  /\ \A m \in Process : WF_vars(WriteList(m))
  /\ WF_vars(OnStartCommand)

Spec == Init /\ [][Next]_vars
FairSpec == Spec /\ Fairness

-------------------------------------------------------------------------------
Label == {"idle", "get", "load", "add", "save", "write", "writeLRU", "saveList",
          "remove", "saveListThenDelete", "delete", "selected", "start"}
Job == {"idle", "import", "apply", "remove", "launch", "connect", "start"}

MapsOK ==
  /\ profiles \in [Process -> [Profiles -> Profile \cup {None}]]
  /\ file \in [Profiles -> Profile \cup {None, Torn}]
ListsOK ==
  /\ list \in [Process -> SUBSET Profiles] /\ dirty \in [Process -> BOOLEAN]
  /\ listOnDisk \subseteq Profiles /\ mixed \subseteq Profiles
CountsOK ==
  /\ ops \in 0..MaxOps /\ policy \in Nat
  /\ imported \subseteq Own /\ removed \subseteq Profiles
StepsOK ==
  /\ pc \in [Threads -> Label] /\ job \in [Threads -> Job]
  /\ uuid \in [Threads -> Profiles \cup {None}]
ObjectsOK ==
  /\ vp \in [Threads -> Profile \cup {None}]
  /\ shared \in [Threads -> BOOLEAN] /\ late \in [Threads -> BOOLEAN]
LookupsOK ==
  /\ vlist \in [Threads -> SUBSET Profiles]
  /\ version \in [Threads -> Nat] /\ tried \in [Threads -> 0..MaxTries]
StartsOK ==
  /\ starts \in Seq(Start)
  /\ used = None \/ used \in [start : Start, found : Profile \cup {None}]

(* No map holds a file that was read half.                                 *)
TypeOK ==
  /\ MapsOK /\ ListsOK /\ CountsOK
  /\ StepsOK /\ ObjectsOK /\ LookupsOK /\ StartsOK

AtRest == \A t \in Threads : pc[t] = "idle"

(* Between operations a profile that a map or a list still names can be    *)
(* loaded from its file, unless somebody removed it or two threads wrote   *)
(* it at a time; and the latter happens to none that has its own name,     *)
(* though the two processes have no lock.                                  *)
StoreIsReadable ==
  /\ mixed \cap Own \subseteq removed
  /\ AtRest =>
       \A p \in Profiles \ (removed \cup mixed), m \in Process :
         profiles[m][p] # None \/ p \in Names(m) => Readable(p)

(* Every start is answered, by a session or by the service's end.          *)
StartIsAnswered == <>[](starts = <<>>)

-------------------------------------------------------------------------------
(* What comments, labels and types say and the code does not always do;    *)
(* README.md tells how to see it.                                          *)

(* Saved, and nobody is still at work on it.                               *)
IsSaved(p) ==
  Readable(p) /\ \A t \in Threads : uuid[t] = p /\ job[t] \in {"import", "remove"} => pc[t] = "idle"

(* startOrStopOpenVPN's "profile: VpnProfile" (ZeroDataSDK.kt:87) is never *)
(* null: a connect finds its profile once that is saved, if it was not     *)
(* removed; at worst it would with one more try.                           *)
ConnectFindsProfile ==
  [][\A t \in Io :
       pc[t] = "get" /\ pc'[t] = "idle" /\ IsSaved(uuid[t]) /\ uuid[t] \notin removed
         => vp'[t] # None \/ uuid[t] \in Names(In(t))]_vars

(* "Remove a profile by UUID" (IOpenVPNAPIService.aidl:54): afterwards     *)
(* there is no such profile.                                               *)
RemovedIsGone == AtRest => \A p \in Own \cap removed : ~Readable(p)

(* addNewVPNProfile "return[s] the UUID on add" (IOpenVPNAPIService.aidl:   *)
(* 16): the profile of that name stays, until it is removed.               *)
NoProfileIsLost ==
  AtRest => \A p \in imported \ removed : \E m \in Process : p \in Names(m)

(* "Try for 10s to get current version of the profile"                     *)
(* (OpenVPNService.java:540): the service does not start with an older     *)
(* configuration than the one that was launched.                           *)
ServiceIsCurrent ==
  used # None /\ used.found # None => used.found.config >= used.start.vp.config

(* "Save Password" (strings.xml:286, the box of askForPW): it is in the     *)
(* file.                                                                   *)
PasswordIsStored ==
  AtRest => \A p \in Names("app") :
    profiles["app"][p] # None /\ profiles["app"][p].password => file[p].password

(* "LRU does not change the profile, no need for the service to refresh"   *)
(* (ProfileManager.java:268): the service has the password that was typed. *)
PasswordArrives ==
  used # None /\ used.found # None /\ used.start.vp.password => used.found.password
===============================================================================
