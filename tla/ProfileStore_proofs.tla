------------------------- MODULE ProfileStore_proofs --------------------------
(***************************************************************************)
(* That a profile which is still named can be loaded, for any number of    *)
(* coroutines, binder threads, profiles, operations and tries.             *)
(***************************************************************************)
EXTENDS ProfileStore, SequenceTheorems, TLAPS

-------------------------------------------------------------------------------
(* What a thread's next step says of what it holds.                        *)
Working ==
  \A t \in Threads :
    /\ pc[t] # "idle" => uuid[t] \in Profiles
    /\ pc[t] \in {"add", "save", "write", "selected", "writeLRU", "start"} => vp[t] \in Profile
    /\ pc[t] \in {"selected", "writeLRU"} => t = "main"
    /\ pc[t] \in {"add", "save", "write"} => t \notin Io
    /\ pc[t] \in {"get", "load"} /\ job[t] = "apply" => t \notin Io /\ uuid[t] \in Managed
    /\ pc[t] \in {"get", "load"} /\ job[t] = "start" => t = "service" /\ starts # <<>>
    /\ pc[t] \in {"saveListThenDelete", "delete"} => uuid[t] \in removed

(* An object of the map is in the map.                                     *)
SharedIsThere ==
  \A t \in Threads : pc[t] \in {"save", "selected"} /\ shared[t] => Entry(t) # None

(* A profile that a map or a list names has a file, or gets one.           *)
HasFile(p) == file[p] # None \/ \E t \in Threads : uuid[t] = p /\ pc[t] = "save"

Named(p) == p \in listOnDisk \/ \E m \in Process : profiles[m][p] # None \/ p \in list[m]

NamedHasFile == \A p \in Profiles \ removed : Named(p) => HasFile(p)

(* A file is half written only while a thread writes it, or two have.      *)
TornIsWritten ==
  \A p \in Profiles : file[p] = Torn => p \in mixed \/ \E t \in Threads : Writes(t, p)

(* A profile with its own name is imported once; until it is written no    *)
(* other process has it, and only the app's main thread writes it again.   *)
Imports(t, p) == uuid[t] = p /\ pc[t] \in {"add", "save", "write"}
Renews(p) == uuid["main"] = p /\ pc["main"] \in {"selected", "writeLRU"}

New(p) == file[p] = None /\ ~Renews(p) /\ \A m \in Process : profiles[m][p] = None

ImportedAlone(t, p) ==
  /\ p \in imported /\ ~Readable(p) /\ ~Renews(p)
  /\ t # "main" => profiles["app"][p] = None
  /\ \A u \in Threads : Imports(u, p) => u = t

OwnHasOneWriter ==
  \A p \in Own \ removed :
    /\ p \notin mixed
    /\ p \notin imported => New(p)
    /\ \A t \in Threads : Imports(t, p) => ImportedAlone(t, p)

IInv == TypeOK /\ Working /\ SharedIsThere /\ NamedHasFile /\ TornIsWritten /\ OwnHasOneWriter

-------------------------------------------------------------------------------
LEMMA ThreadFacts ==
  /\ "main" \in Threads /\ In("main") = "app" /\ "service" \in Threads
  /\ Own \subseteq Profiles /\ Managed \subseteq Profiles
  /\ \A t \in Threads : In(t) \in Process
  /\ \A t \in Threads : t # "main" /\ t \notin Io => In(t) = "openvpn"
  /\ \A t \in {"main"} \cup Binder : t \in Threads /\ t \notin Io
BY ProfileAssumption DEF ProfileAssumption, Threads, App, Service, In, Process, Profiles

THEOREM InitInv == Init => IInv
<1> SUFFICES ASSUME Init PROVE IInv
  OBVIOUS
<1>1. TypeOK
  BY ProfileAssumption DEF ProfileAssumption, Init, TypeOK, MapsOK, ListsOK,
       CountsOK, StepsOK, ObjectsOK, LookupsOK, StartsOK, Label, Job
<1>2. Working
  BY DEF Init, Working
<1>6. SharedIsThere
  BY DEF Init, SharedIsThere
<1>3. NamedHasFile
  BY DEF Init, NamedHasFile, Named
<1>4. TornIsWritten
  BY ProfileAssumption DEF ProfileAssumption, Init, TornIsWritten
<1>5. OwnHasOneWriter
  BY ThreadFacts DEF Init, OwnHasOneWriter, New, Renews, Imports, Readable
<1> QED
  BY <1>1, <1>2, <1>3, <1>4, <1>5, <1>6 DEF IInv
-------------------------------------------------------------------------------
LEMMA ProfileFacts ==
  /\ None \notin Profile /\ Torn \notin Profile /\ None # Torn
  /\ \A v \in Profile : /\ [v EXCEPT !.version = @ + 1] \in Profile
                        /\ [v EXCEPT !.password = TRUE] \in Profile
                        /\ v.version \in Nat
<1>1. None \notin Profile /\ Torn \notin Profile /\ None # Torn
  BY ProfileAssumption DEF ProfileAssumption
<1>2. ASSUME NEW v \in Profile PROVE [v EXCEPT !.version = @ + 1] \in Profile
  BY DEF Profile
<1>3. ASSUME NEW v \in Profile PROVE [v EXCEPT !.password = TRUE] \in Profile
  BY DEF Profile
<1>4. ASSUME NEW v \in Profile PROVE v.version \in Nat
  BY DEF Profile
<1> QED
  BY <1>1, <1>2, <1>3, <1>4

LEMMA ChangeTypes ==
  ASSUME TypeOK, NEW t \in Threads, uuid[t] \in Profiles, NEW new \in Profile, Change(t, new)
  PROVE  /\ profiles' \in [Process -> [Profiles -> Profile \cup {None}]]
         /\ vp' \in [Threads -> Profile \cup {None}]
BY ThreadFacts DEF TypeOK, MapsOK, ObjectsOK, Change

LEMMA PutTypes ==
  ASSUME TypeOK, NEW t \in Threads, NEW p \in Profiles, NEW new \in Profile, Put(t, p, new)
  PROVE  profiles' \in [Process -> [Profiles -> Profile \cup {None}]]
BY ThreadFacts DEF TypeOK, MapsOK, Put

LEMMA OpenTypes ==
  ASSUME TypeOK, NEW t \in Threads, uuid[t] \in Profiles, Open(t)
  PROVE  file' \in [Profiles -> Profile \cup {None, Torn}] /\ mixed' \subseteq Profiles
BY DEF TypeOK, MapsOK, ListsOK, Open

LEMMA MapsStep ==
  ASSUME TypeOK, Working, [Next]_vars
  PROVE  MapsOK'
<1>1. ASSUME NEW t \in Threads, LoadVPNList(t) PROVE MapsOK'
  BY <1>1, ThreadFacts DEF LoadVPNList, TypeOK, MapsOK, disk
<1>2. ASSUME NEW t \in Threads, LoadProfile(t) PROVE MapsOK'
  <2>1. CASE UNCHANGED profiles
    BY <1>2, <2>1 DEF LoadProfile, TypeOK, MapsOK, disk
  <2>2. ASSUME NEW p \in vlist[t], Readable(p), Put(t, p, file[p]) PROVE MapsOK'
    <3>1. p \in Profiles /\ file[p] \in Profile
      BY <2>2 DEF TypeOK, MapsOK, LookupsOK, Readable
    <3> QED
      BY <1>2, <2>2, <3>1, PutTypes DEF LoadProfile, TypeOK, MapsOK, disk
  <2> QED
    BY <1>2, <2>1, <2>2 DEF LoadProfile
<1>3. ASSUME NEW t \in Threads, AddProfile(t) PROVE MapsOK'
  <2>1. uuid[t] \in Profiles /\ vp[t] \in Profile
    BY <1>3 DEF AddProfile, Working
  <2> QED
    BY <1>3, <2>1, PutTypes DEF AddProfile, TypeOK, MapsOK, disk
<1>4. ASSUME NEW t \in Threads, SaveProfile(t) PROVE MapsOK'
  <2>1. uuid[t] \in Profiles /\ vp[t] \in Profile
    BY <1>4 DEF SaveProfile, Working
  <2> QED
    BY <1>4, <2>1, ProfileFacts, ChangeTypes, OpenTypes DEF SaveProfile, MapsOK
<1>5. ASSUME NEW t \in Threads, WriteObject(t) PROVE MapsOK'
  <2>1. uuid[t] \in Profiles /\ vp[t] \in Profile
    BY <1>5 DEF WriteObject, Working
  <2> QED
    BY <1>5, <2>1 DEF WriteObject, TypeOK, MapsOK
<1>6. ASSUME NEW t \in Threads, RemoveFromMap(t) PROVE MapsOK'
  BY <1>6, ThreadFacts DEF RemoveFromMap, Working, TypeOK, MapsOK, disk
<1>7. ASSUME NEW t \in Threads, DeleteFile(t) PROVE MapsOK'
  BY <1>7 DEF DeleteFile, Working, TypeOK, MapsOK
<1>8. ASSUME NEW t \in Threads, UpdateLRU(t) PROVE MapsOK'
  <2>1. uuid[t] \in Profiles /\ vp[t] \in Profile
    BY <1>8 DEF UpdateLRU, Working
  <2>2. profiles' \in [Process -> [Profiles -> Profile \cup {None}]]
    BY <1>8, <2>1, ProfileFacts, ChangeTypes DEF UpdateLRU, AskForPW, TypeOK, MapsOK
  <2>3. file' \in [Profiles -> Profile \cup {None, Torn}]
    BY <1>8, <2>1, OpenTypes DEF UpdateLRU, TypeOK, MapsOK
  <2> QED
    BY <2>2, <2>3 DEF MapsOK
<1>9. CASE UNCHANGED <<profiles, file>>
  BY <1>9 DEF TypeOK, MapsOK
<1> QED
  BY <1>1, <1>2, <1>3, <1>4, <1>5, <1>6, <1>7, <1>8, <1>9
  DEF Next, Step, vars, disk, ImportProfile, ApplyRestrictions, RemoveProfile, Launch,
      ChangeRestrictions, OnStartCommand, GetProfile, SaveProfileList, WriteList, StartService

LEMMA ListsStep ==
  ASSUME TypeOK, Working, [Next]_vars
  PROVE  ListsOK'
<1>1. ASSUME NEW t \in Threads, SaveProfile(t) PROVE ListsOK'
  BY <1>1, OpenTypes DEF SaveProfile, Working, TypeOK, ListsOK, prefs
<1>2. ASSUME NEW t \in Threads, UpdateLRU(t) PROVE ListsOK'
  <2>1. CASE Open(t)
    BY <1>2, <2>1, OpenTypes DEF UpdateLRU, Working, TypeOK, ListsOK, prefs
  <2>2. CASE UNCHANGED <<file, mixed>>
    BY <1>2, <2>2 DEF UpdateLRU, TypeOK, ListsOK, prefs
  <2> QED
    BY <1>2, <2>1, <2>2 DEF UpdateLRU
<1>3. ASSUME NEW t \in Threads, SaveProfileList(t) PROVE ListsOK'
  BY <1>3 DEF SaveProfileList, TypeOK, ListsOK, disk
<1>4. ASSUME NEW m \in Process, WriteList(m) PROVE ListsOK'
  BY <1>4 DEF WriteList, TypeOK, ListsOK
<1>5. CASE UNCHANGED <<prefs, listOnDisk, mixed>>
  BY <1>5 DEF TypeOK, ListsOK, prefs
<1> QED
  BY <1>1, <1>2, <1>3, <1>4, <1>5
  DEF Next, Step, vars, disk, ImportProfile, ApplyRestrictions, RemoveProfile, Launch,
      ChangeRestrictions, OnStartCommand, LoadVPNList, LoadProfile, GetProfile, AddProfile,
      WriteObject, RemoveFromMap, DeleteFile, StartService

LEMMA CountsStep ==
  ASSUME TypeOK, Working, [Next]_vars
  PROVE  CountsOK'
<1>1. ASSUME Count PROVE ops' \in 0..MaxOps
  BY <1>1, ProfileAssumption DEF ProfileAssumption, Count, TypeOK, CountsOK
<1>2. ASSUME NEW t \in Threads, NEW p \in Profiles, ImportProfile(t, p) PROVE CountsOK'
  BY <1>1, <1>2 DEF ImportProfile, TypeOK, CountsOK
<1>3. ASSUME NEW t \in Threads, NEW p \in Profiles,
             ApplyRestrictions(t, p) \/ RemoveProfile(t, p) \/ Launch(t, p)
      PROVE  CountsOK'
  BY <1>1, <1>3 DEF ApplyRestrictions, RemoveProfile, Launch, TypeOK, CountsOK
<1>4. CASE ChangeRestrictions
  BY <1>1, <1>4 DEF ChangeRestrictions, TypeOK, CountsOK
<1>5. ASSUME NEW t \in Threads, RemoveFromMap(t) PROVE CountsOK'
  BY <1>5 DEF RemoveFromMap, Working, TypeOK, CountsOK
<1>6. CASE UNCHANGED count
  BY <1>6 DEF count, TypeOK, CountsOK
<1> QED
  BY <1>2, <1>3, <1>4, <1>5, <1>6
  DEF Next, Step, vars, OnStartCommand, LoadVPNList, LoadProfile, GetProfile, AddProfile,
      SaveProfile, WriteObject, SaveProfileList, WriteList, DeleteFile, UpdateLRU, StartService

LEMMA BeginTypes ==
  ASSUME TypeOK, NEW t \in Threads, NEW p \in Profiles, NEW label \in Label, NEW what \in Job,
         Begin(t, p, label, what)
  PROVE  StepsOK'
BY DEF Begin, Goto, TypeOK, StepsOK

LEMMA GetTypes ==
  ASSUME TypeOK, NEW t \in Threads, NEW p \in Profiles, NEW v \in Nat, NEW what \in Job,
         Get(t, p, v, what)
  PROVE  /\ StepsOK'
         /\ version' \in [Threads -> Nat] /\ tried' \in [Threads -> 0..MaxTries]
<1>1. Begin(t, p, "get", what) /\ "get" \in Label
  BY DEF Get, Label
<1>2. StepsOK'
  BY <1>1, BeginTypes
<1>3. version' \in [Threads -> Nat] /\ tried' \in [Threads -> 0..MaxTries]
  BY ProfileAssumption DEF ProfileAssumption, Get, TypeOK, LookupsOK
<1> QED
  BY <1>2, <1>3

LEMMA StartFacts ==
  ASSUME TypeOK, starts # <<>>
  PROVE  /\ Head(starts) \in Start /\ Tail(starts) \in Seq(Start)
         /\ Head(starts).uuid \in Profiles /\ Head(starts).vp.version \in Nat
<1>1. Head(starts) \in Start /\ Tail(starts) \in Seq(Start)
  BY HeadTailProperties DEF TypeOK, StartsOK
<1>2. Head(starts).uuid \in Profiles /\ Head(starts).vp \in Profile
  BY <1>1 DEF Start
<1> QED
  BY <1>1, <1>2, ProfileFacts

LEMMA StepsStep ==
  ASSUME TypeOK, Working, [Next]_vars
  PROVE  StepsOK'
<1>1. ASSUME NEW t \in Threads, NEW p \in Profiles, ImportProfile(t, p) PROVE StepsOK'
  BY <1>1, BeginTypes DEF ImportProfile, Label, Job
<1>2. ASSUME NEW t \in Threads, NEW p \in Profiles, ApplyRestrictions(t, p) PROVE StepsOK'
  BY <1>2, GetTypes DEF ApplyRestrictions, Job
<1>3. ASSUME NEW t \in Threads, NEW p \in Profiles, RemoveProfile(t, p) PROVE StepsOK'
  BY <1>3, BeginTypes, GetTypes DEF RemoveProfile, Label, Job
<1>4. ASSUME NEW t \in Threads, NEW p \in Profiles, Launch(t, p) PROVE StepsOK'
  BY <1>4, GetTypes DEF Launch, Job
<1>5. CASE OnStartCommand
  BY <1>5, GetTypes, StartFacts, ThreadFacts DEF OnStartCommand, Job
<1>6. ASSUME NEW t \in Threads, NEW label \in Label, Goto(t, label), UNCHANGED <<job, uuid>>
      PROVE  StepsOK'
  BY <1>6 DEF Goto, TypeOK, StepsOK
<1>7. ASSUME NEW t \in Threads, GetProfile(t) PROVE StepsOK'
  <2>1. PICK label : Goto(t, label) /\ label \in Label
    BY <1>7 DEF GetProfile, Label
  <2> QED
    BY <1>6, <1>7, <2>1 DEF GetProfile
<1>8. ASSUME NEW t \in Threads,
             \/ LoadVPNList(t) \/ AddProfile(t) \/ SaveProfile(t) \/ WriteObject(t)
             \/ SaveProfileList(t) \/ RemoveFromMap(t) \/ DeleteFile(t) \/ StartService(t)
      PROVE  StepsOK'
  BY <1>6, <1>8 DEF LoadVPNList, AddProfile, SaveProfile, WriteObject, SaveProfileList,
                    RemoveFromMap, DeleteFile, StartService, Label
<1>9. ASSUME NEW t \in Threads, LoadProfile(t) \/ UpdateLRU(t) PROVE StepsOK'
  <2>1. CASE UNCHANGED pc
    BY <1>9, <2>1 DEF LoadProfile, UpdateLRU, TypeOK, StepsOK
  <2>2. CASE Goto(t, "get") \/ Goto(t, "writeLRU") \/ Goto(t, "start")
    BY <1>6, <1>9, <2>2 DEF LoadProfile, UpdateLRU, Label
  <2> QED
    BY <1>9, <2>1, <2>2 DEF LoadProfile, UpdateLRU
<1>10. CASE UNCHANGED <<pc, job, uuid>>
  BY <1>10 DEF TypeOK, StepsOK
<1> QED
  BY <1>1, <1>2, <1>3, <1>4, <1>5, <1>7, <1>8, <1>9, <1>10
  DEF Next, Step, vars, thread, ChangeRestrictions, WriteList

LEMMA ObjectsStep ==
  ASSUME TypeOK, Working, [Next]_vars
  PROVE  ObjectsOK'
<1>1. ASSUME NEW t \in Threads, NEW p \in Profiles, ImportProfile(t, p) PROVE ObjectsOK'
  <2>1. [version |-> 0, config |-> 0, password |-> FALSE] \in Profile
    BY DEF Profile
  <2> QED
    BY <1>1, <2>1 DEF ImportProfile, TypeOK, ObjectsOK
<1>2. ASSUME NEW t \in Threads, LoadVPNList(t) PROVE ObjectsOK'
  BY <1>2 DEF LoadVPNList, TypeOK, ObjectsOK
<1>3. ASSUME NEW t \in Threads, GetProfile(t) PROVE ObjectsOK'
  <2>1. Entry(t) \in Profile \cup {None}
    BY <1>3, ThreadFacts DEF GetProfile, Working, Entry, TypeOK, MapsOK
  <2>2. CASE job[t] = "apply"
    <3> DEFINE new == [version |-> IF Entry(t) = None THEN 0 ELSE Entry(t).version + 1,
                       config |-> policy, password |-> FALSE]
    <3>1. new \in Profile
      BY <2>1, ProfileFacts DEF Profile, TypeOK, CountsOK
    <3>2. UNCHANGED shared
      BY <1>3, <2>2 DEF GetProfile
    <3>3. CASE UNCHANGED <<vp, late>>
      BY <3>2, <3>3 DEF TypeOK, ObjectsOK
    <3>4. CASE late' = [late EXCEPT ![t] = FALSE] /\ vp' = [vp EXCEPT ![t] = new]
      <4> HIDE DEF new
      <4> QED
        BY <3>1, <3>2, <3>4 DEF TypeOK, ObjectsOK
    <3> QED
      BY <1>3, <2>2, <3>3, <3>4 DEF GetProfile
  <2>3. CASE UNCHANGED object
    BY <2>3 DEF object, TypeOK, ObjectsOK
  <2>4. CASE /\ vp' = [vp EXCEPT ![t] = Entry(t)]
             /\ shared' = [shared EXCEPT ![t] = Entry(t) # None]
             /\ UNCHANGED late
    BY <2>1, <2>4 DEF TypeOK, ObjectsOK
  <2> QED
    BY <1>3, <2>2, <2>3, <2>4 DEF GetProfile
<1>4. ASSUME NEW t \in Threads, AddProfile(t) PROVE ObjectsOK'
  BY <1>4 DEF AddProfile, Unshare, TypeOK, ObjectsOK
<1>5. ASSUME NEW t \in Threads, SaveProfile(t) PROVE ObjectsOK'
  <2>1. uuid[t] \in Profiles /\ vp[t] \in Profile
    BY <1>5 DEF SaveProfile, Working
  <2> QED
    BY <1>5, <2>1, ProfileFacts, ChangeTypes DEF SaveProfile, TypeOK, ObjectsOK
<1>6. ASSUME NEW t \in Threads, RemoveFromMap(t) PROVE ObjectsOK'
  BY <1>6 DEF RemoveFromMap, Unshare, TypeOK, ObjectsOK
<1>7. ASSUME NEW t \in Threads, UpdateLRU(t) PROVE ObjectsOK'
  <2>1. uuid[t] \in Profiles /\ vp[t] \in Profile
    BY <1>7 DEF UpdateLRU, Working
  <2>2. vp' \in [Threads -> Profile \cup {None}]
    BY <1>7, <2>1, ProfileFacts, ChangeTypes DEF UpdateLRU, AskForPW, TypeOK, ObjectsOK
  <2> QED
    BY <1>7, <2>2 DEF UpdateLRU, TypeOK, ObjectsOK
<1>8. CASE UNCHANGED object
  BY <1>8 DEF object, TypeOK, ObjectsOK
<1> QED
  BY <1>1, <1>2, <1>3, <1>4, <1>5, <1>6, <1>7, <1>8
  DEF Next, Step, vars, thread, ApplyRestrictions, RemoveProfile, Launch, ChangeRestrictions,
      OnStartCommand, LoadProfile, WriteObject, SaveProfileList, WriteList, DeleteFile,
      StartService

LEMMA LookupsStep ==
  ASSUME TypeOK, Working, [Next]_vars
  PROVE  LookupsOK'
<1>1. ASSUME NEW t \in Threads, NEW p \in Profiles, NEW v \in Nat, NEW what \in Job,
             Get(t, p, v, what), UNCHANGED vlist
      PROVE  LookupsOK'
  BY <1>1, GetTypes DEF TypeOK, LookupsOK
<1>2. ASSUME NEW t \in Threads, NEW p \in Profiles, ApplyRestrictions(t, p) \/ Launch(t, p)
      PROVE  LookupsOK'
  BY <1>1, <1>2 DEF ApplyRestrictions, Launch, Job
<1>3. ASSUME NEW t \in Threads, NEW p \in Profiles, RemoveProfile(t, p) PROVE LookupsOK'
  <2>1. CASE Get(t, p, 0, "remove")
    BY <1>1, <1>3, <2>1 DEF RemoveProfile, Job
  <2>2. CASE UNCHANGED <<version, tried>>
    BY <1>3, <2>2 DEF RemoveProfile, TypeOK, LookupsOK
  <2> QED
    BY <1>3, <2>1, <2>2 DEF RemoveProfile
<1>4. CASE OnStartCommand
  BY <1>1, <1>4, StartFacts, ThreadFacts DEF OnStartCommand, Job
<1>5. ASSUME NEW t \in Threads, LoadVPNList(t) PROVE LookupsOK'
  <2>1. Names(In(t)) \subseteq Profiles
    BY ThreadFacts DEF Names, TypeOK, ListsOK
  <2> QED
    BY <1>5, <2>1, ProfileAssumption
    DEF ProfileAssumption, LoadVPNList, TypeOK, LookupsOK
<1>6. ASSUME NEW t \in Threads, LoadProfile(t) PROVE LookupsOK'
  BY <1>6 DEF LoadProfile, TypeOK, LookupsOK
<1>7. CASE UNCHANGED lookup
  BY <1>7 DEF lookup, TypeOK, LookupsOK
<1> QED
  BY <1>2, <1>3, <1>4, <1>5, <1>6, <1>7
  DEF Next, Step, vars, thread, ImportProfile, ChangeRestrictions, GetProfile, AddProfile,
      SaveProfile, WriteObject, SaveProfileList, WriteList, RemoveFromMap, DeleteFile,
      UpdateLRU, StartService

LEMMA StartsStep ==
  ASSUME TypeOK, Working, [Next]_vars
  PROVE  StartsOK'
<1>1. ASSUME NEW t \in Threads, GetProfile(t) PROVE StartsOK'
  <2>1. CASE UNCHANGED starting
    BY <2>1 DEF starting, TypeOK, StartsOK
  <2>2. CASE job[t] = "start" /\ starts' = Tail(starts)
             /\ used' = [start |-> Head(starts), found |-> Entry(t)]
    <3>1. starts # <<>> /\ uuid[t] \in Profiles
      BY <1>1, <2>2 DEF GetProfile, Working
    <3>2. Entry(t) \in Profile \cup {None}
      BY <3>1, ThreadFacts DEF Entry, TypeOK, MapsOK
    <3> QED
      BY <2>2, <3>1, <3>2, StartFacts DEF StartsOK
  <2> QED
    BY <1>1, <2>1, <2>2 DEF GetProfile, starting
<1>2. ASSUME NEW t \in Threads, StartService(t) PROVE StartsOK'
  <2>1. [uuid |-> uuid[t], vp |-> vp[t]] \in Start
    BY <1>2 DEF StartService, Working, Start
  <2>2. starts' \in Seq(Start)
    BY <1>2, <2>1, AppendProperties DEF StartService, TypeOK, StartsOK
  <2> QED
    BY <1>2, <2>2 DEF StartService, TypeOK, StartsOK
<1>3. CASE UNCHANGED starting
  BY <1>3 DEF starting, TypeOK, StartsOK
<1> QED
  BY <1>1, <1>2, <1>3
  DEF Next, Step, vars, ImportProfile, ApplyRestrictions, RemoveProfile, Launch,
      ChangeRestrictions, OnStartCommand, LoadVPNList, LoadProfile, AddProfile, SaveProfile,
      WriteObject, SaveProfileList, WriteList, RemoveFromMap, DeleteFile, UpdateLRU

LEMMA TypeStep ==
  ASSUME TypeOK, Working, [Next]_vars
  PROVE  TypeOK'
BY MapsStep, ListsStep, CountsStep, StepsStep, ObjectsStep, LookupsStep, StartsStep DEF TypeOK

-------------------------------------------------------------------------------
(* A step of a thread changes what that thread does, and no other's.       *)
LEMMA BeginMoves ==
  ASSUME TypeOK, NEW t \in Threads, NEW p, NEW label, NEW what, Begin(t, p, label, what)
  PROVE  /\ pc[t] = "idle"
         /\ pc'[t] = label /\ uuid'[t] = p /\ job'[t] = what
         /\ \A u \in Threads \ {t} : pc'[u] = pc[u] /\ uuid'[u] = uuid[u] /\ job'[u] = job[u]
BY DEF Begin, Goto, TypeOK, StepsOK

LEMMA GotoMoves ==
  ASSUME TypeOK, NEW t \in Threads, NEW label, Goto(t, label)
  PROVE  /\ pc'[t] = label
         /\ \A u \in Threads \ {t} : pc'[u] = pc[u]
BY DEF Goto, TypeOK, StepsOK

LEMMA VpMoves ==
  ASSUME TypeOK, NEW t \in Threads, NEW new, vp' = [vp EXCEPT ![t] = new]
  PROVE  vp'[t] = new /\ \A u \in Threads \ {t} : vp'[u] = vp[u]
BY DEF TypeOK, ObjectsOK

LEMMA WorkingStep ==
  ASSUME TypeOK, Working, [Next]_vars
  PROVE  Working'
<1>1. ASSUME NEW t \in Threads, NEW p \in Profiles, ImportProfile(t, p) PROVE Working'
  <2> DEFINE new == [version |-> 0, config |-> 0, password |-> FALSE]
  <2>1. new \in Profile
    BY DEF Profile
  <2>2. vp' = [vp EXCEPT ![t] = new]
    BY <1>1 DEF ImportProfile
  <2> HIDE DEF new
  <2>3. vp'[t] \in Profile /\ \A u \in Threads \ {t} : vp'[u] = vp[u]
    BY <2>1, <2>2, VpMoves
  <2>4. Begin(t, p, "add", "import") /\ t \notin Io /\ UNCHANGED <<starts, removed>>
    BY <1>1, ThreadFacts DEF ImportProfile, starting
  <2> QED
    BY <2>3, <2>4, BeginMoves DEF Working
<1>2. ASSUME NEW t \in Threads, NEW p \in Profiles, NEW label, NEW what,
             Begin(t, p, label, what), UNCHANGED <<vp, starts, removed>>,
             \/ label = "get" /\ what = "apply" /\ t \notin Io /\ p \in Managed
             \/ label = "get" /\ what = "start" /\ t = "service" /\ starts # <<>>
             \/ label = "get" /\ what \notin {"apply", "start"}
             \/ label = "remove"
      PROVE  Working'
  BY <1>2, BeginMoves DEF Working
<1>3. ASSUME NEW t \in Threads, NEW p \in Profiles,
             ApplyRestrictions(t, p) \/ RemoveProfile(t, p) \/ Launch(t, p)
      PROVE  Working'
  <2>1. UNCHANGED <<vp, starts, removed>>
    BY <1>3 DEF ApplyRestrictions, RemoveProfile, Launch, object, starting
  <2>2. CASE ApplyRestrictions(t, p)
    <3>1. "main" \notin Io /\ "service" \notin Io
      BY ProfileAssumption DEF ProfileAssumption, App, Service
    <3> QED
      BY <1>2, <2>1, <2>2, <3>1 DEF ApplyRestrictions, Get
  <2>3. CASE RemoveProfile(t, p)
    BY <1>2, <2>1, <2>3 DEF RemoveProfile, Get
  <2>4. CASE Launch(t, p)
    BY <1>2, <2>1, <2>4 DEF Launch, Get
  <2> QED
    BY <1>3, <2>2, <2>3, <2>4
<1>4. CASE OnStartCommand
  BY <1>2, <1>4, StartFacts, ThreadFacts DEF OnStartCommand, Get, object, starting, count
<1>5. ASSUME NEW t \in Threads, LoadVPNList(t) PROVE Working'
  BY <1>5, GotoMoves DEF LoadVPNList, Working, count, starting
<1>6. ASSUME NEW t \in Threads, LoadProfile(t) PROVE Working'
  <2>1. CASE UNCHANGED pc
    BY <1>6, <2>1 DEF LoadProfile, Working, count, object, starting
  <2>2. CASE Goto(t, "get")
    BY <1>6, <2>2, GotoMoves DEF LoadProfile, Working, count, object, starting
  <2> QED
    BY <1>6, <2>1, <2>2 DEF LoadProfile
<1>7. ASSUME NEW t \in Threads, GetProfile(t) PROVE Working'
  <2>1. /\ pc[t] = "get" /\ uuid[t] \in Profiles
        /\ UNCHANGED <<job, uuid, removed>>
    BY <1>7 DEF GetProfile, Working, count
  <2>2. Entry(t) \in Profile \cup {None}
    BY <2>1, ThreadFacts DEF Entry, TypeOK, MapsOK
  <2>3. CASE job[t] = "apply"
    <3> DEFINE new == [version |-> IF Entry(t) = None THEN 0 ELSE Entry(t).version + 1,
                       config |-> policy, password |-> FALSE]
    <3>1. new \in Profile
      BY <2>2, ProfileFacts DEF Profile, TypeOK, CountsOK
    <3>2. UNCHANGED starts /\ t \notin Io
      BY <1>7, <2>3 DEF GetProfile, starting, Working
    <3>3. CASE Goto(t, "idle") /\ UNCHANGED vp
      BY <2>1, <3>2, <3>3, GotoMoves DEF Working
    <3>4. CASE Goto(t, "add") /\ vp' = [vp EXCEPT ![t] = new]
      <4> HIDE DEF new
      <4>1. vp'[t] \in Profile /\ \A u \in Threads \ {t} : vp'[u] = vp[u]
        BY <3>1, <3>4, VpMoves
      <4>2. pc'[t] = "add" /\ \A u \in Threads \ {t} : pc'[u] = pc[u]
        BY <3>4, GotoMoves
      <4> QED
        BY <2>1, <3>2, <4>1, <4>2 DEF Working
    <3> QED
      BY <1>7, <2>3, <3>3, <3>4 DEF GetProfile
  <2>4. CASE job[t] = "start"
    <3>1. Goto(t, "idle") /\ UNCHANGED vp
      BY <1>7, <2>4 DEF GetProfile, object
    <3>2. \A u \in Threads \ {t} : ~(pc[u] \in {"get", "load"} /\ job[u] = "start")
      BY <2>1, <2>4 DEF Working
    <3> QED
      BY <2>1, <3>1, <3>2, GotoMoves DEF Working
  <2>5. CASE job[t] \in {"launch", "connect", "remove"}
    <3>1. UNCHANGED starts /\ vp' = [vp EXCEPT ![t] = Entry(t)]
      BY <1>7, <2>5 DEF GetProfile, starting
    <3>2. PICK label : /\ Goto(t, label)
                       /\ label \in {"idle", "remove", "selected", "start"}
                       /\ label # "idle" => Entry(t) # None
                       /\ label = "selected" => t = "main"
      BY <1>7, <2>5 DEF GetProfile
    <3>3. vp'[t] = Entry(t) /\ \A u \in Threads \ {t} : vp'[u] = vp[u]
      BY <3>1, VpMoves
    <3>4. pc'[t] = label /\ \A u \in Threads \ {t} : pc'[u] = pc[u]
      BY <3>2, GotoMoves
    <3>5. label # "idle" => vp'[t] \in Profile
      BY <2>2, <3>2, <3>3
    <3> QED
      BY <2>1, <3>1, <3>2, <3>3, <3>4, <3>5 DEF Working
  <2> QED
    BY <1>7, <2>3, <2>4, <2>5 DEF GetProfile
<1>8. ASSUME NEW t \in Threads, AddProfile(t) \/ WriteObject(t) \/ SaveProfileList(t)
      PROVE  Working'
  BY <1>8, GotoMoves
  DEF AddProfile, WriteObject, SaveProfileList, Working, object, count, starting
<1>9. ASSUME NEW t \in Threads, SaveProfile(t) PROVE Working'
  <2>1. vp[t] \in Profile /\ uuid[t] \in Profiles
    BY <1>9 DEF SaveProfile, Working
  <2>2. vp'[t] \in Profile /\ \A u \in Threads \ {t} : vp'[u] = vp[u]
    BY <1>9, <2>1, ProfileFacts, VpMoves DEF SaveProfile, Change
  <2> QED
    BY <1>9, <2>2, GotoMoves DEF SaveProfile, Working, count, starting
<1>10. ASSUME NEW t \in Threads, RemoveFromMap(t) PROVE Working'
  BY <1>10, GotoMoves DEF RemoveFromMap, Working, starting
<1>11. ASSUME NEW t \in Threads, DeleteFile(t) PROVE Working'
  BY <1>11, GotoMoves DEF DeleteFile, Working, object, count, starting
<1>12. ASSUME NEW t \in Threads, UpdateLRU(t) PROVE Working'
  <2>1. vp[t] \in Profile /\ uuid[t] \in Profiles /\ t = "main"
    BY <1>12 DEF UpdateLRU, Working
  <2>2. vp'[t] \in Profile /\ \A u \in Threads \ {t} : vp'[u] = vp[u]
    <3>1. CASE UNCHANGED vp
      BY <2>1, <3>1
    <3>2. CASE vp' = [vp EXCEPT ![t] = [vp[t] EXCEPT !.password = TRUE]]
      BY <2>1, <3>2, ProfileFacts, VpMoves
    <3> QED
      BY <1>12, <3>1, <3>2 DEF UpdateLRU, AskForPW, Change
  <2>3. Goto(t, "writeLRU") \/ Goto(t, "start")
    BY <1>12 DEF UpdateLRU
  <2> QED
    BY <1>12, <2>1, <2>2, <2>3, GotoMoves DEF UpdateLRU, Working, count, starting
<1>13. ASSUME NEW t \in Threads, StartService(t) PROVE Working'
  <2>1. starts' # <<>>
    BY <1>13, AppendProperties DEF StartService, TypeOK, StartsOK, Working, Start
  <2> QED
    BY <1>13, <2>1, GotoMoves DEF StartService, Working, object, count
<1>14. CASE UNCHANGED <<thread, starts, removed>>
  BY <1>14 DEF thread, object, Working
<1> QED
  BY <1>1, <1>3, <1>4, <1>5, <1>6, <1>7, <1>8, <1>9, <1>10, <1>11, <1>12, <1>13, <1>14
  DEF Next, Step, vars, count, starting, ChangeRestrictions, WriteList

-------------------------------------------------------------------------------
(* What a step can bring about: a file changes by four actions, a name     *)
(* comes into a map by two and into a list from the map, a profile comes   *)
(* into a thread's hands by an import or a look-up.                        *)
LEMMA FileSteps ==
  ASSUME [Next]_vars
  PROVE  \/ UNCHANGED <<file, mixed>>
         \/ \E t \in Threads : SaveProfile(t) \/ WriteObject(t) \/ DeleteFile(t) \/ UpdateLRU(t)
BY DEF Next, Step, vars, disk, ImportProfile, ApplyRestrictions, RemoveProfile, Launch,
       ChangeRestrictions, OnStartCommand, LoadVPNList, LoadProfile, GetProfile, AddProfile,
       SaveProfileList, WriteList, RemoveFromMap, StartService

LEMMA OpenMoves ==
  ASSUME TypeOK, NEW t \in Threads, uuid[t] \in Profiles, Open(t)
  PROVE  /\ file'[uuid[t]] = Torn
         /\ \A p \in Profiles \ {uuid[t]} : file'[p] = file[p] /\ (p \in mixed' <=> p \in mixed)
         /\ uuid[t] \in mixed' => \E u \in Threads : Writes(u, uuid[t])
BY DEF Open, TypeOK, MapsOK

LEMMA FileMoves ==
  ASSUME TypeOK, Working, [Next]_vars, NEW p \in Profiles \ removed
  PROVE  /\ file[p] # None => file'[p] # None
         /\ file'[p] # file[p] \/ ~(p \in mixed' <=> p \in mixed) =>
              \E t \in Threads : uuid[t] = p /\ (SaveProfile(t) \/ WriteObject(t) \/ UpdateLRU(t))
<1>1. CASE UNCHANGED <<file, mixed>>
  BY <1>1
<1>2. ASSUME NEW t \in Threads, SaveProfile(t) \/ (UpdateLRU(t) /\ Open(t)) PROVE
         /\ file[p] # None => file'[p] # None
         /\ file'[p] # file[p] \/ ~(p \in mixed' <=> p \in mixed) => uuid[t] = p
  BY <1>2, OpenMoves, ProfileFacts DEF SaveProfile, UpdateLRU, Working
<1>3. ASSUME NEW t \in Threads, WriteObject(t) PROVE
         /\ file[p] # None => file'[p] # None
         /\ file'[p] # file[p] \/ ~(p \in mixed' <=> p \in mixed) => uuid[t] = p
  BY <1>3, ProfileFacts DEF WriteObject, Working, TypeOK, MapsOK
<1>4. ASSUME NEW t \in Threads, DeleteFile(t)
      PROVE file'[p] = file[p] /\ (p \in mixed' <=> p \in mixed)
  BY <1>4 DEF DeleteFile, Working, TypeOK, MapsOK
<1>5. ASSUME NEW t \in Threads, UpdateLRU(t) PROVE Open(t) \/ UNCHANGED <<file, mixed>>
  BY <1>5 DEF UpdateLRU
<1> QED
  BY <1>1, <1>2, <1>3, <1>4, <1>5, FileSteps

LEMMA WriterStays ==
  ASSUME TypeOK, Working, [Next]_vars, NEW t \in Threads,
         pc[t] \in {"save", "write", "writeLRU"}, ~SaveProfile(t), ~WriteObject(t)
  PROVE  pc'[t] = pc[t] /\ uuid'[t] = uuid[t]
<1>1. ASSUME NEW u \in Threads, NEW p, NEW label, NEW what, Begin(u, p, label, what)
      PROVE  pc'[t] = pc[t] /\ uuid'[t] = uuid[t]
  BY <1>1, BeginMoves
<1>2. ASSUME NEW u \in Threads, NEW p \in Profiles,
             \/ ImportProfile(u, p) \/ ApplyRestrictions(u, p) \/ RemoveProfile(u, p)
             \/ Launch(u, p)
      PROVE  pc'[t] = pc[t] /\ uuid'[t] = uuid[t]
  BY <1>1, <1>2 DEF ImportProfile, ApplyRestrictions, RemoveProfile, Launch, Get
<1>3. CASE OnStartCommand
  BY <1>1, <1>3, ThreadFacts DEF OnStartCommand, Get
<1>4. ASSUME NEW u \in Threads, Step(u) PROVE pc'[t] = pc[t] /\ uuid'[t] = uuid[t]
  <2>1. u # t /\ UNCHANGED uuid
    BY <1>4 DEF Step, LoadVPNList, LoadProfile, GetProfile, AddProfile, SaveProfile,
      WriteObject, SaveProfileList, RemoveFromMap, DeleteFile, UpdateLRU, StartService
  <2>2. CASE UNCHANGED pc
    BY <2>1, <2>2
  <2>3. CASE \E label : Goto(u, label)
    BY <2>1, <2>3, GotoMoves
  <2> QED
    BY <1>4, <2>2, <2>3 DEF Step, LoadVPNList, LoadProfile, GetProfile, AddProfile, SaveProfile,
      WriteObject, SaveProfileList, RemoveFromMap, DeleteFile, UpdateLRU, StartService
<1>5. CASE UNCHANGED thread
  BY <1>5 DEF thread
<1> QED
  BY <1>2, <1>3, <1>4, <1>5 DEF Next, vars, ChangeRestrictions, WriteList

LEMMA PutMoves ==
  ASSUME TypeOK, NEW t \in Threads, NEW q \in Profiles, NEW new, Put(t, q, new),
         NEW m \in Process, NEW p \in Profiles, profiles'[m][p] # None
  PROVE  profiles[m][p] # None \/ (m = In(t) /\ p = q)
BY ThreadFacts DEF Put, TypeOK, MapsOK

LEMMA ChangeMoves ==
  ASSUME TypeOK, NEW t \in Threads, uuid[t] \in Profiles, NEW new, Change(t, new),
         NEW m \in Process, NEW p \in Profiles, profiles'[m][p] # None
  PROVE  profiles[m][p] # None \/ (m = In(t) /\ p = uuid[t] /\ shared[t])
BY ThreadFacts DEF Change, TypeOK, MapsOK

LEMMA SharedStep ==
  ASSUME TypeOK, Working, SharedIsThere, [Next]_vars
  PROVE  SharedIsThere'
<1> SUFFICES ASSUME NEW t \in Threads, pc'[t] \in {"save", "selected"}, shared'[t]
             PROVE  Entry(t)' # None
  BY DEF SharedIsThere
<1>1. ASSUME pc'[t] = pc[t], uuid'[t] = uuid[t], shared[t],
               \/ UNCHANGED profiles
               \/ \E u \in Threads \ {t}, new \in Profile : uuid[u] \in Profiles /\ Change(u, new)
               \/ \E u \in Threads \ {t}, p \in Profiles, new \in Profile : Put(u, p, new)
      PROVE  Entry(t)' # None
  <2>1. Entry(t) # None /\ uuid[t] \in Profiles
    BY <1>1 DEF SharedIsThere, Working
  <2>2. Entry(t)' = profiles'[In(t)][uuid[t]] /\ In(t) \in Process
    BY <1>1, ThreadFacts DEF Entry
  <2>3. ASSUME NEW u \in Threads, NEW new \in Profile, uuid[u] \in Profiles, Change(u, new)
        PROVE  profiles'[In(t)][uuid[t]] # None
    BY <2>1, <2>2, <2>3, ThreadFacts, ProfileFacts DEF Entry, Change, TypeOK, MapsOK
  <2>4. ASSUME NEW u \in Threads, NEW p \in Profiles, NEW new \in Profile, Put(u, p, new)
        PROVE  profiles'[In(t)][uuid[t]] # None
    BY <2>1, <2>2, <2>4, ThreadFacts, ProfileFacts DEF Entry, Put, TypeOK, MapsOK
  <2> QED
    BY <1>1, <2>1, <2>2, <2>3, <2>4 DEF Entry
<1>2. ASSUME NEW u \in Threads, NEW p \in Profiles, NEW label, NEW what,
             Begin(u, p, label, what), label \notin {"save", "selected"},
             UNCHANGED <<profiles, shared>>
      PROVE  Entry(t)' # None
  BY <1>1, <1>2, BeginMoves
<1>3. ASSUME NEW u \in Threads, NEW p \in Profiles,
             \/ ImportProfile(u, p) \/ ApplyRestrictions(u, p) \/ RemoveProfile(u, p)
             \/ Launch(u, p)
      PROVE  Entry(t)' # None
  BY <1>2, <1>3 DEF ImportProfile, ApplyRestrictions, RemoveProfile, Launch, Get, object
<1>4. CASE OnStartCommand
  BY <1>2, <1>4, StartFacts, ThreadFacts DEF OnStartCommand, Get, object
<1>5. ASSUME NEW u \in Threads, LoadVPNList(u) PROVE Entry(t)' # None
  <2>1. UNCHANGED uuid /\ In(t) # In(u) /\ shared[t]
    BY <1>5 DEF LoadVPNList, TypeOK, ObjectsOK
  <2>2. pc'[t] = pc[t] /\ Entry(t) # None
    BY <1>5, <2>1, GotoMoves DEF LoadVPNList, SharedIsThere
  <2> QED
    BY <1>5, <2>1, <2>2, ThreadFacts DEF LoadVPNList, Entry, TypeOK, MapsOK
<1>6. ASSUME NEW u \in Threads, LoadProfile(u) PROVE Entry(t)' # None
  <2>1. u # t /\ pc'[t] = pc[t] /\ UNCHANGED <<uuid, shared>>
    BY <1>6, GotoMoves DEF LoadProfile, object
  <2>2. CASE UNCHANGED profiles
    BY <1>1, <2>1, <2>2
  <2>3. ASSUME NEW p \in vlist[u], Readable(p), Put(u, p, file[p]) PROVE Entry(t)' # None
    <3>1. p \in Profiles /\ file[p] \in Profile
      BY <2>3 DEF TypeOK, MapsOK, LookupsOK, Readable
    <3> QED
      BY <1>1, <2>1, <2>3, <3>1
  <2> QED
    BY <1>6, <2>2, <2>3 DEF LoadProfile
<1>7. ASSUME NEW u \in Threads, GetProfile(u) PROVE Entry(t)' # None
  <2>1. CASE u = t
    <3>1. pc'[t] = "selected" /\ uuid'[t] = uuid[t] /\ UNCHANGED profiles
      BY <1>7, <2>1, GotoMoves DEF GetProfile
    <3>2. shared' = [shared EXCEPT ![t] = Entry(t) # None]
      BY <1>7, <2>1, <3>1, GotoMoves DEF GetProfile
    <3> QED
      BY <3>1, <3>2 DEF Entry, TypeOK, ObjectsOK
  <2>2. CASE u # t
    <3>1. pc'[t] = pc[t] /\ UNCHANGED <<uuid, profiles>>
      BY <1>7, <2>2, GotoMoves DEF GetProfile
    <3>2. shared'[t] = shared[t]
      BY <1>7, <2>2 DEF GetProfile, object, TypeOK, ObjectsOK
    <3> QED
      BY <1>1, <3>1, <3>2
  <2> QED
    BY <2>1, <2>2
<1>8. ASSUME NEW u \in Threads, AddProfile(u) PROVE Entry(t)' # None
  <2>1. uuid[u] \in Profiles /\ vp[u] \in Profile /\ UNCHANGED uuid
    BY <1>8 DEF AddProfile, Working
  <2>2. CASE u = t
    <3>1. ~late[t] /\ Entry(t)' = vp[t]
      BY <1>8, <2>1, <2>2 DEF AddProfile, Entry, TypeOK, ObjectsOK, Unshare
    <3> QED
      BY <2>1, <2>2, <3>1, ProfileFacts
  <2>3. CASE u # t
    <3>1. pc'[t] = pc[t] /\ shared[t]
      BY <1>8, <2>3, GotoMoves DEF AddProfile, TypeOK, ObjectsOK, Unshare
    <3> QED
      BY <1>1, <1>8, <2>1, <2>3, <3>1 DEF AddProfile
  <2> QED
    BY <2>2, <2>3
<1>9. ASSUME NEW u \in Threads, SaveProfile(u) \/ UpdateLRU(u) PROVE Entry(t)' # None
  <2>1. u # t /\ pc'[t] = pc[t] /\ UNCHANGED <<uuid, shared>>
    BY <1>9, GotoMoves DEF SaveProfile, UpdateLRU
  <2>2. uuid[u] \in Profiles /\ vp[u] \in Profile
    BY <1>9 DEF SaveProfile, UpdateLRU, Working
  <2> QED
    BY <1>1, <1>9, <2>1, <2>2, ProfileFacts DEF SaveProfile, UpdateLRU, AskForPW
<1>10. ASSUME NEW u \in Threads, RemoveFromMap(u) PROVE Entry(t)' # None
  <2>1. UNCHANGED uuid /\ pc'[t] = pc[t] /\ uuid[u] \in Profiles
    BY <1>10, GotoMoves DEF RemoveFromMap, Working
  <2>2. shared[t] /\ (In(t) # In(u) \/ uuid[t] # uuid[u])
    BY <1>10 DEF RemoveFromMap, Unshare
  <2>3. Entry(t) # None /\ uuid[t] \in Profiles
    BY <2>1, <2>2 DEF SharedIsThere, Working
  <2> QED
    BY <1>10, <2>1, <2>2, <2>3, ThreadFacts DEF RemoveFromMap, Entry, TypeOK, MapsOK
<1>11. ASSUME NEW u \in Threads,
              WriteObject(u) \/ SaveProfileList(u) \/ DeleteFile(u) \/ StartService(u)
       PROVE  Entry(t)' # None
  BY <1>1, <1>11, GotoMoves DEF WriteObject, SaveProfileList, DeleteFile, StartService, object
<1>12. CASE UNCHANGED <<thread, profiles>>
  BY <1>1, <1>12 DEF thread, object
<1> QED
  BY <1>3, <1>4, <1>5, <1>6, <1>7, <1>8, <1>9, <1>10, <1>11, <1>12
  DEF Next, Step, vars, ChangeRestrictions, WriteList

LEMMA MapComes ==
  ASSUME TypeOK, Working, SharedIsThere, [Next]_vars, NEW m \in Process, NEW p \in Profiles,
         profiles'[m][p] # None
  PROVE  \/ profiles[m][p] # None
         \/ \E t \in Threads : AddProfile(t) /\ uuid[t] = p /\ In(t) = m
         \/ Readable(p) /\ \E t \in Threads : LoadProfile(t) /\ In(t) = m
<1>1. ASSUME NEW t \in Threads, LoadVPNList(t) PROVE profiles[m][p] # None
  BY <1>1, ThreadFacts DEF LoadVPNList, TypeOK, MapsOK
<1>2. ASSUME NEW t \in Threads, LoadProfile(t) PROVE profiles[m][p] # None \/ (Readable(p) /\ In(t) = m)
  <2>1. CASE UNCHANGED profiles
    BY <2>1
  <2>2. ASSUME NEW q \in vlist[t], Readable(q), Put(t, q, file[q])
        PROVE  profiles[m][p] # None \/ (Readable(p) /\ In(t) = m)
    BY <2>2, PutMoves DEF TypeOK, LookupsOK
  <2> QED
    BY <1>2, <2>1, <2>2 DEF LoadProfile
<1>3. ASSUME NEW t \in Threads, AddProfile(t)
      PROVE  profiles[m][p] # None \/ (uuid[t] = p /\ In(t) = m)
  BY <1>3, PutMoves DEF AddProfile, Working
<1>4. ASSUME NEW t \in Threads, SaveProfile(t) \/ UpdateLRU(t) PROVE profiles[m][p] # None
  <2>1. uuid[t] \in Profiles /\ (shared[t] => Entry(t) # None)
    BY <1>4 DEF SaveProfile, UpdateLRU, Working, SharedIsThere
  <2>2. CASE UNCHANGED profiles
    BY <2>2
  <2>3. ASSUME NEW new, Change(t, new) PROVE profiles[m][p] # None
    BY <2>1, <2>3, ChangeMoves DEF Entry
  <2> QED
    BY <1>4, <2>2, <2>3 DEF SaveProfile, UpdateLRU, AskForPW
<1>5. ASSUME NEW t \in Threads, RemoveFromMap(t) PROVE profiles[m][p] # None
  BY <1>5, ThreadFacts DEF RemoveFromMap, Working, TypeOK, MapsOK
<1>6. CASE UNCHANGED profiles
  BY <1>6
<1> QED
  BY <1>1, <1>2, <1>3, <1>4, <1>5, <1>6
  DEF Next, Step, vars, ImportProfile, ApplyRestrictions, RemoveProfile, Launch,
      ChangeRestrictions, OnStartCommand, GetProfile, WriteObject, SaveProfileList,
      WriteList, DeleteFile, StartService

LEMMA ListComes ==
  ASSUME TypeOK, [Next]_vars, NEW p \in Profiles,
         p \in listOnDisk' \/ \E m \in Process : p \in list'[m]
  PROVE  Named(p)
<1>1. ASSUME NEW t \in Threads, SaveProfileList(t) PROVE Named(p)
  BY <1>1, ThreadFacts DEF SaveProfileList, TypeOK, ListsOK, disk, Named
<1>2. ASSUME NEW m \in Process, WriteList(m) PROVE Named(p)
  BY <1>2 DEF WriteList, Named
<1>3. CASE UNCHANGED <<listOnDisk, prefs>>
  BY <1>3 DEF prefs, Named
<1> QED
  BY <1>1, <1>2, <1>3
  DEF Next, Step, vars, disk, ImportProfile, ApplyRestrictions, RemoveProfile, Launch,
      ChangeRestrictions, OnStartCommand, LoadVPNList, LoadProfile, GetProfile, AddProfile,
      SaveProfile, WriteObject, RemoveFromMap, DeleteFile, UpdateLRU, StartService

LEMMA ImportsComes ==
  ASSUME TypeOK, Working, [Next]_vars, NEW t \in Threads, NEW p \in Own, Imports(t, p)'
  PROVE  Imports(t, p) \/ ImportProfile(t, p)
<1>1. ASSUME NEW u \in Threads, NEW q, NEW label, NEW what, Begin(u, q, label, what),
             label \notin {"add", "save", "write"}
      PROVE  Imports(t, p)
  BY <1>1, BeginMoves DEF Imports
<1>2. ASSUME NEW u \in Threads, NEW q \in Profiles, ImportProfile(u, q)
      PROVE  Imports(t, p) \/ ImportProfile(t, p)
  <2>1. Begin(u, q, "add", "import")
    BY <1>2 DEF ImportProfile
  <2>2. CASE u = t
    BY <1>2, <2>1, <2>2, BeginMoves DEF Imports
  <2>3. CASE u # t
    BY <2>1, <2>3, BeginMoves DEF Imports
  <2> QED
    BY <2>2, <2>3
<1>3. ASSUME NEW u \in Threads, NEW q \in Profiles,
             ApplyRestrictions(u, q) \/ RemoveProfile(u, q) \/ Launch(u, q)
      PROVE  Imports(t, p)
  BY <1>1, <1>3 DEF ApplyRestrictions, RemoveProfile, Launch, Get
<1>4. CASE OnStartCommand
  BY <1>1, <1>4, ThreadFacts DEF OnStartCommand, Get
<1>5. ASSUME NEW u \in Threads, GetProfile(u) PROVE Imports(t, p)
  <2>1. CASE job[u] = "apply"
    <3>1. uuid[u] \in Managed /\ UNCHANGED uuid
      BY <1>5, <2>1 DEF GetProfile, Working
    <3>2. uuid[u] # p
      BY <3>1, ProfileAssumption DEF ProfileAssumption
    <3> QED
      BY <1>5, <2>1, <3>1, <3>2, GotoMoves DEF GetProfile, Imports
  <2>2. CASE job[u] # "apply"
    <3>1. UNCHANGED uuid /\ \E label : Goto(u, label) /\ label \notin {"add", "save", "write"}
      BY <1>5, <2>2 DEF GetProfile
    <3> QED
      BY <3>1, GotoMoves DEF Imports
  <2> QED
    BY <2>1, <2>2
<1>6. ASSUME NEW u \in Threads, Step(u), ~GetProfile(u) PROVE Imports(t, p)
  <2>1. UNCHANGED uuid
    BY <1>6 DEF Step, LoadVPNList, LoadProfile, AddProfile, SaveProfile,
      WriteObject, SaveProfileList, RemoveFromMap, DeleteFile, UpdateLRU, StartService
  <2>2. CASE UNCHANGED pc
    BY <2>1, <2>2 DEF Imports
  <2>3. CASE AddProfile(u) \/ SaveProfile(u)
    BY <2>1, <2>3, GotoMoves DEF AddProfile, SaveProfile, Imports
  <2>4. ASSUME NEW label, Goto(u, label), label \notin {"add", "save", "write"}
        PROVE  Imports(t, p)
    BY <2>1, <2>4, GotoMoves DEF Imports
  <2> QED
    BY <1>6, <2>2, <2>3, <2>4 DEF Step, LoadVPNList, LoadProfile,
      WriteObject, SaveProfileList, RemoveFromMap, DeleteFile, UpdateLRU, StartService
<1>7. CASE UNCHANGED thread
  BY <1>7 DEF thread, Imports
<1> QED
  BY <1>2, <1>3, <1>4, <1>5, <1>6, <1>7 DEF Next, vars, ChangeRestrictions, WriteList

LEMMA RenewsComes ==
  ASSUME TypeOK, Working, [Next]_vars, NEW p \in Profiles, Renews(p)'
  PROVE  Renews(p) \/ (profiles["app"][p] # None /\ pc["main"] = "get")
<1>1. ASSUME NEW u \in Threads, NEW q, NEW label, NEW what, Begin(u, q, label, what),
             label \notin {"selected", "writeLRU"}
      PROVE  Renews(p)
  BY <1>1, BeginMoves, ThreadFacts DEF Renews
<1>2. ASSUME NEW u \in Threads, NEW q \in Profiles,
             \/ ImportProfile(u, q) \/ ApplyRestrictions(u, q) \/ RemoveProfile(u, q)
             \/ Launch(u, q)
      PROVE  Renews(p)
  BY <1>1, <1>2 DEF ImportProfile, ApplyRestrictions, RemoveProfile, Launch, Get
<1>3. CASE OnStartCommand
  BY <1>1, <1>3, ThreadFacts DEF OnStartCommand, Get
<1>4. ASSUME NEW u \in Threads, GetProfile(u)
      PROVE  Renews(p) \/ (profiles["app"][p] # None /\ pc["main"] = "get")
  <2>1. UNCHANGED uuid /\ \E label : Goto(u, label) /\ label # "writeLRU"
                                    /\ (label = "selected" => u = "main" /\ Entry(u) # None)
    BY <1>4 DEF GetProfile
  <2> QED
    BY <1>4, <2>1, GotoMoves, ThreadFacts DEF GetProfile, Renews, Entry
<1>5. ASSUME NEW u \in Threads, Step(u), ~GetProfile(u) PROVE Renews(p)
  <2>1. UNCHANGED uuid
    BY <1>5 DEF Step, LoadVPNList, LoadProfile, AddProfile, SaveProfile,
      WriteObject, SaveProfileList, RemoveFromMap, DeleteFile, UpdateLRU, StartService
  <2>2. CASE UNCHANGED pc
    BY <2>1, <2>2 DEF Renews
  <2>3. CASE UpdateLRU(u)
    BY <2>1, <2>3, GotoMoves, ThreadFacts DEF UpdateLRU, Renews
  <2>4. ASSUME NEW label, Goto(u, label), label \notin {"selected", "writeLRU"}
        PROVE  Renews(p)
    BY <2>1, <2>4, GotoMoves, ThreadFacts DEF Renews
  <2> QED
    BY <1>5, <2>2, <2>3, <2>4 DEF Step, LoadVPNList, LoadProfile, AddProfile, SaveProfile,
      WriteObject, SaveProfileList, RemoveFromMap, DeleteFile, StartService
<1>6. CASE UNCHANGED thread
  BY <1>6 DEF thread, Renews
<1> QED
  BY <1>2, <1>3, <1>4, <1>5, <1>6 DEF Next, vars, ChangeRestrictions, WriteList

-------------------------------------------------------------------------------
LEMMA CountsGrow ==
  ASSUME [Next]_vars
  PROVE  removed \subseteq removed' /\ imported \subseteq imported'
BY DEF Next, Step, vars, count, ImportProfile, ApplyRestrictions, RemoveProfile, Launch,
       ChangeRestrictions, OnStartCommand, LoadVPNList, LoadProfile, GetProfile, AddProfile,
       SaveProfile, WriteObject, SaveProfileList, WriteList, RemoveFromMap, DeleteFile,
       UpdateLRU, StartService

LEMMA NamedStep ==
  ASSUME TypeOK, Working, SharedIsThere, NamedHasFile, [Next]_vars
  PROVE  NamedHasFile'
<1> SUFFICES ASSUME NEW p \in Profiles \ removed', Named(p)' PROVE HasFile(p)'
  BY DEF NamedHasFile
<1>1. p \in Profiles \ removed
  BY CountsGrow
<1>2. ASSUME file[p] # None PROVE HasFile(p)'
  BY <1>1, <1>2, FileMoves DEF HasFile
<1>3. ASSUME NEW t \in Threads, uuid[t] = p, pc[t] = "save" PROVE HasFile(p)'
  <2>1. CASE SaveProfile(t)
    BY <1>1, <1>3, <2>1, OpenMoves, ProfileFacts DEF SaveProfile, HasFile
  <2>2. CASE ~SaveProfile(t)
    BY <1>3, <2>2, WriterStays DEF WriteObject, HasFile
  <2> QED
    BY <2>1, <2>2
<1>4. CASE Named(p)
  BY <1>1, <1>2, <1>3, <1>4 DEF NamedHasFile, HasFile
<1>5. ASSUME NEW t \in Threads, AddProfile(t), uuid[t] = p PROVE HasFile(p)'
  BY <1>5, GotoMoves DEF AddProfile, HasFile
<1>6. CASE Readable(p)
  BY <1>2, <1>6 DEF Readable
<1> QED
  BY <1>4, <1>5, <1>6, MapComes, ListComes DEF Named

LEMMA TornStep ==
  ASSUME TypeOK, Working, TornIsWritten, [Next]_vars
  PROVE  TornIsWritten'
<1> SUFFICES ASSUME NEW p \in Profiles, file'[p] = Torn
             PROVE  p \in mixed' \/ \E t \in Threads : Writes(t, p)'
  BY DEF TornIsWritten
<1> DEFINE Goal == p \in mixed' \/ \E t \in Threads : Writes(t, p)'
<1>1. ASSUME NEW t \in Threads, UNCHANGED uuid, uuid[t] = p, Goto(t, "write") \/ Goto(t, "writeLRU")
      PROVE  Goal
  BY <1>1, GotoMoves DEF Writes
<1>2. ASSUME NEW t \in Threads, WriteObject(t), uuid[t] = p PROVE p \in mixed'
  BY <1>2, ProfileFacts DEF WriteObject, Working, TypeOK, MapsOK
<1>3. CASE file[p] = Torn /\ (p \in mixed => p \in mixed')
  <2>1. ASSUME NEW t \in Threads, Writes(t, p), ~WriteObject(t) PROVE Goal
    BY <2>1, WriterStays DEF SaveProfile, Writes
  <2> QED
    BY <1>2, <1>3, <2>1 DEF TornIsWritten, Writes
<1>4. ASSUME NEW t \in Threads, SaveProfile(t) \/ UpdateLRU(t) PROVE Goal
  <2>1. uuid[t] \in Profiles /\ UNCHANGED uuid
    BY <1>4 DEF SaveProfile, UpdateLRU, Working
  <2>2. \/ Open(t) /\ (Goto(t, "write") \/ Goto(t, "writeLRU"))
        \/ UNCHANGED <<file, mixed>>
    BY <1>4 DEF SaveProfile, UpdateLRU
  <2> QED
    BY <1>1, <1>3, <2>1, <2>2, OpenMoves
<1>5. ASSUME NEW t \in Threads, WriteObject(t) PROVE Goal
  <2>1. UNCHANGED mixed /\ (uuid[t] # p => file'[p] = file[p])
    BY <1>5 DEF WriteObject, TypeOK, MapsOK
  <2> QED
    BY <1>2, <1>3, <1>5, <2>1
<1>6. ASSUME NEW t \in Threads, DeleteFile(t) PROVE Goal
  <2>1. UNCHANGED mixed /\ file'[p] = file[p]
    BY <1>6, ProfileFacts DEF DeleteFile, TypeOK, MapsOK
  <2> QED
    BY <1>3, <2>1
<1> QED
  BY <1>3, <1>4, <1>5, <1>6, FileSteps

LEMMA OwnStep ==
  ASSUME TypeOK, Working, SharedIsThere, OwnHasOneWriter, [Next]_vars
  PROVE  OwnHasOneWriter'
<1> SUFFICES ASSUME NEW p \in Own \ removed'
             PROVE  /\ p \notin mixed'
                    /\ p \notin imported' => New(p)'
                    /\ \A t \in Threads : Imports(t, p)' => ImportedAlone(t, p)'
  BY DEF OwnHasOneWriter
<1>1. p \in Own /\ p \in Profiles /\ p \notin removed
  BY CountsGrow, ThreadFacts
<1>2. /\ p \notin mixed
      /\ p \notin imported => New(p)
      /\ \A t \in Threads : Imports(t, p) => ImportedAlone(t, p)
  BY <1>1 DEF OwnHasOneWriter
<1>3. \A t \in Threads : SaveProfile(t) /\ uuid[t] = p =>
         ImportedAlone(t, p) /\ ~\E u \in Threads : Writes(u, p)
  BY <1>2 DEF SaveProfile, Imports, ImportedAlone, Writes, Working, Renews
<1>4. \A t \in Threads : UpdateLRU(t) /\ uuid[t] = p =>
         Renews(p) /\ ~\E u \in Threads : Writes(u, p)
  BY <1>2 DEF UpdateLRU, Imports, ImportedAlone, Writes, Working, Renews
<1>5. p \notin mixed'
  <2>1. ASSUME NEW t \in Threads, SaveProfile(t) \/ UpdateLRU(t), uuid[t] = p PROVE p \notin mixed'
    <3>1. Open(t) \/ UNCHANGED mixed
      BY <2>1 DEF SaveProfile, UpdateLRU
    <3> QED
      BY <1>1, <1>2, <1>3, <1>4, <2>1, <3>1, OpenMoves
  <2>2. ASSUME NEW t \in Threads, WriteObject(t) PROVE p \notin mixed'
    BY <1>2, <2>2 DEF WriteObject
  <2> QED
    BY <1>1, <1>2, <2>1, <2>2, FileMoves
<1>6. ASSUME p \notin imported' PROVE New(p)'
  <2>1. p \notin imported /\ New(p)
    BY <1>2, <1>6, CountsGrow
  <2>2. \A t \in Threads : ~Imports(t, p)
    BY <1>2, <2>1 DEF ImportedAlone
  <2>3. file'[p] = None
    <3>1. ASSUME NEW t \in Threads, uuid[t] = p, SaveProfile(t) \/ WriteObject(t) \/ UpdateLRU(t)
          PROVE  FALSE
      BY <1>3, <2>1, <2>2, <3>1
      DEF SaveProfile, WriteObject, UpdateLRU, Imports, New, Renews, Working
    <3> QED
      BY <1>1, <2>1, <3>1, FileMoves DEF New
  <2>4. ~Renews(p)'
    BY <1>1, <2>1, RenewsComes DEF New, Process
  <2>5. ASSUME NEW m \in Process PROVE profiles'[m][p] = None
    BY <1>1, <2>1, <2>2, MapComes DEF New, Readable, AddProfile, Imports
  <2> QED
    BY <2>3, <2>4, <2>5 DEF New
<1>7. ASSUME NEW t \in Threads, ImportProfile(t, p) PROVE ImportedAlone(t, p)'
  <2>1. p \notin imported /\ New(p) /\ \A u \in Threads : ~Imports(u, p)
    BY <1>2, <1>7 DEF ImportProfile, ImportedAlone
  <2>2. p \in imported' /\ ~Readable(p)' /\ \A m \in Process : profiles'[m][p] = None
    BY <1>7, <2>1 DEF ImportProfile, New, Readable, disk
  <2>3. ~Renews(p)'
    BY <1>1, <2>1, RenewsComes DEF New, Process
  <2>4. \A u \in Threads : Imports(u, p)' => u = t
    BY <1>1, <1>7, <2>1, BeginMoves DEF ImportProfile, Imports
  <2> QED
    BY <2>2, <2>3, <2>4 DEF ImportedAlone, Process
<1>8. ASSUME NEW t \in Threads, Imports(t, p)', Imports(t, p) PROVE ImportedAlone(t, p)'
  <2>1. ImportedAlone(t, p) /\ t \notin Io
    BY <1>2, <1>8 DEF Imports, Working
  <2>2. p \in imported'
    BY <2>1, CountsGrow DEF ImportedAlone
  <2>3. ~Readable(p)'
    <3>1. ASSUME NEW u \in Threads, uuid[u] = p, SaveProfile(u) PROVE file'[p] = Torn
      BY <1>1, <3>1, OpenMoves DEF SaveProfile
    <3>2. ASSUME NEW u \in Threads, uuid[u] = p, WriteObject(u) PROVE FALSE
      <4>1. CASE pc[u] = "writeLRU"
        BY <2>1, <3>2, <4>1 DEF Working, Renews, ImportedAlone
      <4>2. CASE pc[u] = "write"
        <5>1. u = t
          BY <2>1, <3>2, <4>2 DEF Imports, ImportedAlone
        <5> QED
          BY <1>8, <3>2, <4>2, <5>1, GotoMoves DEF WriteObject, Imports
      <4> QED
        BY <3>2, <4>1, <4>2 DEF WriteObject
    <3>3. ASSUME NEW u \in Threads, uuid[u] = p, UpdateLRU(u) PROVE FALSE
      BY <1>4, <2>1, <3>3 DEF ImportedAlone
    <3> QED
      BY <1>1, <2>1, <3>1, <3>2, <3>3, FileMoves DEF Readable, ImportedAlone
  <2>4. ~Renews(p)'
    BY <1>1, <1>8, <2>1, RenewsComes DEF ImportedAlone, Imports
  <2>5. t # "main" => profiles'["app"][p] = None
    <3>1. ASSUME NEW u \in Threads, AddProfile(u), uuid[u] = p PROVE u = t
      BY <2>1, <3>1 DEF AddProfile, Imports, ImportedAlone
    <3> QED
      BY <1>1, <2>1, <3>1, MapComes, ThreadFacts DEF ImportedAlone, Process
  <2>6. \A u \in Threads : Imports(u, p)' => u = t
    BY <1>1, <2>1, ImportsComes DEF ImportedAlone, ImportProfile
  <2> QED
    BY <2>2, <2>3, <2>4, <2>5, <2>6 DEF ImportedAlone
<1> QED
  BY <1>1, <1>5, <1>6, <1>7, <1>8, ImportsComes

LEMMA Inductive == IInv /\ [Next]_vars => IInv'
BY TypeStep, WorkingStep, SharedStep, NamedStep, TornStep, OwnStep DEF IInv

LEMMA Invariance == Spec => []IInv
<1>1. Init => IInv
  BY InitInv
<1>2. IInv /\ [Next]_vars => IInv'
  BY Inductive
<1> QED
  BY <1>1, <1>2, PTL DEF Spec

(* No map holds a file that was read half (loadVPNList's catch), with any  *)
(* number of threads of both processes at work.                            *)
THEOREM StoreTypes == Spec => []TypeOK
<1>1. IInv => TypeOK
  BY DEF IInv
<1> QED
  BY <1>1, Invariance, PTL

(* Whatever the threads of the two processes add, load, save and remove    *)
(* without a lock: at rest a profile that a map or a list still names can  *)
(* be loaded, if nobody removed it and no two threads wrote it at a time;  *)
(* and no two do, for a profile with a name of its own (saveProfile,       *)
(* saveProfileList, removeProfile, loadVPNList).                           *)
THEOREM StoreIsAlwaysReadable == Spec => []StoreIsReadable
<1>1. IInv => StoreIsReadable
  <2> SUFFICES ASSUME IInv PROVE StoreIsReadable
    OBVIOUS
  <2>1. mixed \cap Own \subseteq removed
    BY DEF IInv, OwnHasOneWriter
  <2>2. ASSUME AtRest, NEW p \in Profiles \ (removed \cup mixed), Named(p) PROVE Readable(p)
    <3>1. file[p] # None
      BY <2>2 DEF IInv, NamedHasFile, HasFile, AtRest
    <3>2. file[p] # Torn
      BY <2>2 DEF IInv, TornIsWritten, Writes, AtRest
    <3> QED
      BY <3>1, <3>2 DEF Readable
  <2>3. ASSUME NEW p \in Profiles, NEW m \in Process, profiles[m][p] # None \/ p \in Names(m)
        PROVE  Named(p)
    BY <2>3 DEF Names, Named
  <2> QED
    BY <2>1, <2>2, <2>3 DEF StoreIsReadable
<1> QED
  BY <1>1, Invariance, PTL
===============================================================================
