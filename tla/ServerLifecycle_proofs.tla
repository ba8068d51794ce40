----------------------- MODULE ServerLifecycle_proofs -----------------------
(***************************************************************************)
(* Proofs about ServerLifecycle, for any hosts and Bluetooth devices, any  *)
(* configuration, and any bounds on scans, jobs, requests and quits: the   *)
(* list of the server follows its device handlers, a connection of the     *)
(* Bluetooth profile reaches the device listed under its address, and the  *)
(* program ends in order.                                                  *)
(***************************************************************************)
EXTENDS ServerLifecycle, FiniteSetTheorems, SequenceTheorems, TLAPS

LEMMA BoundsAreNat ==
    /\ MaxObjects \in Nat \ {0} /\ MaxScans \in Nat /\ MaxJobs \in Nat
    /\ MaxRequests \in Nat /\ MaxHostChanges \in Nat /\ MaxBluezChanges \in Nat
    /\ MaxQuits \in Nat
  BY LifecycleAssumption

\* Every device belongs to one handler, and None is nothing else.
LEMMA KeysApart ==
    /\ \A m \in Macs : m \in Keys /\ m \notin Addresses /\ HandlerOf(m) = "tcp"
    /\ \A a \in Addresses : a \in Keys /\ a \notin Macs /\ HandlerOf(a) = "bt"
    /\ \A k \in Keys : HandlerOf(k) = "bt" <=> k \in Addresses
    /\ None \notin Devices /\ None \notin Jobs
  BY LifecycleAssumption, NoneAssumption DEF Keys, HandlerOf

-----------------------------------------------------------------------------
(***************************************************************************)
(* Sequences.                                                              *)
(***************************************************************************)
\* The elements of a finite set, one after the other.
LEMMA SetToSeqType ==
    ASSUME NEW S, IsFiniteSet(S)
    PROVE  SetToSeq(S) \in Seq(S)
  <1> DEFINE n == Cardinality(S)
  <1>1. n \in Nat /\ \E f \in [1 .. n -> S] : IsInjective(f)
    BY FS_CardinalityType DEF ExistsBijection, Bijection, Injection
  <1>2. SetToSeq(S) \in [1 .. n -> S]
    BY <1>1 DEF SetToSeq
  <1> QED
    BY <1>1, <1>2, SeqDef

\* What a scan has to tell the handler is one job for each host.
LEMMA ScanJobs ==
    ASSUME NEW M \in SUBSET Macs
    PROVE  /\ SetToSeq({RemoveJob(m) : m \in M}) \in Seq({RemoveJob(m) : m \in M})
           /\ SetToSeq({AddJob(m, FALSE) : m \in M}) \in Seq({AddJob(m, FALSE) : m \in M})
  <1>1. IsFiniteSet(M)
    BY LifecycleAssumption, FS_Subset
  <1>2. IsFiniteSet({RemoveJob(m) : m \in M})
    <2> DEFINE T == {RemoveJob(m) : m \in M}
               f == [m \in M |-> RemoveJob(m)]
    <2>1. f \in Bijection(M, T)
      BY DEF Bijection, Injection, Surjection, IsInjective, RemoveJob
    <2> QED
      BY <1>1, <2>1, FS_Bijection DEF ExistsBijection
  <1>3. IsFiniteSet({AddJob(m, FALSE) : m \in M})
    <2> DEFINE T == {AddJob(m, FALSE) : m \in M}
               f == [m \in M |-> AddJob(m, FALSE)]
    <2>1. f \in Bijection(M, T)
      BY DEF Bijection, Injection, Surjection, IsInjective, AddJob
    <2> QED
      BY <1>1, <2>1, FS_Bijection DEF ExistsBijection
  <1> QED
    BY <1>2, <1>3, SetToSeqType

\* One scan of several is over.
LEMMA RemoveAtType ==
    ASSUME NEW S, NEW s \in Seq(S), NEW i \in DOMAIN s
    PROVE  RemoveAt(s, i) \in Seq(S)
  <1>1. i \in 1 .. Len(s) /\ Len(s) \in Nat
    BY LenProperties
  <1>2. \A j \in 1 .. Len(s) : s[j] \in S
    BY ElementOfSeq
  <1>3. SubSeq(s, 1, i - 1) \in Seq(S)
    BY <1>1, <1>2, SubSeqProperties
  <1>4. SubSeq(s, i + 1, Len(s)) \in Seq(S)
    BY <1>1, <1>2, SubSeqProperties
  <1> QED
    BY <1>3, <1>4, ConcatProperties DEF RemoveAt

-----------------------------------------------------------------------------
(***************************************************************************)
(* Type correctness: the life cycle, the jobs of the handlers, and the     *)
(* server's devices and requests.                                          *)
(***************************************************************************)
LifeType ==
    /\ configured \in Configurations /\ present \subseteq Keys
    /\ changes \in 0 .. MaxHostChanges + MaxBluezChanges
    /\ phase \in Phases /\ toList \subseteq Addresses
    /\ scanning \in BOOLEAN /\ registered \in BOOLEAN /\ listening \in BOOLEAN
    /\ quits \in 0 .. MaxQuits /\ exited \in BOOLEAN
    /\ lost \subseteq Addresses /\ hurried \in BOOLEAN /\ late \in BOOLEAN

JobType ==
    /\ scans \in Seq(SUBSET Macs)
    /\ jobs \in [Handlers -> Seq(Jobs)]
    /\ adding \in [Handlers -> Jobs \cup {None}]

DeviceType ==
    /\ deviceMap \in [Keys -> MaybeDevice]
    /\ profile \in [Addresses -> MaybeDevice]
    /\ requests \in Seq(Requests)
    /\ serving \in [dev : Devices, step : {"connect", "start"}] \cup {NotServing}
    /\ nameMap \in [Keys -> MaybeDevice] /\ connected \in MaybeDevice

Types == LifeType /\ JobType /\ DeviceType

\* What is asked for is a request.
LEMMA RequestType ==
    /\ \A op \in Ops, d \in Devices :
         /\ Request(op, d) \in Requests
         /\ Request(op, d).op = op /\ Request(op, d).dev = d
    /\ \A r \in Requests : r.op \in Ops /\ r.dev \in Devices
    /\ \A d \in Devices : d.key \in Keys
    /\ \A k \in Keys, n \in 1 .. MaxObjects : Device(k, n) \in Devices /\ Device(k, n).key = k
  BY DEF Request, Requests, Devices, Device

LEMMA JobTypes ==
    /\ \A k \in Keys, l \in BOOLEAN : AddJob(k, l) \in Jobs
    /\ \A k \in Keys : RemoveJob(k) \in Jobs
    /\ \A j \in Jobs : j.op \in {"add", "remove"} /\ j.key \in Keys /\ j.listed \in BOOLEAN
  BY DEF AddJob, RemoveJob, Jobs

LEMMA OneJob ==
    ASSUME NEW j \in Jobs
    PROVE  /\ <<j>> \in Seq(Jobs) /\ Len(<<j>>) = 1 /\ <<j>>[1] = j
           /\ \A i \in 1 .. Len(<<j>>) : <<j>>[i] = j
  OBVIOUS

\* A job that joins those of a handler ...
LEMMA BindType ==
    ASSUME JobType, NEW h \in Handlers, NEW js \in Seq(Jobs), Bind(h, js)
    PROVE  /\ jobs' \in [Handlers -> Seq(Jobs)]
           /\ jobs'[h] = jobs[h] \o js
           /\ \A g \in Handlers \ {h} : jobs'[g] = jobs[g]
  <1>1. jobs[h] \o js \in Seq(Jobs)
    BY ConcatProperties DEF JobType
  <1> QED
    BY <1>1 DEF JobType, Bind

\* ... and the one that it does next.
LEMMA NextJobType ==
    ASSUME JobType, NEW h \in Handlers, NEW op, NextJob(h, op)
    PROVE  /\ adding[h] = None
           /\ Head(jobs[h]) \in Jobs
           /\ Head(jobs[h]).op = op
           /\ Tail(jobs[h]) \in Seq(Jobs)
           /\ Len(Tail(jobs[h])) = Len(jobs[h]) - 1
           /\ Len(jobs[h]) \in Nat \ {0}
           /\ Head(jobs[h]) = jobs[h][1]
           /\ \A i \in 1 .. Len(Tail(jobs[h])) : Tail(jobs[h])[i] = jobs[h][i + 1]
  <1>1. jobs[h] \in Seq(Jobs) /\ jobs[h] # <<>>
    BY DEF JobType, NextJob
  <1> QED
    BY <1>1, HeadTailProperties, EmptySeq DEF NextJob, Free

\* The same for the server's requests.
LEMMA AskedType ==
    ASSUME DeviceType, NEW op, Asked(op)
    PROVE  /\ serving = NotServing
           /\ Head(requests) \in Requests /\ Head(requests).op = op
           /\ Subject \in Devices /\ Subject.key \in Keys
           /\ requests' = Tail(requests) /\ requests' \in Seq(Requests)
           /\ Len(requests') = Len(requests) - 1
           /\ Len(requests) \in Nat \ {0}
           /\ Head(requests) = requests[1]
           /\ \A i \in 1 .. Len(requests') : requests'[i] = requests[i + 1]
  <1>1. requests \in Seq(Requests) /\ requests # <<>>
    BY DEF DeviceType, Asked
  <1> QED
    BY <1>1, HeadTailProperties, EmptySeq, RequestType DEF Asked, Subject

LEMMA AskType ==
    ASSUME DeviceType, NEW rs \in Seq(Requests), Ask(rs)
    PROVE  requests' \in Seq(Requests) /\ requests' = requests \o rs
  BY ConcatProperties DEF DeviceType, Ask

LEMMA AskOneType ==
    ASSUME DeviceType, NEW r \in Requests, Ask(<<r>>)
    PROVE  /\ requests' \in Seq(Requests)
           /\ Len(requests) \in Nat
           /\ Len(requests') = Len(requests) + 1
           /\ \A i \in 1 .. Len(requests) : requests'[i] = requests[i]
           /\ requests'[Len(requests')] = r
  <1>1. <<r>> \in Seq(Requests) /\ Len(<<r>>) = 1 /\ <<r>>[1] = r
    OBVIOUS
  <1> QED
    BY <1>1, ConcatProperties, LenProperties DEF DeviceType, Ask

LEMMA AskNothing ==
    ASSUME DeviceType, Ask(<<>>)
    PROVE  requests' = requests
  BY ConcatEmptySeq DEF DeviceType, Ask

LEMMA TypesInit == Init => Types
  <1> SUFFICES ASSUME Init PROVE Types
    OBVIOUS
  <1>1. LifeType
    <2>1. changes \in 0 .. MaxHostChanges + MaxBluezChanges /\ quits \in 0 .. MaxQuits
      BY BoundsAreNat DEF Init
    <2>2. present \subseteq Keys
      BY DEF Init, Watched
    <2> QED
      BY <2>1, <2>2 DEF Init, LifeType, Phases, Starting
  <1>2. JobType
    BY EmptySeq DEF Init, JobType
  <1>3. DeviceType
    BY EmptySeq DEF Init, DeviceType, MaybeDevice
  <1> QED
    BY <1>1, <1>2, <1>3 DEF Types

\* The jobs, whatever adds or does one.
LEMMA JobTypeStep == Types /\ [Next]_vars => JobType'
  <1> SUFFICES ASSUME Types, [Next]_vars PROVE JobType'
    OBVIOUS
  <1>0. JobType /\ LifeType /\ DeviceType
    BY DEF Types
  <1>h. "bt" \in Handlers /\ "tcp" \in Handlers
    BY DEF Handlers
  <1>1. ASSUME NEW a \in Addresses, BluezChanges(a) PROVE JobType'
    <2> DEFINE js == IF ~listening THEN <<>> ELSE IF a \in present THEN <<RemoveJob(a)>>
                       ELSE <<AddJob(a, FALSE)>>
    <2>0. AddJob(a, FALSE) \in Jobs /\ RemoveJob(a) \in Jobs
      BY KeysApart, JobTypes
    <2>1. js \in Seq(Jobs)
      BY <2>0, OneJob, EmptySeq
    <2>2. Bind("bt", js) /\ UNCHANGED <<scans, adding>>
      BY <1>1 DEF BluezChanges
    <2> HIDE DEF js
    <2> QED
      BY <1>0, <1>h, <2>1, <2>2, BindType DEF JobType
  <1>2. CASE ScanStarts
    <2>1. Append(scans, present \cap Macs) \in Seq(SUBSET Macs)
      BY <1>0, AppendProperties DEF JobType
    <2> QED
      BY <1>0, <1>2, <2>1 DEF ScanStarts, JobType
  <1>3. ASSUME NEW i \in DOMAIN scans, ScanEnds(i) PROVE JobType'
    <2> DEFINE removes == SetToSeq({RemoveJob(m) : m \in Gone(scans[i])})
               adds == SetToSeq({AddJob(m, FALSE) : m \in New(scans[i])})
    <2>1. scans' \in Seq(SUBSET Macs) /\ scans[i] \in SUBSET Macs
      BY <1>0, <1>3, RemoveAtType, ElementOfSeq, LenProperties DEF ScanEnds, JobType
    <2>2. Gone(scans[i]) \in SUBSET Macs /\ New(scans[i]) \in SUBSET Macs
      BY <2>1 DEF Gone, New
    <2>3. /\ {RemoveJob(m) : m \in Gone(scans[i])} \subseteq Jobs
          /\ {AddJob(m, FALSE) : m \in New(scans[i])} \subseteq Jobs
      BY <2>2, KeysApart, JobTypes
    <2>4. removes \in Seq(Jobs) /\ adds \in Seq(Jobs)
      BY <2>2, <2>3, ScanJobs, SeqMonotonic
    <2>5. Bind("tcp", removes \o adds) /\ UNCHANGED adding
      BY <1>3 DEF ScanEnds
    <2>6. removes \o adds \in Seq(Jobs)
      BY <2>4, ConcatProperties
    <2> QED
      BY <1>0, <1>h, <2>1, <2>5, <2>6, BindType DEF JobType
  <1>4. ASSUME NEW h \in Handlers, AddBegins(h) PROVE JobType'
    BY <1>0, <1>4, NextJobType DEF AddBegins, JobType
  <1>5. ASSUME NEW h \in Handlers, AddGivesUp(h) \/ AddEnds(h) PROVE JobType'
    BY <1>0, <1>5 DEF AddGivesUp, AddEnds, JobType
  <1>6. ASSUME NEW h \in Handlers, RemoveDevice(h) PROVE JobType'
    BY <1>0, <1>6, NextJobType DEF RemoveDevice, JobType
  <1>7. ASSUME NEW a \in Addresses, AddListed(a) PROVE JobType'
    <2>0. AddJob(a, TRUE) \in Jobs
      BY KeysApart, JobTypes
    <2>1. <<AddJob(a, TRUE)>> \in Seq(Jobs)
      BY <2>0, OneJob
    <2>2. Bind("bt", <<AddJob(a, TRUE)>>) /\ UNCHANGED <<scans, adding>>
      BY <1>7 DEF AddListed
    <2> QED
      BY <1>0, <1>h, <2>1, <2>2, BindType DEF JobType
  <1>8. ASSUME UNCHANGED <<scans, jobs, adding>> PROVE JobType'
    BY <1>0, <1>8 DEF JobType
  <1>9. CASE (\E m \in Macs : HostChanges(m)) \/ (\E a \in Addresses : NewConnection(a))
             \/ (\E k \in Keys : UserConnects(k)) \/ TransportEnds \/ Quit
    BY <1>8, <1>9 DEF HostChanges, NewConnection, UserConnects, TransportEnds, Quit, handlers
  <1>10. CASE Serve
    BY <1>8, <1>10 DEF Serve, ServeAdd, ServeRemove, ServeConnect, ServeSelfConnect,
       ServeDisconnect, ServeStop, Connects, SetUp, Asked, handlers
  <1>11. CASE \/ BuildHandlers \/ StartScan \/ RegisterProfile \/ StartDiscovery
              \/ Listen \/ InitServices \/ StopScan \/ StopDiscovery
              \/ UnregisterProfile \/ Exit
    BY <1>8, <1>11 DEF BuildHandlers, StartScan, RegisterProfile, StartDiscovery,
       Listen, InitServices, StopScan, StopDiscovery, UnregisterProfile, Exit,
       Rest, handlers
  <1>12. CASE UNCHANGED vars
    BY <1>8, <1>12 DEF vars, handlers
  <1> QED
    BY <1>1, <1>2, <1>3, <1>4, <1>5, <1>6, <1>7, <1>9, <1>10, <1>11, <1>12
       DEF Next, Environment, ScanEnded, Handle, Advance

\* How far the server is, and what is there.
LEMMA LifeTypeStep == Types /\ [Next]_vars => LifeType'
  <1> SUFFICES ASSUME Types, [Next]_vars PROVE LifeType'
    OBVIOUS
  <1>0. JobType /\ LifeType /\ DeviceType
    BY DEF Types
  <1> USE BoundsAreNat
  <1>1. ASSUME NEW m \in Macs, HostChanges(m) PROVE LifeType'
    <2>1. m \in Keys
      BY KeysApart
    <2> QED
      BY <1>0, <1>1, <2>1
         DEF HostChanges, LifeType, lifecycle, handlers, history
  <1>2. ASSUME NEW a \in Addresses, BluezChanges(a) PROVE LifeType'
    <2>1. a \in Keys
      BY KeysApart
    <2> QED
      BY <1>0, <1>2, <2>1 DEF BluezChanges, LifeType, lifecycle
  <1>3. ASSUME NEW h \in Handlers, AddGivesUp(h) PROVE LifeType'
    BY <1>0, <1>3 DEF AddGivesUp, Awaited, LifeType, Phases, Starting, world, history
  <1>4. ASSUME NEW h \in Handlers, AddEnds(h) PROVE LifeType'
    BY <1>0, <1>4 DEF AddEnds, Awaited, LifeType, Phases, Starting, world, history
  <1>5. ASSUME NEW h \in Handlers, AddBegins(h) \/ RemoveDevice(h) PROVE LifeType'
    BY <1>0, <1>5 DEF AddBegins, RemoveDevice, LifeType, world, lifecycle, history
  <1>6. CASE ScanStarts \/ ScanEnded
    BY <1>0, <1>6 DEF ScanStarts, ScanEnded, ScanEnds, LifeType, world, lifecycle, history
  <1>7. CASE \/ \E a \in Addresses : NewConnection(a)
             \/ \E k \in Keys : UserConnects(k)
             \/ TransportEnds
    BY <1>0, <1>7 DEF NewConnection, UserConnects, TransportEnds, LifeType, world,
       lifecycle, handlers, history
  <1>8. CASE Quit
    <2>1. late' \in BOOLEAN /\ hurried' \in BOOLEAN /\ exited' \in BOOLEAN
      <3>1. late \in BOOLEAN /\ hurried \in BOOLEAN /\ exited \in BOOLEAN
        BY <1>0 DEF LifeType
      <3> QED
        BY <1>8, <3>1, Zenon DEF Quit, StopBegins, StopReturns
    <2>2. phase' \in Phases
      BY <1>0, <1>8 DEF Quit, StopBegins, StopReturns, LifeType, Phases, Stopping
    <2>3. quits' \in 0 .. MaxQuits
      BY <1>0, <1>8 DEF Quit, LifeType
    <2>4. UNCHANGED <<world, toList, handlers, lost>>
      BY <1>8 DEF Quit
    <2> QED
      BY <1>0, <2>1, <2>2, <2>3, <2>4 DEF LifeType, world, handlers
  <1>9. CASE Serve
    BY <1>0, <1>9 DEF Serve, ServeAdd, ServeRemove, ServeConnect, ServeSelfConnect,
       ServeDisconnect, ServeStop, Connects, SetUp, Asked, LifeType, Phases, Stopping,
       world, lifecycle, handlers, history
  <1>10. CASE BuildHandlers \/ StartScan \/ RegisterProfile \/ InitServices \/ Listen
    <2>1. scanning' \in BOOLEAN
      <3>1. scanning \in BOOLEAN
        BY <1>0 DEF LifeType
      <3>2. CASE StartScan
        <4>1. scanning' = ("tcp" \in configured)
          BY <3>2 DEF StartScan
        <4>2. ("tcp" \in configured) \in BOOLEAN
          OBVIOUS
        <4> QED
          BY <4>1, <4>2, Zenon
      <3>3. CASE UNCHANGED scanning
        BY <3>1, <3>3
      <3> QED
        BY <1>10, <3>2, <3>3 DEF BuildHandlers, RegisterProfile, InitServices, Listen
    <2>2. phase' \in Phases /\ registered' \in BOOLEAN /\ listening' \in BOOLEAN
      BY <1>0, <1>10 DEF BuildHandlers, StartScan, RegisterProfile, InitServices, Listen,
         LifeType, Phases, Starting
    <2>3. UNCHANGED <<world, toList, quits, exited, history>>
      BY <1>10 DEF BuildHandlers, StartScan, RegisterProfile, InitServices, Listen, Rest
    <2> QED
      BY <1>0, <2>1, <2>2, <2>3 DEF LifeType, world, history
  <1>11. CASE StartDiscovery
    BY <1>0, <1>11 DEF StartDiscovery, LifeType, Phases, Starting, world, handlers
  <1>12. ASSUME NEW a \in Addresses, AddListed(a) PROVE LifeType'
    BY <1>0, <1>12 DEF AddListed, LifeType, Phases, Starting, world, history
  <1>13. CASE StopScan \/ StopDiscovery \/ UnregisterProfile \/ Exit
    BY <1>0, <1>13 DEF StopScan, StopDiscovery, UnregisterProfile, Exit, LifeType,
       Phases, Stopping, Rest, world, lifecycle, handlers, history
  <1>14. CASE UNCHANGED vars
    BY <1>0, <1>14 DEF vars, world, lifecycle, handlers, history, LifeType
  <1> QED
    BY <1>1, <1>2, <1>3, <1>4, <1>5, <1>6, <1>7, <1>8, <1>9, <1>10, <1>11,
       <1>12, <1>13, <1>14
       DEF Next, Environment, Handle, Advance

\* What the end of an addition does ...
LEMMA AddEndsType ==
    ASSUME Types, NEW h \in Handlers, AddEnds(h)
    PROVE  LET k == adding[h].key
           IN  /\ adding[h] \in Jobs /\ k \in Keys
               /\ \E d \in Devices :
                    /\ d.key = k /\ ~Referred(d)
                    /\ deviceMap' = [deviceMap EXCEPT ![k] = d]
                    /\ profile' = IF k \in Addresses /\ ~HookThrows(k)
                                  THEN [profile EXCEPT ![k] = d] ELSE profile
                    /\ Ask(IF HookThrows(k) THEN <<>> ELSE <<Request("add", d)>>)
  <1> DEFINE k == adding[h].key
  <1>1. adding[h] \in Jobs /\ k \in Keys
    BY JobTypes DEF AddEnds, Free, Types, JobType
  <1>2. PICK n \in 1 .. MaxObjects :
          /\ ~Referred(Device(k, n))
          /\ deviceMap' = [deviceMap EXCEPT ![k] = Device(k, n)]
          /\ profile' = IF k \in Addresses /\ ~HookThrows(k)
                        THEN [profile EXCEPT ![k] = Device(k, n)] ELSE profile
          /\ Ask(IF HookThrows(k) THEN <<>> ELSE <<Request("add", Device(k, n))>>)
    BY DEF AddEnds
  <1>3. Device(k, n) \in Devices /\ Device(k, n).key = k
    BY <1>1, RequestType
  <1> HIDE DEF k
  <1>4. \E d \in Devices :
          /\ d.key = k /\ ~Referred(d)
          /\ deviceMap' = [deviceMap EXCEPT ![k] = d]
          /\ profile' = IF k \in Addresses /\ ~HookThrows(k)
                        THEN [profile EXCEPT ![k] = d] ELSE profile
          /\ Ask(IF HookThrows(k) THEN <<>> ELSE <<Request("add", d)>>)
    BY <1>2, <1>3
  <1> QED
    BY <1>1, <1>4 DEF k

\* ... and a removal.
LEMMA RemoveDeviceType ==
    ASSUME Types, NEW h \in Handlers, RemoveDevice(h)
    PROVE  LET k == Head(jobs[h]).key
               d == deviceMap[k]
               throws == k \in Addresses /\ profile[k] # d
           IN  /\ k \in Keys /\ d \in MaybeDevice
               /\ deviceMap' = [deviceMap EXCEPT ![k] = None]
               /\ profile' = IF d # None /\ k \in Addresses /\ ~throws
                             THEN [profile EXCEPT ![k] = None] ELSE profile
               /\ Ask(IF d = None \/ throws THEN <<>> ELSE <<Request("remove", d)>>)
               /\ d # None => d \in Devices
  <1> DEFINE k == Head(jobs[h]).key
  <1>1. k \in Keys
    BY NextJobType, JobTypes DEF RemoveDevice, Types
  <1>2. deviceMap[k] \in MaybeDevice
    BY <1>1 DEF Types, DeviceType
  <1> QED
    BY <1>1, <1>2 DEF RemoveDevice, Removed, MaybeDevice

\* The devices and what is asked for them.
LEMMA DeviceTypeStep == Types /\ [Next]_vars => DeviceType'
  <1> SUFFICES ASSUME Types, [Next]_vars PROVE DeviceType'
    OBVIOUS
  <1>0. JobType /\ LifeType /\ DeviceType
    BY DEF Types
  <1>s. {"add", "remove", "connect", "selfConnect", "disconnect", "stop"} \subseteq Ops
    BY DEF Ops
  <1>1. ASSUME NEW r \in Requests, Ask(<<r>>),
               UNCHANGED <<deviceMap, profile, serving, nameMap, connected>>
        PROVE  DeviceType'
    BY <1>0, <1>1, AskOneType DEF DeviceType
  <1>2. ASSUME UNCHANGED <<deviceMap, profile, server>> PROVE DeviceType'
    BY <1>0, <1>2 DEF DeviceType, server
  <1>3. ASSUME NEW h \in Handlers, AddEnds(h) PROVE DeviceType'
    <2> DEFINE k == adding[h].key
    <2>0. k \in Keys
      BY <1>3, AddEndsType
    <2>1. PICK d \in Devices :
            /\ deviceMap' = [deviceMap EXCEPT ![k] = d]
            /\ profile' = IF k \in Addresses /\ ~HookThrows(k)
                          THEN [profile EXCEPT ![k] = d] ELSE profile
            /\ Ask(IF HookThrows(k) THEN <<>> ELSE <<Request("add", d)>>)
      BY <1>3, AddEndsType
    <2>2. UNCHANGED <<serving, nameMap, connected>>
      BY <1>3 DEF AddEnds
    <2>3. Request("add", d) \in Requests
      BY RequestType, <1>s
    <2>4. requests' \in Seq(Requests)
      <3> HIDE DEF k
      <3> DEFINE r == Request("add", d)
      <3>1. CASE HookThrows(k)
        BY <1>0, <2>1, <3>1, AskNothing DEF DeviceType
      <3>2. CASE ~HookThrows(k)
        <4>1. r \in Requests /\ Ask(<<r>>)
          BY <2>1, <2>3, <3>2
        <4> HIDE DEF r
        <4> QED
          BY <1>0, <4>1, AskOneType
      <3> QED
        BY <3>1, <3>2
    <2>5. deviceMap' \in [Keys -> MaybeDevice] /\ profile' \in [Addresses -> MaybeDevice]
      BY <1>0, <2>0, <2>1 DEF DeviceType, MaybeDevice
    <2> QED
      BY <1>0, <2>2, <2>4, <2>5 DEF DeviceType
  <1>4. ASSUME NEW h \in Handlers, RemoveDevice(h) PROVE DeviceType'
    <2> DEFINE k == Head(jobs[h]).key
               d == deviceMap[k]
               throws == k \in Addresses /\ profile[k] # d
    <2>1. /\ k \in Keys /\ d \in MaybeDevice
          /\ deviceMap' = [deviceMap EXCEPT ![k] = None]
          /\ profile' = IF d # None /\ k \in Addresses /\ ~throws
                        THEN [profile EXCEPT ![k] = None] ELSE profile
          /\ Ask(IF d = None \/ throws THEN <<>> ELSE <<Request("remove", d)>>)
          /\ d # None => d \in Devices
      BY <1>4, RemoveDeviceType
    <2>2. UNCHANGED <<serving, nameMap, connected>>
      BY <1>4 DEF RemoveDevice
    <2>3. requests' \in Seq(Requests)
      <3> HIDE DEF d, throws
      <3> DEFINE r == Request("remove", d)
      <3>1. CASE d = None \/ throws
        BY <1>0, <2>1, <3>1, AskNothing DEF DeviceType
      <3>2. CASE ~(d = None \/ throws)
        <4>1. r \in Requests /\ Ask(<<r>>)
          BY <1>s, <2>1, <3>2, RequestType
        <4> HIDE DEF r
        <4> QED
          BY <1>0, <4>1, AskOneType
      <3> QED
        BY <3>1, <3>2
    <2>4. deviceMap' \in [Keys -> MaybeDevice] /\ profile' \in [Addresses -> MaybeDevice]
      <3> HIDE DEF k, d, throws
      <3> QED
        BY <1>0, <2>1 DEF DeviceType, MaybeDevice
    <2> QED
      BY <1>0, <2>2, <2>3, <2>4 DEF DeviceType
  <1>5. CASE ServeAdd \/ ServeRemove
    <2>1. /\ Subject \in Devices /\ Subject.key \in Keys
          /\ requests' \in Seq(Requests)
          /\ UNCHANGED <<handlers, serving, connected>>
      BY <1>0, <1>5, AskedType DEF ServeAdd, ServeRemove, Asked
    <2>2. nameMap' \in [Keys -> MaybeDevice]
      BY <1>0, <1>5, <2>1 DEF ServeAdd, ServeRemove, DeviceType, MaybeDevice
    <2> QED
      BY <1>0, <2>1, <2>2 DEF DeviceType, handlers
  <1>6. CASE ServeConnect \/ ServeSelfConnect \/ ServeDisconnect \/ ServeStop
    <2>1. /\ Subject \in Devices
          /\ requests' \in Seq(Requests)
          /\ UNCHANGED <<handlers, nameMap>>
      BY <1>0, <1>6, AskedType
         DEF ServeConnect, ServeSelfConnect, ServeDisconnect, ServeStop, Asked
    <2>2. connected' \in MaybeDevice
      BY <1>0, <1>6 DEF ServeConnect, ServeSelfConnect, ServeDisconnect, ServeStop,
         Ending, DeviceType, MaybeDevice
    <2>3. serving' \in [dev : Devices, step : {"connect", "start"}] \cup {NotServing}
      BY <1>0, <1>6, <2>1
         DEF ServeConnect, ServeSelfConnect, ServeDisconnect, ServeStop, DeviceType
    <2> QED
      BY <1>0, <2>1, <2>2, <2>3 DEF DeviceType, handlers
  <1>7. CASE Connects \/ SetUp
    <2>1. serving \in [dev : Devices, step : {"connect", "start"}] /\ UNCHANGED <<handlers, requests, nameMap>>
      BY <1>0, <1>7 DEF Connects, SetUp, DeviceType, NotServing
    <2>2. /\ connected' \in MaybeDevice
          /\ serving' \in [dev : Devices, step : {"connect", "start"}] \cup {NotServing}
      BY <1>0, <1>7, <2>1 DEF Connects, SetUp, DeviceType, MaybeDevice
    <2> QED
      BY <1>0, <2>1, <2>2 DEF DeviceType, handlers
  <1>8. ASSUME NEW k \in Keys, UserConnects(k) PROVE DeviceType'
    <2> DEFINE r == Request("connect", nameMap[k])
    <2>1. r \in Requests
      BY <1>0, <1>8, <1>s, RequestType DEF UserConnects, DeviceType, MaybeDevice
    <2>2. Ask(<<r>>) /\ UNCHANGED <<deviceMap, profile, serving, nameMap, connected>>
      BY <1>8 DEF UserConnects, handlers
    <2> HIDE DEF r
    <2> QED
      BY <1>1, <2>1, <2>2
  <1>9. ASSUME NEW a \in Addresses, NewConnection(a) PROVE DeviceType'
    <2> DEFINE r == Request("selfConnect", profile[a])
    <2>1. r \in Requests
      BY <1>0, <1>9, <1>s, RequestType DEF NewConnection, DeviceType, MaybeDevice
    <2>2. Ask(<<r>>) /\ UNCHANGED <<deviceMap, profile, serving, nameMap, connected>>
      BY <1>9 DEF NewConnection, handlers
    <2> HIDE DEF r
    <2> QED
      BY <1>1, <2>1, <2>2
  <1>10. CASE TransportEnds
    <2> DEFINE r == Request("disconnect", connected)
    <2>1. r \in Requests
      BY <1>0, <1>10, <1>s, RequestType DEF TransportEnds, DeviceType, MaybeDevice
    <2>2. Ask(<<r>>) /\ UNCHANGED <<deviceMap, profile, serving, nameMap, connected>>
      BY <1>10 DEF TransportEnds, handlers
    <2> HIDE DEF r
    <2> QED
      BY <1>1, <2>1, <2>2
  <1>11. CASE Quit
    <2>1. UNCHANGED <<deviceMap, profile, serving, nameMap, connected>>
      BY <1>11 DEF Quit, handlers
    <2>2. CASE UNCHANGED requests
      BY <1>2, <2>1, <2>2 DEF server
    <2>3. CASE connected # None /\ Ask(<<Request("stop", connected)>>)
      <3> DEFINE r == Request("stop", connected)
      <3>1. r \in Requests
        BY <1>0, <2>3, <1>s, RequestType DEF DeviceType, MaybeDevice
      <3>2. Ask(<<r>>)
        BY <2>3
      <3> HIDE DEF r
      <3> QED
        BY <1>1, <2>1, <3>1, <3>2
    <2> QED
      BY <1>11, <2>2, <2>3 DEF Quit, StopBegins, StopReturns
  <1>12. CASE (\E m \in Macs : HostChanges(m)) \/ (\E a \in Addresses : BluezChanges(a))
              \/ ScanStarts \/ ScanEnded
    BY <1>2, <1>12 DEF HostChanges, BluezChanges, ScanStarts, ScanEnded, ScanEnds, handlers
  <1>13. ASSUME NEW h \in Handlers, AddBegins(h) \/ AddGivesUp(h) PROVE DeviceType'
    BY <1>2, <1>13 DEF AddBegins, AddGivesUp
  <1>14. CASE Advance
    BY <1>2, <1>14 DEF Advance, BuildHandlers, StartScan, RegisterProfile, StartDiscovery,
       AddListed, Listen, InitServices, StopScan, StopDiscovery, UnregisterProfile, Exit,
       Rest, handlers, server
  <1>15. CASE UNCHANGED vars
    BY <1>2, <1>15 DEF vars, handlers
  <1> QED
    BY <1>3, <1>4, <1>5, <1>6, <1>7, <1>8, <1>9, <1>10, <1>11, <1>12, <1>13,
       <1>14, <1>15
       DEF Next, Environment, Handle, Serve

LEMMA TypesStep == Types /\ [Next]_vars => Types'
  BY LifeTypeStep, JobTypeStep, DeviceTypeStep DEF Types

LEMMA TypesAlways == Spec => []Types
  BY TypesInit, TypesStep, PTL DEF Spec

\* The types of the variables: every job is one of a device the handler knows
\* of, every request names a device object, and the bounds are kept.
THEOREM TypeCorrect == Spec => []TypeOK
  <1>1. Types => TypeOK
    BY DEF Types, LifeType, JobType, DeviceType, TypeOK
  <1> QED
    BY <1>1, TypesAlways, PTL

-----------------------------------------------------------------------------
(***************************************************************************)
(* The jobs of a handler, and the phases.  A handler only works on devices *)
(* of its own; start() waits for the one device of BlueZ's list that it    *)
(* asked for; before that the Bluetooth handler knows of nothing, and it   *)
(* does not listen until the list is done.                                 *)
(***************************************************************************)
Work(h, j) == \/ adding[h] = j
              \/ \E i \in 1 .. Len(jobs[h]) : jobs[h][i] = j

WorkInv ==
    \A h \in Handlers, j \in Jobs : Work(h, j) =>
        /\ HandlerOf(j.key) = h
        /\ j.listed => h = "bt" /\ phase = "listed"

Unlisted == {"new", "scan", "profile", "discovery"}

PhaseInv ==
    /\ phase \in Unlisted \cup {"list"} => jobs["bt"] = <<>> /\ adding["bt"] = None
    /\ phase \in Unlisted =>
         \A a \in Addresses : deviceMap[a] = None /\ profile[a] = None
    /\ phase = "listed" =>
         jobs["bt"] = <<>> \/ (Len(jobs["bt"]) = 1 /\ adding["bt"] = None)
    /\ listening => phase \notin Unlisted \cup {"list", "listed", "unregister", "stopped"}
    /\ scanning => phase \notin {"new", "scan", "stopDiscovery", "unregister", "stopped"}

\* A request of stop() is there while stop() awaits it, and is the only one.
Stops(i) == i \in 1 .. Len(requests) /\ requests[i].op = "stop"

StopInv ==
    \A i, j : Stops(i) /\ Stops(j) => i = j /\ phase = "disconnect"

LifeInv == Types /\ WorkInv /\ PhaseInv /\ StopInv

\* What a handler works on after it was asked for more.
LEMMA BindWork ==
    ASSUME JobType, NEW h \in Handlers, NEW js \in Seq(Jobs), Bind(h, js), UNCHANGED adding,
           NEW g \in Handlers, NEW j, Work(g, j)'
    PROVE  Work(g, j) \/ (g = h /\ \E i \in 1 .. Len(js) : js[i] = j)
  <1>1. CASE g # h
    BY <1>1, BindType DEF Work
  <1>2. CASE g = h
    <2>1. jobs'[g] = jobs[g] \o js /\ jobs[g] \in Seq(Jobs)
      BY <1>2, BindType DEF JobType
    <2>2. /\ Len(jobs'[g]) = Len(jobs[g]) + Len(js)
          /\ Len(jobs[g]) \in Nat /\ Len(js) \in Nat
          /\ \A i \in 1 .. Len(jobs[g]) + Len(js) : jobs'[g][i] =
                IF i <= Len(jobs[g]) THEN jobs[g][i] ELSE js[i - Len(jobs[g])]
      BY <2>1, ConcatProperties, LenProperties
    <2>3. CASE adding[g] = j
      BY <2>3 DEF Work
    <2>4. CASE adding[g] # j
      <3>1. PICK i \in 1 .. Len(jobs'[g]) : jobs'[g][i] = j
        BY <2>4 DEF Work
      <3>2. CASE i <= Len(jobs[g])
        BY <2>2, <3>1, <3>2 DEF Work
      <3>3. CASE i > Len(jobs[g])
        <4>1. i - Len(jobs[g]) \in 1 .. Len(js) /\ js[i - Len(jobs[g])] = j
          BY <2>2, <3>1, <3>3, SMTT(30)
        <4> QED
          BY <1>2, <4>1
      <3> QED
        BY <2>2, <3>2, <3>3
    <2> QED
      BY <2>3, <2>4
  <1> QED
    BY <1>1, <1>2

\* A handler that does the next of its jobs, or begins it, has the others left.
LEMMA NextWork ==
    ASSUME JobType, NEW h \in Handlers, NEW op, NextJob(h, op),
           jobs' = [jobs EXCEPT ![h] = Tail(@)],
           adding' = adding \/ adding' = [adding EXCEPT ![h] = Head(jobs[h])],
           NEW g \in Handlers, NEW j \in Jobs, Work(g, j)'
    PROVE  Work(g, j)
  <1>1. CASE g # h
    BY <1>1 DEF Work, JobType
  <1>2. CASE g = h
    <2>1. jobs'[g] = Tail(jobs[g])
      BY <1>2 DEF JobType
    <2>2. ASSUME NEW i \in 1 .. Len(jobs'[g]), jobs'[g][i] = j
          PROVE  i + 1 \in 1 .. Len(jobs[g]) /\ jobs[g][i + 1] = j
      <3>1. /\ Len(jobs'[g]) = Len(jobs[g]) - 1
            /\ Len(jobs[g]) \in Nat \ {0}
            /\ \A l \in 1 .. Len(jobs'[g]) : jobs'[g][l] = jobs[g][l + 1]
        <4>1. /\ Len(Tail(jobs[h])) = Len(jobs[h]) - 1
              /\ Len(jobs[h]) \in Nat \ {0}
              /\ \A l \in 1 .. Len(Tail(jobs[h])) : Tail(jobs[h])[l] = jobs[h][l + 1]
          BY NextJobType
        <4> QED
          BY <1>2, <2>1, <4>1
      <3> QED
        BY <2>2, <3>1
    <2>3. 1 \in 1 .. Len(jobs[g]) /\ jobs[g][1] = Head(jobs[g])
      BY <1>2, NextJobType
    <2>4. adding'[g] = adding[g] \/ adding'[g] = Head(jobs[g])
      BY <1>2 DEF JobType
    <2> QED
      BY <2>2, <2>3, <2>4 DEF Work
  <1> QED
    BY <1>1, <1>2

\* A handler that has added a device, or has given it up, has less to do.
LEMMA DoneWork ==
    ASSUME JobType, NEW h \in Handlers, adding' = [adding EXCEPT ![h] = None], UNCHANGED jobs,
           NEW g \in Handlers, NEW j \in Jobs, Work(g, j)'
    PROVE  Work(g, j)
  BY KeysApart DEF Work, JobType

LEMMA LifeInit == Init => WorkInv /\ PhaseInv
  <1> SUFFICES ASSUME Init PROVE WorkInv /\ PhaseInv
    OBVIOUS
  <1>1. WorkInv
    BY KeysApart, EmptySeq DEF Init, WorkInv, Work
  <1>2. PhaseInv
    BY KeysApart DEF Init, PhaseInv, Unlisted, Handlers
  <1> QED
    BY <1>1, <1>2

\* An addition that start() waits for is the only one of its handler.
LEMMA AddingOfPhase ==
    ASSUME LifeInv, NEW h \in Handlers, adding[h] # None
    PROVE  /\ adding[h] \in Jobs /\ Work(h, adding[h])
           /\ HandlerOf(adding[h].key) = h
           /\ adding[h].listed => h = "bt" /\ phase = "listed" /\ jobs["bt"] = <<>>
  <1>1. adding[h] \in Jobs /\ Work(h, adding[h])
    BY DEF LifeInv, Types, JobType, Work
  <1>2. HandlerOf(adding[h].key) = h /\ (adding[h].listed => h = "bt" /\ phase = "listed")
    BY <1>1 DEF LifeInv, WorkInv
  <1> QED
    BY <1>1, <1>2 DEF LifeInv, PhaseInv

LEMMA WorkStep == LifeInv /\ [Next]_vars => WorkInv'
  <1> SUFFICES ASSUME LifeInv, [Next]_vars PROVE WorkInv'
    OBVIOUS
  <1>0. JobType /\ LifeType /\ DeviceType /\ WorkInv /\ PhaseInv
    BY DEF LifeInv, Types
  <1>h. "bt" \in Handlers /\ "tcp" \in Handlers
    BY DEF Handlers
  <1>1. ASSUME UNCHANGED phase \/ (phase # "listed" /\ phase' # "listed"),
               \A h \in Handlers, j \in Jobs : Work(h, j)' => Work(h, j)
        PROVE  WorkInv'
    BY <1>0, <1>1 DEF WorkInv
  <1>2. ASSUME NEW h \in Handlers, NEW js \in Seq(Jobs), Bind(h, js), UNCHANGED adding,
               \A i \in 1 .. Len(js) : HandlerOf(js[i].key) = h
                                       /\ (js[i].listed => h = "bt" /\ phase' = "listed"),
               UNCHANGED phase \/ phase' = "listed"
        PROVE  WorkInv'
    <2> SUFFICES ASSUME NEW g \in Handlers, NEW j \in Jobs, Work(g, j)'
                 PROVE  HandlerOf(j.key) = g /\ (j.listed => g = "bt" /\ phase' = "listed")
      BY DEF WorkInv
    <2>1. CASE Work(g, j)
      BY <1>0, <1>2, <2>1 DEF WorkInv
    <2>2. CASE g = h /\ \E i \in 1 .. Len(js) : js[i] = j
      BY <1>2, <2>2
    <2> QED
      BY <1>0, <1>2, <2>1, <2>2, BindWork
  <1>3. ASSUME NEW a \in Addresses, BluezChanges(a) PROVE WorkInv'
    <2> DEFINE js == IF ~listening THEN <<>> ELSE IF a \in present THEN <<RemoveJob(a)>>
                       ELSE <<AddJob(a, FALSE)>>
    <2>0. AddJob(a, FALSE) \in Jobs /\ RemoveJob(a) \in Jobs
      BY KeysApart, JobTypes
    <2>1. js \in Seq(Jobs)
      BY <2>0, OneJob, EmptySeq
    <2>2. Bind("bt", js) /\ UNCHANGED <<phase, adding>>
      BY <1>3 DEF BluezChanges, lifecycle
    <2>3. \A i \in 1 .. Len(js) : js[i] \in {AddJob(a, FALSE), RemoveJob(a)}
      <3>1. CASE ~listening
        BY <3>1, EmptySeq
      <3>2. CASE listening /\ a \in present
        BY <2>0, <3>2, OneJob
      <3>3. CASE listening /\ a \notin present
        BY <2>0, <3>3, OneJob
      <3> QED
        BY <3>1, <3>2, <3>3
    <2>4. \A i \in 1 .. Len(js) : HandlerOf(js[i].key) = "bt" /\ ~js[i].listed
      BY <2>3, KeysApart DEF AddJob, RemoveJob
    <2> HIDE DEF js
    <2> QED
      BY <1>2, <1>h, <2>1, <2>2, <2>4
  <1>4. ASSUME NEW i \in DOMAIN scans, ScanEnds(i) PROVE WorkInv'
    <2> DEFINE R == {RemoveJob(m) : m \in Gone(scans[i])}
               A == {AddJob(m, FALSE) : m \in New(scans[i])}
               js == SetToSeq(R) \o SetToSeq(A)
    <2>1. scans[i] \in SUBSET Macs
      BY <1>0, ElementOfSeq, LenProperties DEF JobType
    <2>2. Gone(scans[i]) \in SUBSET Macs /\ New(scans[i]) \in SUBSET Macs
      BY <2>1 DEF Gone, New
    <2>3. R \cup A \subseteq {j \in Jobs : HandlerOf(j.key) = "tcp" /\ ~j.listed}
      <3>1. ASSUME NEW m \in Macs, NEW j \in {RemoveJob(m), AddJob(m, FALSE)}
            PROVE  j \in Jobs /\ HandlerOf(j.key) = "tcp" /\ ~j.listed
        <4>1. j \in Jobs
          BY KeysApart, JobTypes
        <4>2. j.key = m /\ j.listed = FALSE
          BY DEF AddJob, RemoveJob
        <4> QED
          BY <4>1, <4>2, KeysApart
      <3> QED
        BY <2>2, <3>1
    <2>4. SetToSeq(R) \in Seq(R) /\ SetToSeq(A) \in Seq(A)
      BY <2>2, ScanJobs
    <2>5. Bind("tcp", js) /\ UNCHANGED <<phase, adding>>
      BY <1>4 DEF ScanEnds, lifecycle
    <2> HIDE DEF R, A
    <2>6. SetToSeq(R) \in Seq(R \cup A) /\ SetToSeq(A) \in Seq(R \cup A)
      BY <2>4, SeqMonotonic
    <2>7. js \in Seq(R \cup A)
      BY <2>6, ConcatProperties
    <2> HIDE DEF js
    <2>8. js \in Seq(Jobs)
      BY <2>3, <2>7, SeqMonotonic
    <2>9. \A l \in 1 .. Len(js) : js[l] \in R \cup A
      BY <2>7, ElementOfSeq
    <2>10. \A l \in 1 .. Len(js) : HandlerOf(js[l].key) = "tcp" /\ ~js[l].listed
      BY <2>3, <2>9
    <2> QED
      BY <1>2, <1>h, <2>5, <2>8, <2>10
  <1>5. ASSUME NEW h \in Handlers, AddBegins(h) \/ RemoveDevice(h) PROVE WorkInv'
    <2>1. \E op : NextJob(h, op)
      BY <1>5 DEF AddBegins, RemoveDevice
    <2>2. /\ jobs' = [jobs EXCEPT ![h] = Tail(@)]
          /\ adding' = adding \/ adding' = [adding EXCEPT ![h] = Head(jobs[h])]
          /\ UNCHANGED phase
      BY <1>5 DEF AddBegins, RemoveDevice, lifecycle
    <2>3. \A g \in Handlers, j \in Jobs : Work(g, j)' => Work(g, j)
      BY <1>0, <2>1, <2>2, NextWork
    <2> QED
      BY <1>1, <2>2, <2>3
  <1>6. ASSUME NEW h \in Handlers, AddGivesUp(h) \/ AddEnds(h) PROVE WorkInv'
    <2>1. adding[h] # None /\ adding' = [adding EXCEPT ![h] = None] /\ UNCHANGED jobs
      BY <1>6 DEF AddGivesUp, AddEnds, Free
    <2>2. \A g \in Handlers, j \in Jobs : Work(g, j)' => Work(g, j)
      BY <1>0, <2>1, DoneWork
    <2>3. CASE ~adding[h].listed
      <3>1. UNCHANGED phase
        BY <1>6, <2>3 DEF AddGivesUp, AddEnds, Awaited
      <3> QED
        BY <1>1, <2>2, <3>1
    <2>4. CASE adding[h].listed
      <3>1. h = "bt" /\ jobs["bt"] = <<>>
        BY <2>1, <2>4, AddingOfPhase
      <3>2. adding'["bt"] = None /\ jobs'["bt"] = <<>>
        BY <1>0, <2>1, <3>1 DEF JobType
      <3>3. \A j \in Jobs : ~Work("bt", j)'
        BY <3>2, KeysApart, EmptySeq DEF Work
      <3>4. \A g \in Handlers, j \in Jobs : Work(g, j)' => g = "tcp" /\ Work(g, j)
        BY <2>2, <3>3 DEF Handlers
      <3>5. \A j \in Jobs : Work("tcp", j) => HandlerOf(j.key) = "tcp" /\ ~j.listed
        BY <1>0, <1>h DEF WorkInv
      <3> QED
        BY <3>4, <3>5 DEF WorkInv
    <2> QED
      BY <2>3, <2>4
  <1>7. ASSUME NEW a \in Addresses, AddListed(a) PROVE WorkInv'
    <2> DEFINE js == <<AddJob(a, TRUE)>>
    <2>0. AddJob(a, TRUE) \in Jobs
      BY KeysApart, JobTypes
    <2>1. js \in Seq(Jobs) /\ \A i \in 1 .. Len(js) : js[i] = AddJob(a, TRUE)
      <3> HIDE DEF js
      <3> DEFINE j == AddJob(a, TRUE)
      <3>1. js = <<j>> /\ j \in Jobs
        BY <2>0 DEF js
      <3> HIDE DEF j
      <3>2. js \in Seq(Jobs) /\ \A i \in 1 .. Len(js) : js[i] = j
        BY <3>1, OneJob
      <3> QED
        BY <3>2 DEF j
    <2>2. Bind("bt", js) /\ UNCHANGED adding /\ phase' = "listed"
      BY <1>7 DEF AddListed
    <2>3. \A i \in 1 .. Len(js) : HandlerOf(js[i].key) = "bt"
      BY <2>1, KeysApart DEF AddJob
    <2> HIDE DEF js
    <2> QED
      BY <1>2, <1>h, <2>1, <2>2, <2>3
  <1>8. ASSUME UNCHANGED <<jobs, adding>>,
               UNCHANGED phase \/ (phase # "listed" /\ phase' # "listed")
        PROVE  WorkInv'
    BY <1>1, <1>8 DEF Work
  <1>9. CASE (\E m \in Macs : HostChanges(m)) \/ (\E a \in Addresses : NewConnection(a))
             \/ (\E k \in Keys : UserConnects(k)) \/ TransportEnds \/ Quit \/ ScanStarts
    BY <1>8, <1>9 DEF HostChanges, NewConnection, UserConnects, TransportEnds, Quit,
       StopBegins, StopReturns, ScanStarts, handlers, lifecycle
  <1>10. CASE Serve
    <2>1. ~ServeStop => UNCHANGED phase
      BY <1>10 DEF Serve, ServeAdd, ServeRemove, ServeConnect, ServeSelfConnect,
         ServeDisconnect, Connects, SetUp, lifecycle
    <2>2. UNCHANGED <<jobs, adding>>
      BY <1>10 DEF Serve, ServeAdd, ServeRemove, ServeConnect, ServeSelfConnect,
         ServeDisconnect, ServeStop, Connects, SetUp, Asked, handlers
    <2>3. CASE ServeStop
      <3>1. Stops(1)
        BY <1>0, <2>3, AskedType DEF ServeStop, Stops
      <3> QED
        BY <1>8, <2>2, <2>3, <3>1 DEF ServeStop, LifeInv, StopInv
    <2> QED
      BY <1>8, <2>1, <2>2, <2>3
  <1>11. CASE \/ BuildHandlers \/ StartScan \/ RegisterProfile \/ StartDiscovery
              \/ Listen \/ InitServices \/ StopScan \/ StopDiscovery
              \/ UnregisterProfile \/ Exit
    BY <1>8, <1>11 DEF BuildHandlers, StartScan, RegisterProfile, StartDiscovery,
       Listen, InitServices, StopScan, StopDiscovery, UnregisterProfile, Exit,
       Rest, handlers, lifecycle
  <1>12. CASE UNCHANGED vars
    BY <1>8, <1>12 DEF vars, handlers, lifecycle
  <1> QED
    BY <1>3, <1>4, <1>5, <1>6, <1>7, <1>9, <1>10, <1>11, <1>12
       DEF LifeInv, Next, Environment, ScanEnded, Handle, Advance

\* The requests of stop() after another was asked for ...
LEMMA AskStops ==
    ASSUME DeviceType, NEW r \in Requests, Ask(<<r>>), NEW i, Stops(i)'
    PROVE  Stops(i) \/ (i = Len(requests) + 1 /\ r.op = "stop")
  <1>1. /\ Len(requests) \in Nat
        /\ Len(requests') = Len(requests) + 1
        /\ \A l \in 1 .. Len(requests) : requests'[l] = requests[l]
        /\ requests'[Len(requests')] = r
    BY AskOneType
  <1> QED
    BY <1>1 DEF Stops

\* ... and after one was served.
LEMMA ServedStops ==
    ASSUME DeviceType, NEW op, Asked(op), NEW i, Stops(i)'
    PROVE  i + 1 \in Nat /\ i \in Nat \ {0} /\ Stops(i + 1)
  <1>1. /\ Len(requests') = Len(requests) - 1
        /\ Len(requests) \in Nat \ {0}
        /\ \A l \in 1 .. Len(requests') : requests'[l] = requests[l + 1]
    BY AskedType
  <1> QED
    BY <1>1 DEF Stops

LEMMA StopInvStep == LifeInv /\ [Next]_vars => StopInv'
  <1> SUFFICES ASSUME LifeInv, [Next]_vars PROVE StopInv'
    OBVIOUS
  <1>0. JobType /\ LifeType /\ DeviceType /\ StopInv
    BY DEF LifeInv, Types
  <1>1. ASSUME UNCHANGED requests, UNCHANGED phase \/ phase # "disconnect"
        PROVE  StopInv'
    BY <1>0, <1>1 DEF StopInv, Stops
  <1>2. ASSUME NEW r \in Requests, Ask(<<r>>), r.op # "stop",
               UNCHANGED phase \/ phase # "disconnect"
        PROVE  StopInv'
    <2>1. \A i : Stops(i)' => Stops(i)
      BY <1>0, <1>2, AskStops
    <2> QED
      BY <1>0, <1>2, <2>1 DEF StopInv
  <1>3. ASSUME NEW h \in Handlers, AddEnds(h) PROVE StopInv'
    <2> DEFINE k == adding[h].key
    <2>1. PICK d \in Devices : Ask(IF HookThrows(k) THEN <<>> ELSE <<Request("add", d)>>)
      BY <1>3, AddEndsType DEF LifeInv
    <2>2. UNCHANGED phase \/ phase # "disconnect"
      <3>1. adding[h] # None
        BY <1>3 DEF AddEnds, Free
      <3>2. adding[h].listed => phase = "listed"
        BY <3>1, AddingOfPhase
      <3> QED
        BY <1>3, <3>2 DEF AddEnds, Awaited
    <2> HIDE DEF k
    <2> DEFINE r == Request("add", d)
    <2>3. r \in Requests /\ r.op = "add"
      BY RequestType DEF Ops
    <2>4. CASE HookThrows(k)
      BY <1>0, <1>1, <2>1, <2>2, <2>4, AskNothing
    <2>5. CASE ~HookThrows(k)
      <3>1. Ask(<<r>>)
        BY <2>1, <2>5
      <3> HIDE DEF r
      <3> QED
        BY <1>2, <2>2, <2>3, <3>1
    <2> QED
      BY <2>4, <2>5
  <1>4. ASSUME NEW h \in Handlers, RemoveDevice(h) PROVE StopInv'
    <2> DEFINE k == Head(jobs[h]).key
               d == deviceMap[k]
               throws == k \in Addresses /\ profile[k] # d
    <2>1. /\ Ask(IF d = None \/ throws THEN <<>> ELSE <<Request("remove", d)>>)
          /\ d # None => d \in Devices
      BY <1>4, RemoveDeviceType DEF LifeInv
    <2>2. UNCHANGED phase
      BY <1>4 DEF RemoveDevice, lifecycle
    <2> HIDE DEF d, throws
    <2> DEFINE r == Request("remove", d)
    <2>3. CASE d = None \/ throws
      BY <1>0, <1>1, <2>1, <2>2, <2>3, AskNothing
    <2>4. CASE ~(d = None \/ throws)
      <3>1. r \in Requests /\ r.op = "remove" /\ Ask(<<r>>)
        BY <2>1, <2>4, RequestType DEF Ops
      <3> HIDE DEF r
      <3> QED
        BY <1>2, <2>2, <3>1
    <2> QED
      BY <2>3, <2>4
  <1>5. ASSUME NEW k \in Keys, UserConnects(k) PROVE StopInv'
    <2> DEFINE r == Request("connect", nameMap[k])
    <2>1. r \in Requests /\ r.op = "connect" /\ Ask(<<r>>) /\ UNCHANGED phase
      BY <1>0, <1>5, RequestType DEF UserConnects, DeviceType, MaybeDevice, Ops, lifecycle
    <2> HIDE DEF r
    <2> QED
      BY <1>2, <2>1
  <1>6. ASSUME NEW a \in Addresses, NewConnection(a) PROVE StopInv'
    <2> DEFINE r == Request("selfConnect", profile[a])
    <2>1. r \in Requests /\ r.op = "selfConnect" /\ Ask(<<r>>) /\ UNCHANGED phase
      BY <1>0, <1>6, RequestType DEF NewConnection, DeviceType, MaybeDevice, Ops, lifecycle
    <2> HIDE DEF r
    <2> QED
      BY <1>2, <2>1
  <1>7. CASE TransportEnds
    <2> DEFINE r == Request("disconnect", connected)
    <2>1. r \in Requests /\ r.op = "disconnect" /\ Ask(<<r>>) /\ UNCHANGED phase
      BY <1>0, <1>7, RequestType DEF TransportEnds, DeviceType, MaybeDevice, Ops, lifecycle
    <2> HIDE DEF r
    <2> QED
      BY <1>2, <2>1
  <1>8. CASE Quit
    <2>1. CASE UNCHANGED requests
      BY <1>1, <1>8, <2>1 DEF Quit, StopBegins, StopReturns
    <2>2. CASE phase = "started" /\ phase' = "disconnect" /\ connected # None
               /\ Ask(<<Request("stop", connected)>>)
      <3> DEFINE r == Request("stop", connected)
      <3>1. r \in Requests /\ Ask(<<r>>)
        BY <1>0, <2>2, RequestType DEF DeviceType, MaybeDevice, Ops
      <3> HIDE DEF r
      <3>2. \A i : Stops(i)' => Stops(i) \/ i = Len(requests) + 1
        BY <1>0, <3>1, AskStops
      <3>3. \A i : ~Stops(i)
        BY <1>0, <2>2 DEF StopInv
      <3> QED
        BY <2>2, <3>2, <3>3 DEF StopInv
    <2> QED
      BY <1>8, <2>1, <2>2 DEF Quit, StopBegins, StopReturns
  <1>9. CASE Serve
    <2>1. CASE Connects \/ SetUp
      BY <1>1, <2>1 DEF Connects, SetUp, lifecycle
    <2>2. CASE ServeAdd \/ ServeRemove \/ ServeConnect \/ ServeSelfConnect \/ ServeDisconnect
      <3>1. PICK op : Asked(op)
        BY <2>2 DEF ServeAdd, ServeRemove, ServeConnect, ServeSelfConnect, ServeDisconnect
      <3>2. UNCHANGED phase
        BY <2>2 DEF ServeAdd, ServeRemove, ServeConnect, ServeSelfConnect, ServeDisconnect
      <3>3. \A i : Stops(i)' => i \in Nat /\ Stops(i + 1)
        BY <1>0, <3>1, ServedStops
      <3>4. \A i, j : Stops(i)' /\ Stops(j)' => i + 1 = j + 1 /\ phase = "disconnect"
        BY <1>0, <3>3 DEF StopInv
      <3> QED
        BY <3>2, <3>3, <3>4 DEF StopInv
    <2>3. CASE ServeStop
      <3>1. Stops(1)
        BY <1>0, <2>3, AskedType DEF ServeStop, Stops
      <3>2. \A i : Stops(i)' => i \in Nat \ {0} /\ Stops(i + 1)
        BY <1>0, <2>3, ServedStops DEF ServeStop
      <3>3. \A i : ~Stops(i)'
        BY <1>0, <3>1, <3>2 DEF StopInv
      <3> QED
        BY <3>3 DEF StopInv
    <2> QED
      BY <1>9, <2>1, <2>2, <2>3 DEF Serve
  <1>10. CASE (\E m \in Macs : HostChanges(m)) \/ (\E a \in Addresses : BluezChanges(a))
              \/ ScanStarts \/ ScanEnded
    BY <1>1, <1>10 DEF HostChanges, BluezChanges, ScanStarts, ScanEnded, ScanEnds,
       lifecycle, server
  <1>11. ASSUME NEW h \in Handlers, AddBegins(h) PROVE StopInv'
    BY <1>1, <1>11 DEF AddBegins, lifecycle, server
  <1>12. ASSUME NEW h \in Handlers, AddGivesUp(h) PROVE StopInv'
    <2>1. adding[h] # None
      BY <1>12 DEF AddGivesUp, Free
    <2>2. adding[h].listed => phase = "listed"
      BY <2>1, AddingOfPhase
    <2> QED
      BY <1>1, <1>12, <2>2 DEF AddGivesUp, Awaited, server
  <1>13. CASE Advance
    BY <1>1, <1>13 DEF Advance, BuildHandlers, StartScan, RegisterProfile, StartDiscovery,
       AddListed, Listen, InitServices, StopScan, StopDiscovery, UnregisterProfile, Exit,
       server, lifecycle
  <1>14. CASE UNCHANGED vars
    BY <1>1, <1>14 DEF vars, lifecycle, server
  <1> QED
    BY <1>3, <1>4, <1>5, <1>6, <1>7, <1>8, <1>9, <1>10, <1>11, <1>12, <1>13, <1>14
       DEF Next, Environment, Handle

LEMMA PhaseStep == LifeInv /\ [Next]_vars => PhaseInv'
  <1> SUFFICES ASSUME LifeInv, [Next]_vars PROVE PhaseInv'
    OBVIOUS
  <1>0. JobType /\ LifeType /\ DeviceType /\ WorkInv /\ PhaseInv /\ StopInv
    BY DEF LifeInv, Types
  <1>h. "bt" \in Handlers /\ "tcp" \in Handlers /\ \A h \in Handlers : h \in {"bt", "tcp"}
    BY DEF Handlers
  <1>1. ASSUME UNCHANGED <<phase, scanning, listening, deviceMap, profile>>,
               jobs'["bt"] = jobs["bt"], adding'["bt"] = adding["bt"]
        PROVE  PhaseInv'
    BY <1>0, <1>1 DEF PhaseInv
  <1>2. ASSUME NEW a \in Addresses, BluezChanges(a) PROVE PhaseInv'
    <2>1. UNCHANGED <<phase, scanning, listening, deviceMap, profile, adding>>
      BY <1>2 DEF BluezChanges, lifecycle
    <2>2. CASE listening
      BY <1>0, <2>1, <2>2 DEF PhaseInv, Unlisted
    <2>3. CASE ~listening
      <3>1. Bind("bt", <<>>) /\ <<>> \in Seq(Jobs) /\ jobs["bt"] \in Seq(Jobs)
        BY <1>0, <1>2, <1>h, <2>3, EmptySeq DEF BluezChanges, JobType
      <3>2. jobs'["bt"] = jobs["bt"]
        BY <1>0, <1>h, <3>1, BindType, ConcatEmptySeq
      <3> QED
        BY <1>1, <2>1, <3>2
    <2> QED
      BY <2>2, <2>3
  <1>3. CASE ScanEnded
    <2>1. PICK i \in DOMAIN scans : ScanEnds(i)
      BY <1>3 DEF ScanEnded
    <2>2. /\ UNCHANGED <<phase, scanning, listening, deviceMap, profile, adding>>
          /\ \E js : Bind("tcp", js)
      BY <2>1 DEF ScanEnds, lifecycle
    <2>3. jobs'["bt"] = jobs["bt"]
      BY <1>0, <1>h, <2>2 DEF Bind, JobType
    <2> QED
      BY <1>1, <2>2, <2>3
  <1>4. ASSUME NEW h \in Handlers, AddBegins(h) PROVE PhaseInv'
    <2>1. /\ UNCHANGED <<phase, scanning, listening, deviceMap, profile>>
          /\ jobs' = [jobs EXCEPT ![h] = Tail(@)]
          /\ adding' = [adding EXCEPT ![h] = Head(jobs[h])]
      BY <1>4 DEF AddBegins, lifecycle
    <2>2. CASE h = "tcp"
      BY <1>0, <1>1, <1>h, <2>1, <2>2 DEF JobType
    <2>3. CASE h = "bt"
      <3>1. /\ jobs["bt"] # <<>> /\ Len(jobs["bt"]) \in Nat \ {0}
            /\ Tail(jobs["bt"]) \in Seq(Jobs)
            /\ Len(Tail(jobs["bt"])) = Len(jobs["bt"]) - 1
        BY <1>0, <1>4, <2>3, NextJobType DEF AddBegins, NextJob
      <3>2. jobs'["bt"] = Tail(jobs["bt"])
        BY <1>0, <1>h, <2>1, <2>3 DEF JobType
      <3>3. phase = "listed" => jobs'["bt"] = <<>>
        <4>1. phase = "listed" => Len(Tail(jobs["bt"])) = 0
          BY <1>0, <3>1 DEF PhaseInv
        <4> QED
          BY <3>1, <3>2, <4>1, EmptySeq
      <3> QED
        BY <1>0, <2>1, <3>1, <3>3 DEF PhaseInv, Unlisted
    <2> QED
      BY <1>h, <2>2, <2>3
  <1>5. ASSUME NEW h \in Handlers, AddGivesUp(h) \/ AddEnds(h) PROVE PhaseInv'
    <2>1. /\ adding[h] # None /\ adding' = [adding EXCEPT ![h] = None]
          /\ UNCHANGED <<jobs, scanning, listening>>
          /\ \E throws : Awaited(adding[h], throws)
      BY <1>5 DEF AddGivesUp, AddEnds, Free
    <2>2. HandlerOf(adding[h].key) = h /\ adding[h].key \in Keys
      BY <2>1, AddingOfPhase, JobTypes
    <2>3. CASE h = "tcp"
      <3>1. UNCHANGED phase
        BY <2>1, <2>3, AddingOfPhase DEF Awaited
      <3>2. adding'["bt"] = adding["bt"]
        BY <1>0, <1>h, <2>1, <2>3 DEF JobType
      <3>3. \A a \in Addresses : deviceMap'[a] = deviceMap[a] /\ profile'[a] = profile[a]
        <4>1. CASE AddGivesUp(h)
          BY <4>1 DEF AddGivesUp
        <4>2. CASE AddEnds(h)
          <5>1. \A a \in Addresses : a \in Keys /\ a # adding[h].key
            BY <2>2, <2>3, KeysApart
          <5> QED
            BY <1>0, <4>2, <5>1, AddEndsType DEF LifeInv, DeviceType
        <4> QED
          BY <1>5, <4>1, <4>2
      <3> QED
        BY <1>0, <2>1, <3>1, <3>2, <3>3 DEF PhaseInv, Unlisted
    <2>4. CASE h = "bt"
      <3>1. phase \notin Unlisted \cup {"list"}
        BY <1>0, <2>1, <2>4 DEF PhaseInv
      <3>2. adding'["bt"] = None
        BY <1>0, <1>h, <2>1, <2>4 DEF JobType
      <3>3. CASE UNCHANGED phase
        BY <1>0, <2>1, <3>1, <3>2, <3>3 DEF PhaseInv
      <3>4. CASE phase' # phase
        <4>1. adding[h].listed /\ phase' \in {"list", "init"}
          BY <2>1, <3>4 DEF Awaited
        <4>2. phase = "listed" /\ jobs["bt"] = <<>>
          BY <2>1, <4>1, AddingOfPhase
        <4> QED
          BY <1>0, <2>1, <3>2, <4>1, <4>2 DEF PhaseInv, Unlisted
      <3> QED
        BY <3>3, <3>4
    <2> QED
      BY <1>h, <2>3, <2>4
  <1>6. ASSUME NEW h \in Handlers, RemoveDevice(h) PROVE PhaseInv'
    <2> DEFINE k == Head(jobs[h]).key
    <2>1. /\ UNCHANGED <<phase, scanning, listening, adding>>
          /\ jobs' = [jobs EXCEPT ![h] = Tail(@)]
      BY <1>6 DEF RemoveDevice, lifecycle
    <2>2. /\ k \in Keys
          /\ deviceMap' = [deviceMap EXCEPT ![k] = None]
          /\ profile' \in {profile, [profile EXCEPT ![k] = None]}
      BY <1>6, RemoveDeviceType DEF LifeInv
    <2>3. \A a \in Addresses : /\ deviceMap[a] = None => deviceMap'[a] = None
                               /\ profile[a] = None => profile'[a] = None
      <3> HIDE DEF k
      <3> QED
        BY <1>0, <2>2, KeysApart DEF DeviceType
    <2>4. CASE h = "tcp"
      <3>1. jobs'["bt"] = jobs["bt"]
        BY <1>0, <1>h, <2>1, <2>4 DEF JobType
      <3> QED
        BY <1>0, <2>1, <2>3, <3>1 DEF PhaseInv
    <2>5. CASE h = "bt"
      <3>1. /\ jobs["bt"] # <<>> /\ Len(jobs["bt"]) \in Nat \ {0}
            /\ Tail(jobs["bt"]) \in Seq(Jobs)
            /\ Len(Tail(jobs["bt"])) = Len(jobs["bt"]) - 1
        BY <1>0, <1>6, <2>5, NextJobType DEF RemoveDevice, NextJob
      <3>2. jobs'["bt"] = Tail(jobs["bt"])
        BY <1>0, <1>h, <2>1, <2>5 DEF JobType
      <3>3. phase = "listed" => jobs'["bt"] = <<>>
        <4>1. phase = "listed" => Len(Tail(jobs["bt"])) = 0
          BY <1>0, <3>1 DEF PhaseInv
        <4> QED
          BY <3>1, <3>2, <4>1, EmptySeq
      <3> QED
        BY <1>0, <2>1, <3>1, <3>3 DEF PhaseInv, Unlisted
    <2> QED
      BY <1>h, <2>4, <2>5
  <1>7. ASSUME NEW a \in Addresses, AddListed(a) PROVE PhaseInv'
    <2>1. /\ phase = "list" /\ phase' = "listed"
          /\ UNCHANGED <<scanning, listening, adding>>
          /\ Bind("bt", <<AddJob(a, TRUE)>>)
      BY <1>7 DEF AddListed
    <2>2. jobs["bt"] = <<>> /\ adding["bt"] = None /\ ~listening
      BY <1>0, <2>1 DEF PhaseInv
    <2>3. jobs'["bt"] = <<AddJob(a, TRUE)>>
      <3> DEFINE j == AddJob(a, TRUE)
      <3>1. j \in Jobs /\ Bind("bt", <<j>>)
        BY <2>1, KeysApart, JobTypes
      <3> HIDE DEF j
      <3>2. <<j>> \in Seq(Jobs)
        BY <3>1, OneJob
      <3>3. jobs'["bt"] = <<>> \o <<j>>
        BY <1>0, <1>h, <2>2, <3>1, <3>2, BindType
      <3>4. jobs'["bt"] = <<j>>
        BY <3>2, <3>3, ConcatEmptySeq
      <3> QED
        BY <3>4 DEF j
    <2>4. Len(jobs'["bt"]) = 1
      BY <2>3
    <2> QED
      BY <1>0, <2>1, <2>2, <2>4 DEF PhaseInv, Unlisted
  <1>8. CASE (\E m \in Macs : HostChanges(m)) \/ (\E a \in Addresses : NewConnection(a))
             \/ (\E k \in Keys : UserConnects(k)) \/ TransportEnds \/ ScanStarts
    BY <1>1, <1>8 DEF HostChanges, NewConnection, UserConnects, TransportEnds,
       ScanStarts, handlers, lifecycle
  <1>9. CASE Quit
    <2>1. UNCHANGED <<scanning, listening, deviceMap, profile, jobs, adding>>
      BY <1>9 DEF Quit, handlers
    <2>2. UNCHANGED phase \/ (phase = "started" /\ phase' \in {"disconnect", "stopScan"})
      BY <1>9 DEF Quit, StopBegins, StopReturns
    <2> QED
      BY <1>0, <2>1, <2>2 DEF PhaseInv, Unlisted
  <1>10. CASE Serve
    <2>1. UNCHANGED <<scanning, listening, deviceMap, profile, jobs, adding>>
      BY <1>10 DEF Serve, ServeAdd, ServeRemove, ServeConnect, ServeSelfConnect,
         ServeDisconnect, ServeStop, Connects, SetUp, Asked, handlers
    <2>2. ~ServeStop => UNCHANGED phase
      BY <1>10 DEF Serve, ServeAdd, ServeRemove, ServeConnect, ServeSelfConnect,
         ServeDisconnect, Connects, SetUp, lifecycle
    <2>3. CASE ServeStop
      <3>1. Stops(1)
        BY <1>0, <2>3, AskedType DEF ServeStop, Stops
      <3>2. phase = "disconnect" /\ phase' = "stopScan"
        BY <1>0, <2>3, <3>1 DEF ServeStop, StopInv
      <3> QED
        BY <1>0, <2>1, <3>2 DEF PhaseInv, Unlisted
    <2> QED
      BY <1>1, <2>1, <2>2, <2>3
  <1>11. CASE BuildHandlers \/ StartScan \/ RegisterProfile \/ StartDiscovery
    BY <1>0, <1>11 DEF BuildHandlers, StartScan, RegisterProfile, StartDiscovery,
       PhaseInv, Unlisted, Rest, handlers
  <1>12. CASE \/ Listen \/ InitServices \/ StopScan \/ StopDiscovery
              \/ UnregisterProfile \/ Exit
    <2>1. UNCHANGED <<jobs, adding, deviceMap, profile>>
      BY <1>12 DEF Listen, InitServices, StopScan, StopDiscovery, UnregisterProfile,
         Exit, Rest, handlers
    <2>2. CASE Listen \/ InitServices
      BY <1>0, <2>1, <2>2 DEF Listen, InitServices, PhaseInv, Unlisted
    <2>3. CASE StopScan \/ StopDiscovery
      BY <1>0, <2>1, <2>3 DEF StopScan, StopDiscovery, PhaseInv, Unlisted
    <2>4. CASE UnregisterProfile
      BY <1>0, <2>1, <2>4 DEF UnregisterProfile, PhaseInv, Unlisted
    <2>5. CASE Exit
      BY <1>1, <2>1, <2>5 DEF Exit, handlers, lifecycle
    <2> QED
      BY <1>12, <2>2, <2>3, <2>4, <2>5
  <1>13. CASE UNCHANGED vars
    BY <1>1, <1>13 DEF vars, handlers, lifecycle
  <1> QED
    BY <1>2, <1>3, <1>4, <1>5, <1>6, <1>7, <1>8, <1>9, <1>10, <1>11, <1>12, <1>13
       DEF Next, Environment, Handle, Advance

LEMMA LifeInvAlways == Spec => []LifeInv
  <1>1. Init => LifeInv
    BY TypesInit, LifeInit, EmptySeq DEF LifeInv, StopInv, Stops, Init
  <1>2. LifeInv /\ [Next]_vars => LifeInv'
    BY TypesStep, WorkStep, PhaseStep, StopInvStep DEF LifeInv
  <1> QED
    BY <1>1, <1>2, PTL DEF Spec

-----------------------------------------------------------------------------
(***************************************************************************)
(* The end of the program.  stop() disconnects the device that is          *)
(* connected when it is called; that nothing is connected when it is done  *)
(* takes that nothing can connect in between, unless a request was there   *)
(* that it did not see, or one came later:                                 *)
(*  - a session that is being set up is that of the connected device;      *)
(*  - the device that stop() asks to disconnect stays the connected one    *)
(*    until it is disconnected;                                            *)
(*  - while the server stops, nobody is on the way to being connected.     *)
(***************************************************************************)
Quitting == Stopping \cup {"stopped"}

Wants == \E i \in 1 .. Len(requests) : requests[i].op \in {"connect", "selfConnect"}

QuitInv ==
    /\ serving.step = "start" => connected = serving.dev
    /\ ~late => \A i : Stops(i) => connected \in {None, requests[i].dev}
    /\ phase \in Quitting /\ ~late => serving.step # "connect" /\ ~Wants
    /\ phase \in Quitting \ {"disconnect"} /\ ~late => connected = None
    /\ exited /\ ~hurried => phase \in {"stopped", "failed"}

\* What is asked for adds nothing but itself to what was ...
LEMMA AskWants ==
    ASSUME DeviceType, NEW r \in Requests, Ask(<<r>>)
    PROVE  /\ Wants' => Wants \/ r.op \in {"connect", "selfConnect"}
           /\ \A i : Stops(i)' => \/ Stops(i) /\ requests'[i] = requests[i]
                                  \/ requests'[i] = r /\ r.op = "stop"
  <1>1. /\ Len(requests) \in Nat
        /\ Len(requests') = Len(requests) + 1
        /\ \A l \in 1 .. Len(requests) : requests'[l] = requests[l]
        /\ requests'[Len(requests')] = r
    BY AskOneType
  <1>2. \A i \in 1 .. Len(requests') : i \in 1 .. Len(requests) \/ i = Len(requests')
    BY <1>1
  <1> QED
    BY <1>1, <1>2 DEF Wants, Stops

\* ... and what is served is taken off it.
LEMMA ServedWants ==
    ASSUME DeviceType, NEW op, Asked(op)
    PROVE  /\ Wants' => Wants
           /\ op \in {"connect", "selfConnect"} => Wants
           /\ \A i : Stops(i)' => Stops(i + 1) /\ requests'[i] = requests[i + 1]
           /\ op = "stop" => Stops(1)
  <1>1. /\ Len(requests') = Len(requests) - 1
        /\ Len(requests) \in Nat \ {0}
        /\ \A l \in 1 .. Len(requests') : requests'[l] = requests[l + 1]
        /\ requests[1].op = op
    BY AskedType
  <1>2. \A i \in 1 .. Len(requests') : i + 1 \in 1 .. Len(requests)
    BY <1>1
  <1>3. 1 \in 1 .. Len(requests)
    BY <1>1
  <1> QED
    BY <1>1, <1>2, <1>3 DEF Wants, Stops

LEMMA UnseenIs == DeviceType => (Unseen <=> serving.step = "connect" \/ Wants)
  BY LenProperties DEF DeviceType, Unseen, Wants

\* The steps that have nothing to do with a connection.
LEMMA QuitKept ==
    ASSUME QuitInv, ~exited, UNCHANGED <<serving, connected, late, exited>>,
           phase' \in Quitting => phase \in Quitting,
           phase' \in Quitting \ {"disconnect"} => phase \in Quitting \ {"disconnect"},
           Wants' => Wants,
           \A i : Stops(i)' => Stops(i) /\ requests'[i] = requests[i]
    PROVE  QuitInv'
  BY DEF QuitInv

\* A request to connect that comes while the server stops is a late one.
LEMMA QuitLate ==
    ASSUME LifeInv, QuitInv, ~exited, UNCHANGED <<serving, connected, phase, exited>>,
           late' = (late \/ Unaware),
           NEW r \in Requests, r.op # "stop", Ask(<<r>>)
    PROVE  QuitInv'
  <1>1. DeviceType /\ StopInv /\ LifeType
    BY DEF LifeInv, Types
  <1>2. ~late' => ~late /\ phase \notin Quitting
    <2>1. ~late' <=> ~late /\ ~Unaware
      OBVIOUS
    <2> QED
      BY <2>1 DEF Unaware, Quitting
  <1>3. \A i : Stops(i)' => Stops(i) /\ requests'[i] = requests[i]
    BY <1>1, AskWants
  <1> QED
    BY <1>2, <1>3 DEF QuitInv

\* Nothing asks for a connection, nor does a server that serves what was asked.
LEMMA QuitServe == LifeInv /\ QuitInv /\ ~exited /\ Serve => QuitInv'
  <1> SUFFICES ASSUME LifeInv, QuitInv, ~exited, Serve PROVE QuitInv'
    OBVIOUS
  <1>1. DeviceType /\ StopInv /\ LifeType
    BY DEF LifeInv, Types
  <1>2. UNCHANGED <<late, exited, hurried>>
    BY DEF Serve, ServeAdd, ServeRemove, ServeConnect, ServeSelfConnect,
       ServeDisconnect, ServeStop, Connects, SetUp, Asked, history
  <1>3. ~ServeStop => UNCHANGED phase
    BY DEF Serve, ServeAdd, ServeRemove, ServeConnect, ServeSelfConnect,
       ServeDisconnect, Connects, SetUp, lifecycle
  <1>4. \A i : Stops(i) => phase = "disconnect"
    BY <1>1 DEF StopInv
  <1>5. CASE ServeAdd \/ ServeRemove
    <2>1. /\ Wants' => Wants
          /\ \A i : Stops(i)' => Stops(i + 1) /\ requests'[i] = requests[i + 1]
          /\ UNCHANGED <<serving, connected, phase>>
      BY <1>1, <1>5, ServedWants DEF ServeAdd, ServeRemove
    <2> QED
      BY <1>2, <2>1 DEF QuitInv
  <1>6. CASE ServeConnect
    <2>1. /\ Wants
          /\ \A i : Stops(i)' => Stops(i + 1)
          /\ connected' = None /\ serving'.step = "connect" /\ UNCHANGED phase
      BY <1>1, <1>6, ServedWants DEF ServeConnect
    <2> QED
      BY <1>2, <2>1 DEF QuitInv
  <1>7. CASE ServeSelfConnect
    <2>1. /\ Wants
          /\ \A i : Stops(i)' => Stops(i + 1) /\ requests'[i] = requests[i + 1]
          /\ serving = NotServing /\ UNCHANGED phase
          /\ serving' = serving \/ serving'.step = "connect"
          /\ connected' \in {connected, None}
      BY <1>1, <1>7, ServedWants, AskedType DEF ServeSelfConnect, Ending
    <2> QED
      BY <1>2, <2>1 DEF QuitInv, NotServing
  <1>8. CASE ServeDisconnect
    <2>1. /\ Wants' => Wants
          /\ \A i : Stops(i)' => Stops(i + 1) /\ requests'[i] = requests[i + 1]
          /\ serving = NotServing /\ UNCHANGED <<phase, serving>>
          /\ connected' \in {connected, None}
      BY <1>1, <1>8, ServedWants, AskedType DEF ServeDisconnect, Ending
    <2> QED
      BY <1>2, <2>1 DEF QuitInv, NotServing
  <1>9. CASE ServeStop
    <2>1. /\ Wants' => Wants
          /\ \A i : Stops(i)' => i \in Nat \ {0} /\ Stops(i + 1)
          /\ Stops(1) /\ requests[1] = Head(requests)
          /\ serving = NotServing /\ UNCHANGED serving
          /\ connected' = IF connected = requests[1].dev THEN None ELSE connected
          /\ phase' = "stopScan"
      BY <1>1, <1>9, ServedWants, ServedStops, AskedType DEF ServeStop, Ending, Subject
    <2>2. \A i : ~Stops(i)'
      BY <1>1, <2>1 DEF StopInv
    <2>3. phase = "disconnect"
      BY <1>4, <2>1
    <2>4. ~late => connected' = None
      BY <2>1 DEF QuitInv
    <2> QED
      BY <1>2, <2>1, <2>2, <2>3, <2>4 DEF QuitInv, Quitting, Stopping, NotServing
  <1>10. CASE Connects
    <2>1. /\ serving.step = "connect" /\ UNCHANGED <<requests, phase>>
          /\ \/ connected' = serving.dev /\ serving' = [serving EXCEPT !.step = "start"]
             \/ UNCHANGED connected /\ serving' = NotServing
      BY <1>10 DEF Connects, lifecycle
    <2>2. serving \in [dev : Devices, step : {"connect", "start"}]
      BY <1>1, <2>1 DEF DeviceType, NotServing
    <2>3. serving'.step = "start" => connected' = serving'.dev
      BY <2>1, <2>2 DEF NotServing
    <2>4. phase \in Quitting => late
      BY <2>1 DEF QuitInv
    <2>5. (\E i : Stops(i)') => late
      BY <1>4, <2>1, <2>4 DEF Stops, Quitting, Stopping
    <2> QED
      BY <1>2, <2>1, <2>3, <2>4, <2>5 DEF QuitInv
  <1>11. CASE SetUp
    <2>1. /\ UNCHANGED <<requests, phase>> /\ serving' = NotServing
          /\ connected' \in {connected, None}
      BY <1>11 DEF SetUp, lifecycle
    <2> QED
      BY <1>2, <2>1 DEF QuitInv, NotServing, Stops, Wants
  <1> QED
    BY <1>5, <1>6, <1>7, <1>8, <1>9, <1>10, <1>11 DEF Serve

\* The program ends with the server stopped, scans and listening over, and,
\* unless a request to connect was under way that stop() did not see, with
\* nothing connected or being connected.
THEOREM EndsInOrder == Spec => []OrderlyQuit
  <1>1. Init => QuitInv
    BY EmptySeq DEF Init, QuitInv, NotServing, Stops, Wants, Quitting, Stopping
  <1>2. LifeInv /\ QuitInv /\ [Next]_vars => QuitInv'
    <2> SUFFICES ASSUME LifeInv, QuitInv, [Next]_vars PROVE QuitInv'
      OBVIOUS
    <2>0. DeviceType /\ StopInv /\ LifeType
      BY DEF LifeInv, Types
    <2>1. CASE UNCHANGED vars
      BY <2>1 DEF vars, lifecycle, server, history, QuitInv, Stops, Wants
    <2> SUFFICES ASSUME Next PROVE QuitInv'
      BY <2>1
    <2>e. ~exited
      BY DEF Next
    <2>2. CASE Serve
      BY <2>2, <2>e, QuitServe
    <2>3. ASSUME UNCHANGED <<requests, serving, connected, late, exited>>,
                 phase' \in Quitting => phase \in Quitting,
                 phase' \in Quitting \ {"disconnect"} => phase \in Quitting \ {"disconnect"}
          PROVE  QuitInv'
      BY <2>3, <2>e, QuitKept DEF Stops, Wants
    <2>4. ASSUME NEW r \in Requests, r.op \in {"add", "remove", "disconnect"}, Ask(<<r>>),
                 UNCHANGED <<serving, connected, late, exited>>,
                 UNCHANGED phase \/ phase' \in {"list", "init"}
          PROVE  QuitInv'
      <3>1. Wants' => Wants
        BY <2>0, <2>4, AskWants
      <3>2. \A i : Stops(i)' => Stops(i) /\ requests'[i] = requests[i]
        BY <2>0, <2>4, AskWants
      <3>3. /\ phase' \in Quitting => phase \in Quitting
            /\ phase' \in Quitting \ {"disconnect"} => phase \in Quitting \ {"disconnect"}
        BY <2>4 DEF Quitting, Stopping
      <3> QED
        BY <2>4, <2>e, <3>1, <3>2, <3>3, QuitKept
    <2>5. ASSUME NEW h \in Handlers, AddEnds(h) PROVE QuitInv'
      <3> DEFINE k == adding[h].key
      <3>1. PICK d \in Devices : Ask(IF HookThrows(k) THEN <<>> ELSE <<Request("add", d)>>)
        BY <2>5, AddEndsType DEF LifeInv
      <3>2. /\ UNCHANGED <<serving, connected, late, exited>>
            /\ UNCHANGED phase \/ phase' \in {"list", "init"}
        BY <2>5 DEF AddEnds, Awaited, history
      <3> HIDE DEF k
      <3> DEFINE r == Request("add", d)
      <3>3. CASE HookThrows(k)
        BY <2>0, <2>3, <3>1, <3>2, <3>3, AskNothing DEF Quitting, Stopping
      <3>4. CASE ~HookThrows(k)
        <4>1. r \in Requests /\ r.op = "add" /\ Ask(<<r>>)
          BY <3>1, <3>4, RequestType DEF Ops
        <4> HIDE DEF r
        <4> QED
          BY <2>4, <3>2, <4>1
      <3> QED
        BY <3>3, <3>4
    <2>6. ASSUME NEW h \in Handlers, RemoveDevice(h) PROVE QuitInv'
      <3> DEFINE k == Head(jobs[h]).key
                 d == deviceMap[k]
                 throws == k \in Addresses /\ profile[k] # d
      <3>1. /\ Ask(IF d = None \/ throws THEN <<>> ELSE <<Request("remove", d)>>)
            /\ d # None => d \in Devices
        BY <2>6, RemoveDeviceType DEF LifeInv
      <3>2. UNCHANGED <<serving, connected, late, exited, phase>>
        BY <2>6 DEF RemoveDevice, lifecycle, history
      <3> HIDE DEF d, throws
      <3> DEFINE r == Request("remove", d)
      <3>3. CASE d = None \/ throws
        BY <2>0, <2>3, <3>1, <3>2, <3>3, AskNothing
      <3>4. CASE ~(d = None \/ throws)
        <4>1. r \in Requests /\ r.op = "remove" /\ Ask(<<r>>)
          BY <3>1, <3>4, RequestType DEF Ops
        <4> HIDE DEF r
        <4> QED
          BY <2>4, <3>2, <4>1
      <3> QED
        BY <3>3, <3>4
    <2>7. ASSUME NEW k \in Keys, UserConnects(k) PROVE QuitInv'
      <3> DEFINE r == Request("connect", nameMap[k])
      <3>1. r \in Requests /\ r.op # "stop" /\ Ask(<<r>>)
        BY <2>0, <2>7, RequestType DEF UserConnects, DeviceType, MaybeDevice, Ops
      <3>2. UNCHANGED <<serving, connected, phase, exited>> /\ late' = (late \/ Unaware)
        BY <2>7 DEF UserConnects, lifecycle
      <3> HIDE DEF r
      <3> QED
        BY <2>e, <3>1, <3>2, QuitLate
    <2>8. ASSUME NEW a \in Addresses, NewConnection(a) PROVE QuitInv'
      <3> DEFINE r == Request("selfConnect", profile[a])
      <3>1. r \in Requests /\ r.op # "stop" /\ Ask(<<r>>)
        BY <2>0, <2>8, RequestType DEF NewConnection, DeviceType, MaybeDevice, Ops
      <3>2. UNCHANGED <<serving, connected, phase, exited>> /\ late' = (late \/ Unaware)
        BY <2>8 DEF NewConnection, lifecycle
      <3> HIDE DEF r
      <3> QED
        BY <2>e, <3>1, <3>2, QuitLate
    <2>9. CASE TransportEnds
      <3> DEFINE r == Request("disconnect", connected)
      <3>1. r \in Requests /\ r.op = "disconnect" /\ Ask(<<r>>)
        BY <2>0, <2>9, RequestType DEF TransportEnds, DeviceType, MaybeDevice, Ops
      <3>2. UNCHANGED <<serving, connected, late, exited, phase>>
        BY <2>9 DEF TransportEnds, lifecycle, history
      <3> HIDE DEF r
      <3> QED
        BY <2>4, <3>1, <3>2
    <2>10. CASE Quit
      <3>0. UNCHANGED <<serving, connected>>
        BY <2>10 DEF Quit
      <3>1. CASE phase = "started" /\ StopBegins
        <4>1. late' = (late \/ Unseen) /\ UNCHANGED exited
          BY <3>1 DEF StopBegins
        <4>2. ~late' => ~late /\ serving.step # "connect" /\ ~Wants
          <5>1. ~late' <=> ~late /\ ~Unseen
            BY <4>1
          <5> QED
            BY <2>0, <5>1, UnseenIs
        <4>3. \A i : ~Stops(i)
          BY <2>0, <3>1 DEF StopInv
        <4>4. CASE connected # None
          <5> DEFINE r == Request("stop", connected)
          <5>1. /\ r \in Requests /\ r.op = "stop" /\ r.dev = connected /\ Ask(<<r>>)
                /\ phase' = "disconnect"
            BY <2>0, <3>1, <4>4, RequestType DEF StopBegins, DeviceType, MaybeDevice, Ops
          <5> HIDE DEF r
          <5>2. (Wants' => Wants) /\ \A i : Stops(i)' => requests'[i] = r
            BY <2>0, <4>3, <5>1, AskWants
          <5> QED
            BY <2>e, <3>0, <4>1, <4>2, <5>1, <5>2 DEF QuitInv
        <4>5. CASE connected = None
          <5>1. phase' = "stopScan" /\ UNCHANGED requests
            BY <3>1, <4>5 DEF StopBegins
          <5>2. \A i : ~Stops(i)'
            BY <4>3, <5>1 DEF Stops
          <5>3. Wants' => Wants
            BY <5>1 DEF Wants
          <5> QED
            BY <2>e, <3>0, <4>1, <4>2, <4>5, <5>1, <5>2, <5>3 DEF QuitInv
        <4> QED
          BY <4>4, <4>5
      <3>2. CASE phase # "started" /\ StopReturns
        <4>1. /\ UNCHANGED <<phase, requests, late>>
              /\ ~hurried' => phase \notin Starting \cup Stopping
          BY <3>2 DEF StopReturns
        <4>2. ~hurried' => phase \in {"stopped", "failed"}
          BY <2>0, <3>2, <4>1 DEF LifeType, Phases
        <4> QED
          BY <3>0, <4>1, <4>2 DEF QuitInv, Stops, Wants
      <3> QED
        BY <2>10, <3>1, <3>2 DEF Quit
    <2>11. CASE (\E m \in Macs : HostChanges(m)) \/ (\E a \in Addresses : BluezChanges(a))
                \/ ScanStarts \/ ScanEnded
      BY <2>3, <2>11 DEF HostChanges, BluezChanges, ScanStarts, ScanEnded, ScanEnds,
         lifecycle, server, history
    <2>12. ASSUME NEW h \in Handlers, AddBegins(h) PROVE QuitInv'
      BY <2>3, <2>12 DEF AddBegins, lifecycle, server, history
    <2>13. ASSUME NEW h \in Handlers, AddGivesUp(h) PROVE QuitInv'
      BY <2>3, <2>13 DEF AddGivesUp, Awaited, server, history, Quitting, Stopping
    <2>14. CASE \/ BuildHandlers \/ StartScan \/ RegisterProfile \/ StartDiscovery
                \/ (\E a \in Addresses : AddListed(a)) \/ Listen \/ InitServices
      <3>1. /\ UNCHANGED <<requests, serving, connected, late, exited>>
            /\ phase' \in Starting \cup {"started", "failed"}
        BY <2>14 DEF BuildHandlers, StartScan, RegisterProfile, StartDiscovery,
           AddListed, Listen, InitServices, Rest, server, history, Starting
      <3> QED
        BY <2>3, <3>1 DEF Quitting, Stopping, Starting
    <2>15. CASE StopScan \/ StopDiscovery \/ UnregisterProfile
      <3>1. /\ UNCHANGED <<requests, serving, connected, late, exited>>
            /\ phase \in {"stopScan", "stopDiscovery", "unregister"}
        BY <2>15 DEF StopScan, StopDiscovery, UnregisterProfile, Rest, history
      <3> QED
        BY <2>3, <3>1 DEF Quitting, Stopping
    <2>16. CASE Exit
      <3>1. phase = "stopped" /\ UNCHANGED <<phase, requests, serving, connected, late>>
        BY <2>16 DEF Exit, lifecycle, server, history
      <3> QED
        BY <3>1 DEF QuitInv, Stops, Wants
    <2> QED
      BY <2>2, <2>5, <2>6, <2>7, <2>8, <2>9, <2>10, <2>11, <2>12, <2>13, <2>14,
         <2>15, <2>16
         DEF Next, Environment, Handle, Advance
  <1>3. LifeInv /\ QuitInv => OrderlyQuit
    <2> SUFFICES ASSUME LifeInv, QuitInv, exited, ~hurried PROVE
            /\ phase \in {"stopped", "failed"}
            /\ phase = "stopped" =>
                 /\ ~scanning /\ ~listening
                 /\ ~late => connected = None /\ serving = NotServing
      BY DEF OrderlyQuit
    <2>1. phase \in {"stopped", "failed"}
      BY DEF QuitInv
    <2>2. phase = "stopped" => ~scanning /\ ~listening
      BY DEF LifeInv, PhaseInv
    <2>3. ASSUME phase = "stopped", ~late PROVE connected = None /\ serving = NotServing
      <3>1. connected = None /\ serving.step # "connect"
        BY <2>3 DEF QuitInv, Quitting, Stopping
      <3>2. serving.step # "start"
        BY <3>1, KeysApart DEF QuitInv, LifeInv, Types, DeviceType, NotServing
      <3> QED
        BY <3>1, <3>2 DEF LifeInv, Types, DeviceType
    <2> QED
      BY <2>1, <2>2, <2>3
  <1> QED
    BY <1>1, <1>2, <1>3, LifeInvAlways, PTL DEF Spec

-----------------------------------------------------------------------------
(***************************************************************************)
(* The Bluetooth devices.  The profile knows the device that the handler   *)
(* has under an address.  Neither refuses the other as long as the handler *)
(* never adds a device that it has already: what BlueZ tells it about an   *)
(* address has to alternate, and that takes that the handler has heard of  *)
(* every change since the address was listed, so that lost is excepted.    *)
(* An address is held at 0 when its device is there or is being added, and *)
(* at i when the i-th job will add one.                                    *)
(***************************************************************************)
Waits(op, a, i) == /\ i \in 1 .. Len(jobs["bt"])
                   /\ jobs["bt"][i].key = a /\ jobs["bt"][i].op = op

IsAdding(a) == adding["bt"] # None /\ adding["bt"].key = a

Holds(a, i) == \/ i = 0 /\ (deviceMap[a] # None \/ IsAdding(a))
               \/ Waits("add", a, i)

Heard(a) ==
    /\ profile[a] = deviceMap[a]
    /\ IsAdding(a) => deviceMap[a] = None
    /\ \A i, l : Holds(a, i) /\ Holds(a, l) /\ i < l =>
         \E j : Waits("remove", a, j) /\ i < j /\ j < l
    /\ a \notin present => \A i : Holds(a, i) =>
         \E j : Waits("remove", a, j) /\ i < j
    /\ phase \in {"list", "listed"} /\ a \in toList =>
         a \in present /\ \A i : ~Holds(a, i)

ProfileInv == \A a \in Addresses : a \notin lost => Heard(a)

\* Positions are numbers.
LEMMA Positions ==
    ASSUME JobType
    PROVE  /\ Len(jobs["bt"]) \in Nat /\ jobs["bt"] \in Seq(Jobs)
           /\ \A op, a, i : Waits(op, a, i) => i \in Nat \ {0} /\ i <= Len(jobs["bt"])
           /\ \A a, i : Holds(a, i) => i \in Nat /\ i <= Len(jobs["bt"])
  <1>1. jobs["bt"] \in Seq(Jobs) /\ Len(jobs["bt"]) \in Nat
    BY LenProperties DEF JobType, Handlers
  <1>2. \A op, a, i : Waits(op, a, i) => i \in Nat \ {0} /\ i <= Len(jobs["bt"])
    BY <1>1 DEF Waits
  <1> QED
    BY <1>1, <1>2 DEF Holds

\* A job more is the last one ...
LEMMA BindWaits ==
    ASSUME JobType, NEW j \in Jobs, Bind("bt", <<j>>)
    PROVE  \A op, a, i : Waits(op, a, i)' <=>
              \/ Waits(op, a, i)
              \/ i = Len(jobs["bt"]) + 1 /\ j.key = a /\ j.op = op
  <1>1. <<j>> \in Seq(Jobs) /\ Len(<<j>>) = 1 /\ <<j>>[1] = j
    BY OneJob
  <1>2. jobs'["bt"] = jobs["bt"] \o <<j>> /\ jobs["bt"] \in Seq(Jobs) /\ Len(jobs["bt"]) \in Nat
    BY <1>1, BindType, Positions DEF Handlers
  <1>3. /\ Len(jobs'["bt"]) = Len(jobs["bt"]) + 1
        /\ \A i \in 1 .. Len(jobs["bt"]) : jobs'["bt"][i] = jobs["bt"][i]
        /\ jobs'["bt"][Len(jobs["bt"]) + 1] = j
    BY <1>1, <1>2, ConcatProperties
  <1> QED
    BY <1>2, <1>3 DEF Waits

\* ... and when the first is taken, the others come one closer.
LEMMA TailWaits ==
    ASSUME JobType, NEW op, NextJob("bt", op), jobs' = [jobs EXCEPT !["bt"] = Tail(@)]
    PROVE  \A o, a, i : Waits(o, a, i)' <=> i \in Nat \ {0} /\ Waits(o, a, i + 1)
  <1>1. "bt" \in Handlers
    BY DEF Handlers
  <1>2. /\ Len(Tail(jobs["bt"])) = Len(jobs["bt"]) - 1
        /\ Len(jobs["bt"]) \in Nat \ {0}
        /\ \A i \in 1 .. Len(Tail(jobs["bt"])) : Tail(jobs["bt"])[i] = jobs["bt"][i + 1]
    BY <1>1, NextJobType
  <1>3. jobs'["bt"] = Tail(jobs["bt"])
    BY <1>1 DEF JobType
  <1>4. /\ Len(jobs'["bt"]) = Len(jobs["bt"]) - 1
        /\ \A i \in 1 .. Len(jobs'["bt"]) : jobs'["bt"][i] = jobs["bt"][i + 1]
    BY <1>2, <1>3
  <1>5. ASSUME NEW o, NEW a, NEW i, Waits(o, a, i)'
        PROVE  i \in Nat \ {0} /\ Waits(o, a, i + 1)
    BY <1>2, <1>4, <1>5 DEF Waits
  <1>6. ASSUME NEW o, NEW a, NEW i, i \in Nat \ {0}, Waits(o, a, i + 1)
        PROVE  Waits(o, a, i)'
    BY <1>2, <1>4, <1>6 DEF Waits
  <1> QED
    BY <1>5, <1>6

\* Nothing new is held, and no removal of it is done.
LEMMA HeardKept ==
    ASSUME JobType, NEW a, Heard(a),
           profile'[a] = deviceMap'[a],
           IsAdding(a)' => deviceMap'[a] = None,
           \A i : Holds(a, i)' => Holds(a, i),
           \A j : Waits("remove", a, j) => Waits("remove", a, j)',
           a \notin present' => a \notin present,
           phase' \in {"list", "listed"} /\ a \in toList' =>
              phase \in {"list", "listed"} /\ a \in toList /\ a \in present'
    PROVE  Heard(a)'
  <1>1. ASSUME NEW i, NEW l, Holds(a, i)', Holds(a, l)', i < l
        PROVE  \E j : Waits("remove", a, j)' /\ i < j /\ j < l
    BY <1>1 DEF Heard
  <1>2. ASSUME a \notin present', NEW i, Holds(a, i)'
        PROVE  \E j : Waits("remove", a, j)' /\ i < j
    BY <1>2 DEF Heard
  <1>3. ASSUME phase' \in {"list", "listed"}, a \in toList'
        PROVE  a \in present' /\ \A i : ~Holds(a, i)'
    BY <1>3 DEF Heard
  <1> QED
    BY <1>1, <1>2, <1>3 DEF Heard

\* Everything comes one closer, and a removal is only done of what is not held
\* any more.
LEMMA HeardShifted ==
    ASSUME JobType, NEW a, Heard(a),
           profile'[a] = deviceMap'[a],
           IsAdding(a)' => deviceMap'[a] = None,
           \A i : Holds(a, i)' => \/ i \in Nat /\ Holds(a, i + 1)
                                  \/ i = 0 /\ Holds(a, 0) /\ ~Waits("remove", a, 1),
           \A j : j \in Nat \ {0} /\ Waits("remove", a, j + 1) => Waits("remove", a, j)',
           UNCHANGED <<present, phase, toList>>
    PROVE  Heard(a)'
  <1>0. /\ \A op, b, i : Waits(op, b, i) => i \in Nat \ {0}
        /\ \A i : Holds(a, i)' => i \in Nat
    BY Positions
  <1>1. ASSUME NEW j, Waits("remove", a, j), j # 1
        PROVE  j \in Nat /\ j - 1 \in Nat \ {0} /\ Waits("remove", a, j - 1)'
    <2>1. j \in Nat \ {0}
      BY <1>0, <1>1
    <2> DEFINE p == j - 1
    <2>2. p \in Nat \ {0} /\ p + 1 = j
      BY <1>1, <2>1
    <2> HIDE DEF p
    <2>3. Waits("remove", a, p)'
      BY <1>1, <2>2
    <2> QED
      BY <2>1, <2>2, <2>3 DEF p
  <1>2. ASSUME NEW i, NEW l, Holds(a, i)', Holds(a, l)', i < l
        PROVE  \E j : Waits("remove", a, j)' /\ i < j /\ j < l
    <2>0. i \in Nat /\ l \in Nat \ {0} /\ l # 0
      <3>1. i \in Nat /\ l \in Nat
        BY <1>0, <1>2
      <3> QED
        BY <1>2, <3>1
    <2>1. i \in Nat /\ l \in Nat \ {0} /\ Holds(a, l + 1)
      BY <1>2, <2>0
    <2>2. CASE Holds(a, i + 1)
      <3>0. i + 1 < l + 1
        BY <1>2, <2>1
      <3>1. PICK j : Waits("remove", a, j) /\ i + 1 < j /\ j < l + 1
        BY <2>1, <2>2, <3>0, Zenon DEF Heard
      <3>2. j \in Nat /\ j # 1
        BY <1>0, <2>1, <3>1
      <3>3. j \in Nat /\ Waits("remove", a, j - 1)' /\ i < j - 1 /\ j - 1 < l
        BY <1>1, <2>1, <3>1, <3>2
      <3> QED
        BY <3>3
    <2>3. CASE i = 0 /\ Holds(a, 0) /\ ~Waits("remove", a, 1)
      <3>1. 0 < l + 1
        BY <2>1
      <3>2. PICK j : Waits("remove", a, j) /\ 0 < j /\ j < l + 1
        BY <2>1, <2>3, <3>1 DEF Heard
      <3>3. j \in Nat \ {0} /\ j # 1
        BY <1>0, <2>3, <3>2
      <3>4. Waits("remove", a, j - 1)' /\ i < j - 1 /\ j - 1 < l
        BY <1>1, <2>1, <2>3, <3>2, <3>3
      <3> QED
        BY <3>4
    <2> QED
      BY <1>2, <2>2, <2>3
  <1>3. ASSUME a \notin present', NEW i, Holds(a, i)'
        PROVE  \E j : Waits("remove", a, j)' /\ i < j
    <2>1. i \in Nat
      BY <1>0, <1>3
    <2>2. CASE Holds(a, i + 1)
      <3>1. PICK j : Waits("remove", a, j) /\ i + 1 < j
        BY <1>3, <2>1, <2>2 DEF Heard
      <3>2. j \in Nat /\ j # 1
        BY <1>0, <2>1, <3>1
      <3>3. Waits("remove", a, j - 1)' /\ i < j - 1
        BY <1>1, <2>1, <3>1, <3>2
      <3> QED
        BY <3>3
    <2>3. CASE i = 0 /\ Holds(a, 0) /\ ~Waits("remove", a, 1)
      <3>1. PICK j : Waits("remove", a, j) /\ 0 < j
        BY <1>3, <2>3 DEF Heard
      <3>2. j \in Nat \ {0} /\ j # 1
        BY <1>0, <2>3, <3>1
      <3>3. Waits("remove", a, j - 1)' /\ i < j - 1
        BY <1>1, <2>3, <3>1, <3>2
      <3> QED
        BY <3>3
    <2> QED
      BY <1>3, <2>2, <2>3
  <1>4. ASSUME phase' \in {"list", "listed"}, a \in toList'
        PROVE  a \in present' /\ \A i : ~Holds(a, i)'
    BY <1>4 DEF Heard
  <1> QED
    BY <1>2, <1>3, <1>4 DEF Heard

\* Nothing of it changes.
LEMMA HeardSame ==
    ASSUME JobType, NEW a, Heard(a),
           jobs'["bt"] = jobs["bt"], adding'["bt"] = adding["bt"],
           deviceMap'[a] = deviceMap[a], profile'[a] = profile[a],
           a \in present' <=> a \in present,
           phase' \in {"list", "listed"} =>
              phase \in {"list", "listed"} /\ toList' \subseteq toList
    PROVE  Heard(a)'
  <1>1. \A op, i : Waits(op, a, i)' <=> Waits(op, a, i)
    BY DEF Waits
  <1>2. \A i : Holds(a, i)' <=> Holds(a, i)
    BY <1>1 DEF Holds, IsAdding
  <1>3. profile'[a] = deviceMap'[a] /\ (IsAdding(a)' => deviceMap'[a] = None)
    BY DEF Heard, IsAdding
  <1>4. phase' \in {"list", "listed"} /\ a \in toList' =>
           phase \in {"list", "listed"} /\ a \in toList /\ a \in present'
    BY DEF Heard
  <1> QED
    BY <1>1, <1>2, <1>3, <1>4, HeardKept

\* BlueZ tells of the device, or of another.
LEMMA HeardBluez ==
    ASSUME LifeInv, NEW a \in Addresses, Heard(a), NEW b \in Addresses, BluezChanges(b),
           a \notin lost'
    PROVE  Heard(a)'
  <1>0. JobType /\ AddJob(b, FALSE) \in Jobs /\ RemoveJob(b) \in Jobs
    BY KeysApart, JobTypes DEF LifeInv, Types
  <1>1. /\ UNCHANGED <<phase, toList, adding, deviceMap, profile, listening>>
        /\ a # b => (a \in present' <=> a \in present)
        /\ b \in present' <=> b \notin present
        /\ b \in present /\ ~listening => b \in lost'
    BY DEF BluezChanges, lifecycle
  <1>2. profile'[a] = deviceMap'[a] /\ (IsAdding(a)' => deviceMap'[a] = None)
    BY <1>1 DEF Heard, IsAdding
  <1>3. CASE ~listening
    <2>1. jobs'["bt"] = jobs["bt"]
      <3>1. Bind("bt", <<>>) /\ "bt" \in Handlers /\ <<>> \in Seq(Jobs)
        BY <1>3 DEF BluezChanges, Handlers
      <3>2. jobs'["bt"] = jobs["bt"] \o <<>> /\ jobs["bt"] \in Seq(Jobs)
        BY <1>0, <3>1, BindType DEF JobType
      <3> QED
        BY <3>2, ConcatEmptySeq
    <2>2. \A op, i : Waits(op, a, i)' <=> Waits(op, a, i)
      BY <2>1 DEF Waits
    <2>3. \A i : Holds(a, i)' <=> Holds(a, i)
      BY <1>1, <2>2 DEF Holds, IsAdding
    <2>4. /\ a \notin present' => a \notin present
          /\ a \in present => a \in present'
      BY <1>1, <1>3
    <2>5. phase' \in {"list", "listed"} /\ a \in toList' =>
             phase \in {"list", "listed"} /\ a \in toList /\ a \in present'
      BY <1>1, <2>4 DEF Heard
    <2> QED
      BY <1>0, <1>2, <2>2, <2>3, <2>4, <2>5, HeardKept
  <1>4. CASE listening /\ a # b
    <2>1. PICK j \in Jobs : Bind("bt", <<j>>) /\ j.key = b
      BY <1>0, <1>4 DEF BluezChanges, AddJob, RemoveJob
    <2>2. \A op, i : Waits(op, a, i)' <=> Waits(op, a, i)
      BY <1>0, <1>4, <2>1, BindWaits
    <2>3. \A i : Holds(a, i)' <=> Holds(a, i)
      BY <1>1, <2>2 DEF Holds, IsAdding
    <2>4. phase' \in {"list", "listed"} /\ a \in toList' =>
             phase \in {"list", "listed"} /\ a \in toList /\ a \in present'
      BY <1>1, <1>4 DEF Heard
    <2> QED
      BY <1>0, <1>1, <1>2, <1>4, <2>2, <2>3, <2>4, HeardKept
  <1>5. CASE listening /\ a = b
    <2>0. PICK n \in Nat : /\ n = Len(jobs["bt"]) + 1
                           /\ \A op, i : Waits(op, a, i) => i \in Nat /\ i < n
                           /\ \A i : Holds(a, i) => i \in Nat /\ i < n
      BY <1>0, Positions
    <2>1. phase' \notin {"list", "listed"}
      BY <1>1, <1>5 DEF LifeInv, PhaseInv
    <2>2. CASE a \in present
      <3>1. Bind("bt", <<RemoveJob(a)>>) /\ RemoveJob(a).key = a /\ RemoveJob(a).op = "remove"
        BY <1>5, <2>2 DEF BluezChanges, RemoveJob
      <3>2. \A op, i : Waits(op, a, i)' <=> Waits(op, a, i) \/ (i = n /\ op = "remove")
        BY <1>0, <1>5, <2>0, <3>1, BindWaits
      <3>3. \A i : Holds(a, i)' <=> Holds(a, i)
        BY <1>1, <3>2 DEF Holds, IsAdding
      <3>4. \A i, l : Holds(a, i)' /\ Holds(a, l)' /\ i < l =>
               \E j : Waits("remove", a, j)' /\ i < j /\ j < l
        BY <3>2, <3>3 DEF Heard
      <3>5. Waits("remove", a, n)'
        BY <3>2
      <3>6. \A i : Holds(a, i)' => i < n
        BY <2>0, <3>3, Zenon
      <3> QED
        BY <1>2, <2>1, <3>4, <3>5, <3>6 DEF Heard
    <2>3. CASE a \notin present
      <3>1. Bind("bt", <<AddJob(a, FALSE)>>) /\ AddJob(a, FALSE).key = a /\ AddJob(a, FALSE).op = "add"
        BY <1>5, <2>3 DEF BluezChanges, AddJob
      <3>2. \A op, i : Waits(op, a, i)' <=> Waits(op, a, i) \/ (i = n /\ op = "add")
        BY <1>0, <1>5, <2>0, <3>1, BindWaits
      <3>3. \A i : Holds(a, i)' <=> Holds(a, i) \/ i = n
        BY <1>1, <3>2 DEF Holds, IsAdding
      <3>4. ASSUME NEW i, NEW l, Holds(a, i)', Holds(a, l)', i < l
            PROVE  \E j : Waits("remove", a, j)' /\ i < j /\ j < l
        <4>0. \A p : Holds(a, p)' => p = n \/ (p \in Nat /\ p < n)
          BY <2>0, <3>3, Zenon
        <4>1. i \in Nat /\ i <= n /\ l \in Nat /\ l <= n
          <5>1. (i = n \/ (i \in Nat /\ i < n)) /\ (l = n \/ (l \in Nat /\ l < n))
            BY <3>4, <4>0, Zenon
          <5> QED
            BY <2>0, <5>1
        <4>2. i # n
          BY <2>0, <3>4, <4>1
        <4>3. Holds(a, i)
          BY <3>3, <3>4, <4>2
        <4>4. CASE Holds(a, l)
          BY <3>2, <3>4, <4>3, <4>4 DEF Heard
        <4>5. CASE l = n
          <5>1. PICK j : Waits("remove", a, j) /\ i < j
            BY <2>3, <4>3 DEF Heard
          <5>2. j < n
            BY <2>0, <5>1
          <5> QED
            BY <3>2, <4>5, <5>1, <5>2
        <4> QED
          BY <3>3, <3>4, <4>4, <4>5
      <3>5. a \in present'
        BY <1>1, <1>5, <2>3
      <3> QED
        BY <1>2, <2>1, <3>4, <3>5 DEF Heard
    <2> QED
      BY <2>2, <2>3
  <1> QED
    BY <1>3, <1>4, <1>5

\* The TCP handler has other devices.
LEMMA HeardTcp ==
    ASSUME LifeInv, NEW a \in Addresses, Heard(a),
           AddBegins("tcp") \/ AddGivesUp("tcp") \/ AddEnds("tcp") \/ RemoveDevice("tcp")
    PROVE  Heard(a)'
  <1>0. JobType /\ DeviceType /\ "tcp" \in Handlers /\ "bt" \in Handlers /\ a \in Keys
    BY KeysApart DEF LifeInv, Types, Handlers
  <1>1. CASE AddBegins("tcp")
    <2>1. /\ jobs'["bt"] = jobs["bt"] /\ adding'["bt"] = adding["bt"]
          /\ UNCHANGED <<deviceMap, profile, present, phase, toList>>
      BY <1>0, <1>1 DEF AddBegins, JobType, world, lifecycle
    <2> QED
      BY <1>0, <2>1, HeardSame
  <1>2. CASE AddEnds("tcp")
    <2>1. adding["tcp"] \in Jobs /\ Work("tcp", adding["tcp"])
      BY <1>0, <1>2 DEF AddEnds, Free, JobType, Work
    <2>2. /\ adding["tcp"].key \in Keys /\ HandlerOf(adding["tcp"].key) = "tcp"
          /\ ~adding["tcp"].listed
      BY <1>0, <2>1, JobTypes DEF LifeInv, WorkInv
    <2>3. adding["tcp"].key \notin Addresses
      BY <2>2, KeysApart
    <2>4. PICK n \in 1 .. MaxObjects :
             /\ deviceMap' = [deviceMap EXCEPT ![adding["tcp"].key] = Device(adding["tcp"].key, n)]
             /\ profile' = profile /\ phase' = phase
      BY <1>2, <2>2, <2>3 DEF AddEnds, Awaited
    <2>5. deviceMap'[a] = deviceMap[a]
      BY <1>0, <2>3, <2>4 DEF DeviceType
    <2>6. /\ jobs'["bt"] = jobs["bt"] /\ adding'["bt"] = adding["bt"]
          /\ UNCHANGED <<present, toList>>
      BY <1>0, <1>2 DEF AddEnds, JobType, world
    <2> QED
      BY <1>0, <2>4, <2>5, <2>6, HeardSame
  <1>3. CASE RemoveDevice("tcp")
    <2>0. Head(jobs["tcp"]) \in Jobs /\ Work("tcp", Head(jobs["tcp"]))
      <3>1. NextJob("tcp", "remove") /\ "tcp" \in Handlers
        BY <1>0, <1>3 DEF RemoveDevice
      <3>2. /\ Head(jobs["tcp"]) \in Jobs /\ Len(jobs["tcp"]) \in Nat \ {0}
            /\ Head(jobs["tcp"]) = jobs["tcp"][1]
        BY <1>0, <3>1, NextJobType
      <3>3. 1 \in 1 .. Len(jobs["tcp"])
        BY <3>2
      <3> QED
        BY <3>2, <3>3 DEF Work
    <2>1. Head(jobs["tcp"]).key \notin Addresses
      BY <1>0, <2>0, KeysApart, JobTypes DEF LifeInv, WorkInv
    <2>2. deviceMap' = [deviceMap EXCEPT ![Head(jobs["tcp"]).key] = None] /\ profile' = profile
      BY <1>3, <2>1 DEF RemoveDevice, Removed
    <2>3. deviceMap'[a] = deviceMap[a]
      BY <1>0, <2>1, <2>2 DEF DeviceType
    <2>4. /\ jobs'["bt"] = jobs["bt"] /\ adding'["bt"] = adding["bt"]
          /\ UNCHANGED <<present, phase, toList>>
      BY <1>0, <1>3 DEF RemoveDevice, JobType, world, lifecycle
    <2> QED
      BY <1>0, <2>2, <2>3, <2>4, HeardSame
  <1> QED
    BY <1>1, <1>2, <1>3 DEF AddGivesUp

\* A device is taken from the queue to be added: what is held at 1 is now
\* held at 0.
LEMMA HeardBegins ==
    ASSUME LifeInv, NEW a \in Addresses, Heard(a), AddBegins("bt")
    PROVE  Heard(a)'
  <1>0. JobType /\ "bt" \in Handlers
    BY DEF LifeInv, Types, Handlers
  <1>1. /\ NextJob("bt", "add") /\ jobs' = [jobs EXCEPT !["bt"] = Tail(@)]
        /\ adding' = [adding EXCEPT !["bt"] = Head(jobs["bt"])]
        /\ UNCHANGED <<deviceMap, profile, present, phase, toList>>
    BY DEF AddBegins, world, lifecycle
  <1>2. /\ Head(jobs["bt"]) = jobs["bt"][1] /\ jobs["bt"][1].op = "add"
        /\ 1 \in 1 .. Len(jobs["bt"]) /\ adding["bt"] = None
        /\ adding'["bt"] = jobs["bt"][1]
    BY <1>0, <1>1, NextJobType DEF JobType
  <1>3. \A o, i : Waits(o, a, i)' <=> i \in Nat \ {0} /\ Waits(o, a, i + 1)
    BY <1>0, <1>1, TailWaits
  <1>4. ~Waits("remove", a, 1) /\ (IsAdding(a)' => Waits("add", a, 1))
    BY <1>2 DEF Waits, IsAdding
  <1>5. IsAdding(a)' => deviceMap'[a] = None
    <2> SUFFICES ASSUME IsAdding(a)', deviceMap[a] # None PROVE FALSE
      BY <1>1
    <2>1. Holds(a, 0) /\ Holds(a, 1)
      BY <1>4 DEF Holds
    <2>2. PICK j : Waits("remove", a, j) /\ 0 < j /\ j < 1
      BY <2>1 DEF Heard
    <2>3. j \in Nat
      BY <1>0, <2>2, Positions
    <2> QED
      BY <2>2, <2>3
  <1>6. ASSUME NEW i, Holds(a, i)'
        PROVE  \/ i \in Nat /\ Holds(a, i + 1)
               \/ i = 0 /\ Holds(a, 0) /\ ~Waits("remove", a, 1)
    <2>1. CASE Waits("add", a, i)'
      BY <1>3, <2>1 DEF Holds
    <2>2. CASE i = 0 /\ deviceMap'[a] # None
      BY <1>1, <1>4, <2>2 DEF Holds
    <2>3. CASE i = 0 /\ IsAdding(a)'
      <3>1. Holds(a, 1)
        BY <1>4, <2>3 DEF Holds
      <3>2. i \in Nat /\ i + 1 = 1
        BY <2>3
      <3> QED
        BY <3>1, <3>2
    <2> QED
      BY <1>6, <2>1, <2>2, <2>3 DEF Holds
  <1>7. profile'[a] = deviceMap'[a]
    BY <1>1 DEF Heard
  <1> QED
    BY <1>0, <1>1, <1>3, <1>5, <1>6, <1>7, HeardShifted

\* The device that is removed is the one that the profile knows.
LEMMA HeardRemoves ==
    ASSUME LifeInv, NEW a \in Addresses, Heard(a), RemoveDevice("bt")
    PROVE  Heard(a)'
  <1>0. JobType /\ DeviceType /\ "bt" \in Handlers /\ a \in Keys
    BY KeysApart DEF LifeInv, Types, Handlers
  <1> DEFINE k == Head(jobs["bt"]).key
  <1>1. /\ NextJob("bt", "remove") /\ jobs' = [jobs EXCEPT !["bt"] = Tail(@)]
        /\ deviceMap' = [deviceMap EXCEPT ![k] = None]
        /\ profile' = IF deviceMap[k] # None /\ k \in Addresses /\ profile[k] = deviceMap[k]
                      THEN [profile EXCEPT ![k] = None] ELSE profile
        /\ UNCHANGED <<adding, present, phase, toList>>
    BY DEF RemoveDevice, Removed, world, lifecycle
  <1>2. /\ k = jobs["bt"][1].key /\ adding["bt"] = None
        /\ 1 \in 1 .. Len(jobs["bt"])
    BY <1>0, <1>1, NextJobType
  <1>3. \A o, i : Waits(o, a, i)' <=> i \in Nat \ {0} /\ Waits(o, a, i + 1)
    BY <1>0, <1>1, TailWaits
  <1>4. ~IsAdding(a)' /\ (k # a => ~Waits("remove", a, 1))
    BY <1>1, <1>2 DEF Waits, IsAdding
  <1> HIDE DEF k
  <1>5. /\ profile'[a] = deviceMap'[a]
        /\ k = a => deviceMap'[a] = None
        /\ k # a => deviceMap'[a] = deviceMap[a]
    <2>1. CASE k = a
      <3>1. deviceMap'[a] = None /\ profile[a] = deviceMap[a]
        BY <1>0, <1>1, <2>1 DEF DeviceType, Heard
      <3>2. profile'[a] = None
        BY <1>0, <1>1, <2>1, <3>1 DEF DeviceType
      <3> QED
        BY <2>1, <3>1, <3>2
    <2>2. CASE k # a
      <3>1. deviceMap'[a] = deviceMap[a] /\ profile'[a] = profile[a]
        BY <1>0, <1>1, <2>2 DEF DeviceType
      <3> QED
        BY <2>2, <3>1 DEF Heard
    <2> QED
      BY <2>1, <2>2
  <1>6. ASSUME NEW i, Holds(a, i)'
        PROVE  \/ i \in Nat /\ Holds(a, i + 1)
               \/ i = 0 /\ Holds(a, 0) /\ ~Waits("remove", a, 1)
    <2>1. CASE Waits("add", a, i)'
      BY <1>3, <2>1 DEF Holds
    <2>2. CASE i = 0 /\ deviceMap'[a] # None
      <3>1. k # a /\ deviceMap[a] # None
        BY <1>5, <2>2
      <3> QED
        BY <1>4, <2>2, <3>1 DEF Holds
    <2> QED
      BY <1>4, <1>6, <2>1, <2>2 DEF Holds
  <1> QED
    BY <1>0, <1>1, <1>3, <1>4, <1>5, <1>6, HeardShifted

\* The device that was being added is in both maps then, or in neither.
LEMMA HeardAdds ==
    ASSUME LifeInv, NEW a \in Addresses, Heard(a), AddGivesUp("bt") \/ AddEnds("bt")
    PROVE  Heard(a)'
  <1>0. JobType /\ DeviceType /\ "bt" \in Handlers /\ a \in Keys
    BY KeysApart DEF LifeInv, Types, Handlers
  <1>1. /\ ~Free("bt") /\ adding' = [adding EXCEPT !["bt"] = None]
        /\ UNCHANGED <<jobs, present, toList>>
        /\ \E throws \in BOOLEAN : Awaited(adding["bt"], throws)
    BY DEF AddGivesUp, AddEnds, world, HookThrows
  <1>2. adding["bt"] \in Jobs /\ Work("bt", adding["bt"]) /\ adding'["bt"] = None
    BY <1>0, <1>1 DEF Free, JobType, Work
  <1>3. adding["bt"].listed => phase = "listed"
    BY <1>0, <1>2 DEF LifeInv, WorkInv
  <1>4. phase' \in {"list", "listed"} => phase \in {"list", "listed"}
    BY <1>1, <1>3 DEF Awaited
  <1>5. phase' \in {"list", "listed"} /\ a \in toList' =>
           phase \in {"list", "listed"} /\ a \in toList /\ a \in present'
    BY <1>1, <1>4 DEF Heard
  <1>6. ~IsAdding(a)' /\ \A op, i : Waits(op, a, i)' <=> Waits(op, a, i)
    BY <1>1, <1>2 DEF IsAdding, Waits
  <1>7. profile'[a] = deviceMap'[a] /\ (deviceMap'[a] # None => Holds(a, 0))
    <2>1. CASE AddGivesUp("bt")
      BY <2>1 DEF AddGivesUp, Heard, Holds
    <2>2. CASE AddEnds("bt")
      <3> DEFINE k == adding["bt"].key
      <3>1. PICK n \in 1 .. MaxObjects :
              /\ deviceMap' = [deviceMap EXCEPT ![k] = Device(k, n)]
              /\ profile' = IF k \in Addresses /\ ~HookThrows(k)
                            THEN [profile EXCEPT ![k] = Device(k, n)] ELSE profile
        BY <2>2 DEF AddEnds
      <3>2. k = a <=> IsAdding(a)
        BY <1>1 DEF IsAdding, Free
      <3> HIDE DEF k
      <3>3. CASE k # a
        <4>1. deviceMap'[a] = deviceMap[a] /\ profile'[a] = profile[a]
          BY <1>0, <3>1, <3>3 DEF DeviceType
        <4> QED
          BY <4>1 DEF Heard, Holds
      <3>4. CASE k = a
        <4>1. profile[a] = None
          BY <3>2, <3>4 DEF Heard
        <4>2. ~HookThrows(a)
          BY <4>1 DEF HookThrows
        <4>3. deviceMap'[a] = Device(a, n) /\ profile'[a] = Device(a, n)
          BY <1>0, <3>1, <3>4, <4>2 DEF DeviceType
        <4> QED
          BY <3>2, <3>4, <4>3 DEF Holds
      <3> QED
        BY <3>3, <3>4
    <2> QED
      BY <2>1, <2>2
  <1>8. \A i : Holds(a, i)' => Holds(a, i)
    <2> SUFFICES ASSUME NEW i, Holds(a, i)' PROVE Holds(a, i)
      OBVIOUS
    <2>1. Waits("add", a, i)' \/ (i = 0 /\ deviceMap'[a] # None)
      BY <1>6 DEF Holds
    <2> QED
      BY <1>6, <1>7, <2>1 DEF Holds
  <1> QED
    BY <1>0, <1>1, <1>5, <1>6, <1>7, <1>8, HeardKept

\* The list of BlueZ.
LEMMA HeardListed ==
    ASSUME LifeInv, NEW a \in Addresses, Heard(a), NEW b \in Addresses, AddListed(b)
    PROVE  Heard(a)'
  <1>0. JobType /\ AddJob(b, TRUE) \in Jobs
    BY KeysApart, JobTypes DEF LifeInv, Types
  <1>1. /\ phase = "list" /\ b \in toList /\ toList' = toList \ {b}
        /\ Bind("bt", <<AddJob(b, TRUE)>>)
        /\ AddJob(b, TRUE).key = b /\ AddJob(b, TRUE).op = "add"
        /\ UNCHANGED <<present, adding, deviceMap, profile>>
    BY DEF AddListed, world, AddJob
  <1>2. \A op, i : Waits(op, a, i)' <=>
            \/ Waits(op, a, i)
            \/ i = Len(jobs["bt"]) + 1 /\ b = a /\ op = "add"
    <2>1. PICK j \in Jobs : Bind("bt", <<j>>) /\ j.key = b /\ j.op = "add"
      BY <1>0, <1>1
    <2> QED
      BY <1>0, <2>1, BindWaits
  <1>3. profile'[a] = deviceMap'[a] /\ (IsAdding(a)' => deviceMap'[a] = None)
    BY <1>1 DEF Heard, IsAdding
  <1>4. \A i : Holds(a, i)' <=> Holds(a, i) \/ (i = Len(jobs["bt"]) + 1 /\ b = a)
    BY <1>1, <1>2 DEF Holds, IsAdding
  <1>5. CASE a # b
    <2>1. phase' \in {"list", "listed"} /\ a \in toList' =>
             phase \in {"list", "listed"} /\ a \in toList /\ a \in present'
      BY <1>1 DEF Heard
    <2> QED
      BY <1>0, <1>1, <1>2, <1>3, <1>4, <1>5, <2>1, HeardKept
  <1>6. CASE a = b
    <2>1. a \in present' /\ a \notin toList' /\ \A i : ~Holds(a, i)
      BY <1>1, <1>6 DEF Heard
    <2>2. PICK n \in Nat : n = Len(jobs["bt"]) + 1
      BY <1>0, Positions
    <2>3. \A i : Holds(a, i)' => i = n
      BY <1>4, <2>1, <2>2
    <2>4. \A i, l : Holds(a, i)' /\ Holds(a, l)' => ~(i < l)
      BY <2>2, <2>3
    <2> QED
      BY <1>3, <2>1, <2>4 DEF Heard
  <1> QED
    BY <1>5, <1>6

\* The list is the first that the handler hears.
LEMMA HeardFirst ==
    ASSUME LifeInv, NEW a \in Addresses, StartDiscovery, phase' = "list"
    PROVE  Heard(a)'
  <1>1. /\ phase = "discovery" /\ toList' \subseteq present
        /\ UNCHANGED <<present, jobs, adding, deviceMap, profile>>
    BY DEF StartDiscovery, world, handlers
  <1>2. /\ jobs["bt"] = <<>> /\ adding["bt"] = None
        /\ deviceMap[a] = None /\ profile[a] = None
    BY <1>1 DEF LifeInv, PhaseInv, Unlisted
  <1>3. \A op, i : ~Waits(op, a, i)'
    BY <1>1, <1>2 DEF Waits
  <1>4. \A i : ~Holds(a, i)'
    BY <1>1, <1>2, <1>3 DEF Holds, IsAdding
  <1> QED
    BY <1>1, <1>2, <1>4 DEF Heard, IsAdding

\* Nobody hears less of a device than before.
LEMMA LostGrows ==
    ASSUME [Next]_vars, ~(StartDiscovery /\ phase' = "list")
    PROVE  lost \subseteq lost'
  <1>1. CASE \E a \in Addresses : BluezChanges(a)
    BY <1>1 DEF BluezChanges
  <1>2. CASE StartDiscovery
    BY <1>2 DEF StartDiscovery
  <1>3. CASE \/ \E m \in Macs : HostChanges(m)
             \/ \E a \in Addresses : NewConnection(a)
             \/ \E k \in Keys : UserConnects(k)
             \/ TransportEnds \/ Quit
    BY <1>3 DEF HostChanges, NewConnection, UserConnects, TransportEnds, Quit, history
  <1>4. CASE ScanStarts \/ ScanEnded \/ \E h \in Handlers : Handle(h)
    BY <1>4 DEF ScanStarts, ScanEnded, ScanEnds, Handle, AddBegins, AddGivesUp, AddEnds,
       RemoveDevice, history
  <1>5. CASE Serve
    BY <1>5 DEF Serve, ServeAdd, ServeRemove, ServeConnect, ServeSelfConnect,
       ServeDisconnect, ServeStop, Connects, SetUp, Asked, history
  <1>6. CASE \E a \in Addresses : AddListed(a)
    BY <1>6 DEF AddListed, history
  <1>7. CASE \/ BuildHandlers \/ StartScan \/ RegisterProfile \/ Listen \/ InitServices
             \/ StopScan \/ StopDiscovery \/ UnregisterProfile \/ Exit
    BY <1>7 DEF BuildHandlers, StartScan, RegisterProfile, Listen, InitServices,
       StopScan, StopDiscovery, UnregisterProfile, Exit, Rest, history
  <1>8. CASE UNCHANGED vars
    BY <1>8 DEF vars, history
  <1> QED
    BY <1>1, <1>2, <1>3, <1>4, <1>5, <1>6, <1>7, <1>8 DEF Next, Environment, Advance

LEMMA ProfileStep == LifeInv /\ ProfileInv /\ [Next]_vars => ProfileInv'
  <1> SUFFICES ASSUME LifeInv, ProfileInv, [Next]_vars, NEW a \in Addresses, a \notin lost'
               PROVE  Heard(a)'
    BY DEF ProfileInv
  <1>0. JobType /\ a \in Keys /\ a \notin Macs /\ "tcp" \in Handlers /\ "bt" \in Handlers
    BY KeysApart DEF LifeInv, Types, Handlers
  <1>1. CASE StartDiscovery /\ phase' = "list"
    BY <1>1, HeardFirst
  <1>2. CASE ~(StartDiscovery /\ phase' = "list")
    <2>0. Heard(a)
      BY <1>2, LostGrows DEF ProfileInv
    <2>1. ASSUME UNCHANGED <<jobs, adding, deviceMap, profile>>,
                 a \in present' <=> a \in present,
                 phase' \in {"list", "listed"} =>
                   phase \in {"list", "listed"} /\ toList' \subseteq toList
          PROVE  Heard(a)'
      BY <1>0, <2>0, <2>1, HeardSame
    <2>2. CASE \E m \in Macs : HostChanges(m)
      <3>1. /\ UNCHANGED <<jobs, adding, deviceMap, profile, phase, toList>>
            /\ a \in present' <=> a \in present
        BY <1>0, <2>2 DEF HostChanges, handlers, lifecycle
      <3> QED
        BY <2>1, <3>1
    <2>3. CASE \E b \in Addresses : BluezChanges(b)
      BY <2>0, <2>3, HeardBluez
    <2>4. CASE \/ \E b \in Addresses : NewConnection(b)
               \/ \E k \in Keys : UserConnects(k)
               \/ TransportEnds \/ Quit
      <3>1. /\ UNCHANGED <<jobs, adding, deviceMap, profile, toList, present>>
            /\ phase' \in {phase, "disconnect", "stopScan"}
        BY <2>4 DEF NewConnection, UserConnects, TransportEnds, Quit, StopBegins,
           StopReturns, handlers, lifecycle, world
      <3> QED
        BY <2>1, <3>1
    <2>5. CASE ScanStarts
      <3>1. UNCHANGED <<jobs, adding, deviceMap, profile, toList, present, phase>>
        BY <2>5 DEF ScanStarts, lifecycle, world
      <3> QED
        BY <2>1, <3>1
    <2>6. CASE ScanEnded
      <3>1. /\ jobs'["bt"] = jobs["bt"]
            /\ UNCHANGED <<adding, deviceMap, profile, toList, present, phase>>
        BY <1>0, <2>6 DEF ScanEnded, ScanEnds, Bind, JobType, lifecycle, world
      <3> QED
        BY <1>0, <2>0, <3>1, HeardSame
    <2>7. CASE Handle("tcp")
      BY <2>0, <2>7, HeardTcp DEF Handle
    <2>8. CASE Handle("bt")
      BY <2>0, <2>8, HeardBegins, HeardRemoves, HeardAdds DEF Handle
    <2>9. CASE Serve
      <3>1. /\ UNCHANGED <<jobs, adding, deviceMap, profile, toList, present>>
            /\ phase' \in {phase, "stopScan"}
        BY <2>9 DEF Serve, ServeAdd, ServeRemove, ServeConnect, ServeSelfConnect,
           ServeDisconnect, ServeStop, Connects, SetUp, Asked, handlers, lifecycle, world
      <3> QED
        BY <2>1, <3>1
    <2>10. CASE \E b \in Addresses : AddListed(b)
      BY <2>0, <2>10, HeardListed
    <2>11. CASE StartDiscovery
      <3>1. /\ UNCHANGED <<jobs, adding, deviceMap, profile, present>>
            /\ phase' = "init"
        BY <1>2, <2>11 DEF StartDiscovery, handlers, world
      <3> QED
        BY <2>1, <3>1
    <2>12. CASE \/ BuildHandlers \/ StartScan \/ RegisterProfile \/ Listen \/ InitServices
                \/ StopScan \/ StopDiscovery \/ UnregisterProfile \/ Exit
      <3>1. /\ UNCHANGED <<jobs, adding, deviceMap, profile, present, toList>>
            /\ phase' \notin {"list", "listed"}
        BY <2>12 DEF BuildHandlers, StartScan, RegisterProfile, Listen, InitServices,
           StopScan, StopDiscovery, UnregisterProfile, Exit, Rest, handlers, world, lifecycle
      <3> QED
        BY <2>1, <3>1
    <2>13. CASE UNCHANGED vars
      <3>1. UNCHANGED <<jobs, adding, deviceMap, profile, toList, present, phase>>
        BY <2>13 DEF vars, handlers, lifecycle, world
      <3> QED
        BY <2>1, <3>1
    <2> QED
      BY <2>2, <2>3, <2>4, <2>5, <2>6, <2>7, <2>8, <2>9, <2>10, <2>11, <2>12, <2>13
         DEF Next, Environment, Handlers, Advance
  <1> QED
    BY <1>1, <1>2

LEMMA ProfileAlways == Spec => []ProfileInv
  <1>1. Init => ProfileInv
    <2> SUFFICES ASSUME Init, NEW a \in Addresses PROVE Heard(a)
      BY DEF ProfileInv
    <2>1. /\ deviceMap[a] = None /\ profile[a] = None /\ jobs["bt"] = <<>>
          /\ adding["bt"] = None /\ phase = "new"
      BY KeysApart DEF Init, Handlers
    <2>2. \A op, i : ~Waits(op, a, i)
      BY <2>1 DEF Waits
    <2>3. ~IsAdding(a) /\ \A i : ~Holds(a, i)
      BY <2>1, <2>2 DEF Holds, IsAdding
    <2> QED
      BY <2>1, <2>3 DEF Heard
  <1> QED
    BY <1>1, ProfileStep, LifeInvAlways, PTL DEF Spec

\* A connection of the Bluetooth profile goes to the device that is listed
\* under its address, unless BlueZ's device went before the handler listened.
THEOREM ProfileReachesDevice == Spec => []ProfileFollowsDevices
  <1>1. ProfileInv => ProfileFollowsDevices
    BY DEF ProfileInv, Heard, ProfileFollowsDevices
  <1> QED
    BY <1>1, ProfileAlways, PTL

-----------------------------------------------------------------------------
(***************************************************************************)
(* The server's list.  What a handler did last with a device is the last   *)
(* request about it that waits for connectionLock, and when none waits, is *)
(* done.  A handler that does not tell the server breaks that; the one of  *)
(* Bluetooth does so when the profile refuses it, which ProfileInv rules   *)
(* out for every device that it has heard of.                              *)
(***************************************************************************)
Announces(k, i) == /\ i \in 1 .. Len(requests) /\ requests[i].dev.key = k
                   /\ requests[i].op \in {"add", "remove"}

AnnouncesLast(k, i) == Announces(k, i) /\ \A l : Announces(k, l) => l <= i

Announced(i) == IF requests[i].op = "add" THEN requests[i].dev ELSE None

Follows(k) ==
    /\ (\A i : ~Announces(k, i)) => nameMap[k] = deviceMap[k]
    /\ \A i : AnnouncesLast(k, i) => deviceMap[k] = Announced(i)

\* Before BlueZ's list is there, no Bluetooth device is.
Told(k) == k \notin lost \/ phase \in Unlisted

FollowInv == \A k \in Keys : Told(k) => Follows(k)

\* Nothing is said of the device, and nothing done.
LEMMA FollowsSame ==
    ASSUME NEW k, Follows(k), requests' = requests,
           deviceMap'[k] = deviceMap[k], nameMap'[k] = nameMap[k]
    PROVE  Follows(k)'
  <1>1. \A i : Announces(k, i)' <=> Announces(k, i)
    BY DEF Announces
  <1>2. \A i : AnnouncesLast(k, i)' <=> AnnouncesLast(k, i)
    BY <1>1 DEF AnnouncesLast
  <1>3. \A i : Announced(i)' = Announced(i)
    BY DEF Announced
  <1> QED
    BY <1>1, <1>2, <1>3 DEF Follows

\* Something else is asked for, or it is another device.
LEMMA FollowsOthers ==
    ASSUME DeviceType, NEW k, Follows(k), NEW r \in Requests, Ask(<<r>>),
           r.dev.key # k \/ r.op \notin {"add", "remove"},
           deviceMap'[k] = deviceMap[k], nameMap'[k] = nameMap[k]
    PROVE  Follows(k)'
  <1>0. /\ Len(requests) \in Nat /\ Len(requests') = Len(requests) + 1
        /\ \A i \in 1 .. Len(requests) : requests'[i] = requests[i]
        /\ requests'[Len(requests')] = r
    BY AskOneType
  <1>1. \A i : Announces(k, i)' <=> Announces(k, i)
    BY <1>0 DEF Announces
  <1>2. \A i : AnnouncesLast(k, i)' <=> AnnouncesLast(k, i)
    BY <1>1 DEF AnnouncesLast
  <1>3. \A i : Announces(k, i) => Announced(i)' = Announced(i)
    BY <1>0 DEF Announced, Announces
  <1>4. \A i : AnnouncesLast(k, i)' => deviceMap'[k] = Announced(i)'
    BY <1>2, <1>3 DEF Follows, AnnouncesLast
  <1> QED
    BY <1>1, <1>4 DEF Follows

\* The handler did something with the device, and says what.
LEMMA FollowsNews ==
    ASSUME DeviceType, NEW k, NEW r \in Requests, Ask(<<r>>), r.dev.key = k,
           \/ r.op = "add" /\ deviceMap'[k] = r.dev
           \/ r.op = "remove" /\ deviceMap'[k] = None
    PROVE  Follows(k)'
  <1>0. PICK n \in Nat : /\ n = Len(requests') /\ n = Len(requests) + 1
                         /\ requests'[n] = r
    BY AskOneType
  <1>1. Announces(k, n)'
    BY <1>0 DEF Announces
  <1>2. ASSUME NEW i, AnnouncesLast(k, i)' PROVE deviceMap'[k] = Announced(i)'
    <2>1. i \in 1 .. n /\ n <= i
      BY <1>0, <1>1, <1>2 DEF AnnouncesLast, Announces
    <2>2. i = n
      BY <2>1
    <2> QED
      BY <1>0, <2>2 DEF Announced
  <1> QED
    BY <1>1, <1>2 DEF Follows

\* The server does what the first request says.
LEMMA FollowsServed ==
    ASSUME DeviceType, NEW k, Follows(k), NEW op, Asked(op),
           deviceMap'[k] = deviceMap[k],
           Announces(k, 1) => nameMap'[k] = Announced(1),
           ~Announces(k, 1) => nameMap'[k] = nameMap[k]
    PROVE  Follows(k)'
  <1>0. /\ Len(requests) \in Nat \ {0} /\ Len(requests') = Len(requests) - 1
        /\ \A i \in 1 .. Len(requests') : requests'[i] = requests[i + 1]
    BY AskedType
  <1>1. ASSUME NEW i, Announces(k, i)'
        PROVE  i \in Nat \ {0} /\ Announces(k, i + 1) /\ Announced(i)' = Announced(i + 1)
    BY <1>0, <1>1 DEF Announces, Announced
  <1>2. ASSUME NEW i, Announces(k, i), i # 1
        PROVE  i \in Nat /\ Announces(k, i - 1)'
    <2>1. i \in Nat /\ i - 1 \in 1 .. Len(requests') /\ (i - 1) + 1 = i
      BY <1>0, <1>2 DEF Announces
    <2>2. requests'[i - 1] = requests[i]
      BY <1>0, <2>1
    <2>3. requests'[i - 1].dev.key = k /\ requests'[i - 1].op \in {"add", "remove"}
      BY <1>2, <2>2 DEF Announces
    <2> QED
      BY <2>1, <2>3 DEF Announces
  <1>3. ASSUME \A i : ~Announces(k, i)' PROVE nameMap'[k] = deviceMap'[k]
    <2>1. \A i : Announces(k, i) => i = 1
      BY <1>2, <1>3
    <2>2. CASE Announces(k, 1)
      <3>1. AnnouncesLast(k, 1)
        BY <2>1, <2>2 DEF AnnouncesLast
      <3> QED
        BY <2>2, <3>1 DEF Follows
    <2>3. CASE ~Announces(k, 1)
      BY <2>1, <2>3 DEF Follows
    <2> QED
      BY <2>2, <2>3
  <1>4. ASSUME NEW i, AnnouncesLast(k, i)' PROVE deviceMap'[k] = Announced(i)'
    <2>1. i \in Nat \ {0} /\ Announces(k, i + 1) /\ Announced(i)' = Announced(i + 1)
      BY <1>1, <1>4 DEF AnnouncesLast
    <2>2. ASSUME NEW l, Announces(k, l) PROVE l <= i + 1
      <3>1. CASE l = 1
        BY <2>1, <3>1
      <3>2. CASE l # 1
        <4>1. l \in Nat /\ Announces(k, l - 1)'
          BY <1>2, <2>2, <3>2
        <4>2. \A p : Announces(k, p)' => p <= i
          BY <1>4 DEF AnnouncesLast
        <4>3. l - 1 <= i
          BY <4>1, <4>2
        <4> QED
          BY <2>1, <4>1, <4>3
      <3> QED
        BY <3>1, <3>2
    <2>3. AnnouncesLast(k, i + 1)
      BY <2>1, <2>2 DEF AnnouncesLast
    <2> QED
      BY <2>1, <2>3 DEF Follows
  <1> QED
    BY <1>3, <1>4 DEF Follows

\* What the handler has told the server of, the profile does not refuse.
LEMMA NotRefused ==
    ASSUME LifeInv, ProfileInv, NEW a \in Addresses, Told(a)
    PROVE  profile[a] = deviceMap[a] /\ (IsAdding(a) => deviceMap[a] = None)
  <1>1. CASE a \notin lost
    BY <1>1 DEF ProfileInv, Heard
  <1>2. CASE phase \in Unlisted
    BY <1>2 DEF LifeInv, PhaseInv
  <1> QED
    BY <1>1, <1>2 DEF Told

\* A handler has added the device that it was adding.
LEMMA FollowsAdded ==
    ASSUME LifeInv, ProfileInv, NEW k \in Keys, Told(k), Follows(k),
           NEW h \in Handlers, AddEnds(h)
    PROVE  Follows(k)'
  <1> DEFINE c == adding[h].key
  <1>0. JobType /\ DeviceType /\ "bt" \in Handlers
    BY DEF LifeInv, Types, Handlers
  <1>1. PICK n \in 1 .. MaxObjects :
          /\ deviceMap' = [deviceMap EXCEPT ![c] = Device(c, n)]
          /\ Ask(IF HookThrows(c) THEN <<>> ELSE <<Request("add", Device(c, n))>>)
          /\ UNCHANGED nameMap
    BY DEF AddEnds
  <1>2. adding[h] \in Jobs /\ Work(h, adding[h]) /\ adding[h] # None
    BY <1>0, KeysApart DEF AddEnds, Free, JobType, Work
  <1>3. c \in Keys /\ HandlerOf(c) = h
    BY <1>2, JobTypes DEF LifeInv, WorkInv
  <1>4. c \in Addresses => IsAdding(c)
    BY <1>2, <1>3, KeysApart DEF IsAdding
  <1> HIDE DEF c
  <1> DEFINE r == Request("add", Device(c, n))
  <1>5. r \in Requests /\ r.op = "add" /\ r.dev = Device(c, n) /\ r.dev.key = c
    BY <1>3, RequestType DEF Ops
  <1>6. /\ deviceMap'[c] = Device(c, n)
        /\ k # c => deviceMap'[k] = deviceMap[k]
    BY <1>0, <1>1, <1>3 DEF DeviceType
  <1>7. CASE HookThrows(c)
    <2>1. requests' = requests
      BY <1>0, <1>1, <1>7, AskNothing
    <2>2. k # c
      <3> SUFFICES ASSUME k = c PROVE FALSE
        OBVIOUS
      <3>1. c \in Addresses /\ Told(c) /\ profile[c] # None
        BY <1>7 DEF HookThrows
      <3> QED
        BY <1>4, <3>1, NotRefused
    <2> QED
      BY <1>1, <1>6, <2>1, <2>2, FollowsSame
  <1>8. CASE ~HookThrows(c)
    <2>1. Ask(<<r>>)
      BY <1>1, <1>8
    <2> HIDE DEF r
    <2>2. CASE k = c
      BY <1>0, <1>5, <1>6, <2>1, <2>2, FollowsNews
    <2>3. CASE k # c
      BY <1>0, <1>1, <1>5, <1>6, <2>1, <2>3, FollowsOthers
    <2> QED
      BY <2>2, <2>3
  <1> QED
    BY <1>7, <1>8

\* A device is listed under its own key.
Named == \A k \in Keys : deviceMap[k] # None => deviceMap[k].key = k

LEMMA NamedAlways == Spec => []Named
  <1>1. Init => Named
    BY DEF Init, Named
  <1>2. LifeInv /\ Named /\ [Next]_vars => Named'
    <2> SUFFICES ASSUME LifeInv, Named, [Next]_vars PROVE Named'
      OBVIOUS
    <2>0. JobType /\ DeviceType
      BY DEF LifeInv, Types
    <2>1. ASSUME deviceMap' = deviceMap PROVE Named'
      BY <2>1 DEF Named
    <2>2. ASSUME NEW h \in Handlers, AddEnds(h) PROVE Named'
      <3> DEFINE c == adding[h].key
      <3>1. PICK n \in 1 .. MaxObjects : deviceMap' = [deviceMap EXCEPT ![c] = Device(c, n)]
        BY <2>2 DEF AddEnds
      <3>2. c \in Keys
        BY <2>0, <2>2, JobTypes DEF AddEnds, Free, JobType
      <3> HIDE DEF c
      <3>3. Device(c, n).key = c
        BY <3>2, RequestType
      <3> QED
        BY <2>0, <3>1, <3>2, <3>3 DEF Named, DeviceType
    <2>3. ASSUME NEW h \in Handlers, RemoveDevice(h) PROVE Named'
      <3>1. deviceMap' = [deviceMap EXCEPT ![Head(jobs[h]).key] = None]
        BY <2>3 DEF RemoveDevice, Removed
      <3> QED
        BY <2>0, <3>1 DEF Named, DeviceType
    <2>4. CASE Environment \/ ScanStarts \/ ScanEnded
      BY <2>1, <2>4 DEF Environment, HostChanges, BluezChanges, NewConnection, UserConnects,
         TransportEnds, Quit, ScanStarts, ScanEnded, ScanEnds, handlers
    <2>5. ASSUME NEW h \in Handlers, AddBegins(h) \/ AddGivesUp(h) PROVE Named'
      BY <2>1, <2>5 DEF AddBegins, AddGivesUp
    <2>6. CASE Serve
      BY <2>1, <2>6 DEF Serve, ServeAdd, ServeRemove, ServeConnect, ServeSelfConnect,
         ServeDisconnect, ServeStop, Connects, SetUp, Asked, handlers
    <2>7. CASE Advance
      BY <2>1, <2>7 DEF Advance, BuildHandlers, StartScan, RegisterProfile, StartDiscovery,
         AddListed, Listen, InitServices, StopScan, StopDiscovery, UnregisterProfile,
         Exit, Rest, handlers
    <2>8. CASE UNCHANGED vars
      BY <2>1, <2>8 DEF vars, handlers
    <2> QED
      BY <2>2, <2>3, <2>4, <2>5, <2>6, <2>7, <2>8 DEF Next, Handle
  <1> QED
    BY <1>1, <1>2, LifeInvAlways, PTL DEF Spec

\* A handler has removed a device.
LEMMA FollowsRemoved ==
    ASSUME LifeInv, ProfileInv, Named, NEW k \in Keys, Told(k), Follows(k),
           NEW h \in Handlers, RemoveDevice(h)
    PROVE  Follows(k)'
  <1> DEFINE c == Head(jobs[h]).key
             d == deviceMap[c]
             throws == c \in Addresses /\ profile[c] # d
  <1>0. JobType /\ DeviceType
    BY DEF LifeInv, Types
  <1>1. /\ deviceMap' = [deviceMap EXCEPT ![c] = None]
        /\ Ask(IF d = None \/ throws THEN <<>> ELSE <<Request("remove", d)>>)
        /\ UNCHANGED nameMap
    BY DEF RemoveDevice, Removed
  <1>2. c \in Keys
    BY <1>0, NextJobType, JobTypes DEF RemoveDevice
  <1> HIDE DEF c
  <1>3. d \in MaybeDevice /\ (d # None => d \in Devices /\ d.key = c)
    BY <1>0, <1>2 DEF DeviceType, MaybeDevice, Named
  <1>4. /\ deviceMap'[c] = None
        /\ k # c => deviceMap'[k] = deviceMap[k]
    BY <1>0, <1>1, <1>2 DEF DeviceType
  <1>5. CASE d = None \/ throws
    <2>1. requests' = requests
      BY <1>0, <1>1, <1>5, AskNothing
    <2>2. deviceMap'[k] = deviceMap[k]
      <3>1. CASE k # c
        BY <1>4, <3>1
      <3>2. CASE k = c
        <4>1. ~throws
          BY <3>2, NotRefused
        <4> QED
          BY <1>4, <1>5, <3>2, <4>1
      <3> QED
        BY <3>1, <3>2
    <2> QED
      BY <1>1, <2>1, <2>2, FollowsSame
  <1>6. CASE ~(d = None \/ throws)
    <2> DEFINE r == Request("remove", d)
    <2>1. r \in Requests /\ r.op = "remove" /\ r.dev.key = c
      BY <1>3, <1>6, RequestType DEF Ops
    <2>2. Ask(<<r>>)
      BY <1>1, <1>6
    <2> HIDE DEF r
    <2>3. CASE k # c
      <3>1. deviceMap'[k] = deviceMap[k]
        BY <1>4, <1>6, <2>3
      <3> QED
        BY <1>0, <1>1, <2>1, <2>2, <2>3, <3>1, FollowsOthers
    <2>4. CASE k = c
      BY <1>0, <1>4, <2>1, <2>2, <2>4, FollowsNews
    <2> QED
      BY <2>3, <2>4
  <1> QED
    BY <1>5, <1>6

LEMMA FollowStep == LifeInv /\ ProfileInv /\ Named /\ FollowInv /\ [Next]_vars => FollowInv'
  <1> SUFFICES ASSUME LifeInv, ProfileInv, Named, FollowInv, [Next]_vars,
                      NEW k \in Keys, Told(k)'
               PROVE  Follows(k)'
    BY DEF FollowInv
  <1>0. JobType /\ DeviceType
    BY DEF LifeInv, Types
  <1>1. Told(k)
    <2>1. phase' \in Unlisted => phase \in Unlisted
      <3>1. CASE Environment \/ ScanStarts \/ ScanEnded
        BY <3>1 DEF Environment, HostChanges, BluezChanges, NewConnection, UserConnects,
           TransportEnds, Quit, StopBegins, StopReturns, ScanStarts, ScanEnded, ScanEnds,
           lifecycle, Unlisted
      <3>2. CASE \E h \in Handlers : Handle(h)
        BY <3>2 DEF Handle, AddBegins, AddGivesUp, AddEnds, RemoveDevice, Awaited,
           lifecycle, Unlisted
      <3>3. CASE Serve
        BY <3>3 DEF Serve, ServeAdd, ServeRemove, ServeConnect, ServeSelfConnect,
           ServeDisconnect, ServeStop, Connects, SetUp, lifecycle, Unlisted
      <3>4. CASE Advance
        BY <3>4 DEF Advance, BuildHandlers, StartScan, RegisterProfile, StartDiscovery,
           AddListed, Listen, InitServices, StopScan, StopDiscovery, UnregisterProfile,
           Exit, lifecycle, Unlisted
      <3>5. CASE UNCHANGED vars
        BY <3>5 DEF vars, lifecycle
      <3> QED
        BY <3>1, <3>2, <3>3, <3>4, <3>5 DEF Next
    <2>2. CASE StartDiscovery
      BY <2>2 DEF Told, StartDiscovery, Unlisted
    <2>3. CASE ~StartDiscovery
      BY <2>1, <2>3, LostGrows DEF Told
    <2> QED
      BY <2>2, <2>3
  <1>2. Follows(k)
    BY <1>1 DEF FollowInv
  <1>3. ASSUME UNCHANGED <<requests, deviceMap, nameMap>> PROVE Follows(k)'
    BY <1>2, <1>3, FollowsSame
  <1>4. ASSUME NEW op \in {"connect", "selfConnect", "disconnect", "stop"}, NEW d \in Devices,
               Ask(<<Request(op, d)>>), UNCHANGED <<deviceMap, nameMap>>
        PROVE  Follows(k)'
    <2> DEFINE r == Request(op, d)
    <2>1. r \in Requests /\ r.op \notin {"add", "remove"}
      BY <1>4, RequestType DEF Ops
    <2>2. Ask(<<r>>)
      BY <1>4
    <2> HIDE DEF r
    <2> QED
      BY <1>0, <1>2, <1>4, <2>1, <2>2, FollowsOthers
  <1>5. CASE \/ \E m \in Macs : HostChanges(m)
             \/ \E a \in Addresses : BluezChanges(a)
             \/ ScanStarts \/ ScanEnded
    BY <1>3, <1>5 DEF HostChanges, BluezChanges, ScanStarts, ScanEnded, ScanEnds, handlers, server
  <1>6. ASSUME NEW a \in Addresses, NewConnection(a) PROVE Follows(k)'
    <2>1. /\ Ask(<<Request("selfConnect", profile[a])>>)
          /\ UNCHANGED <<deviceMap, nameMap>> /\ profile[a] \in Devices
      BY <1>0, <1>6 DEF NewConnection, handlers, DeviceType, MaybeDevice
    <2> QED
      BY <1>4, <2>1
  <1>7. ASSUME NEW c \in Keys, UserConnects(c) PROVE Follows(k)'
    <2>1. /\ Ask(<<Request("connect", nameMap[c])>>)
          /\ UNCHANGED <<deviceMap, nameMap>> /\ nameMap[c] \in Devices
      BY <1>0, <1>7 DEF UserConnects, handlers, DeviceType, MaybeDevice
    <2> QED
      BY <1>4, <2>1
  <1>8. CASE TransportEnds
    <2>1. /\ Ask(<<Request("disconnect", connected)>>)
          /\ UNCHANGED <<deviceMap, nameMap>> /\ connected \in Devices
      BY <1>0, <1>8 DEF TransportEnds, handlers, DeviceType, MaybeDevice
    <2> QED
      BY <1>4, <2>1
  <1>9. CASE Quit
    <2>0. UNCHANGED <<deviceMap, nameMap>>
      BY <1>9 DEF Quit, handlers
    <2>1. CASE requests' = requests
      BY <1>3, <2>0, <2>1
    <2>2. CASE connected # None /\ Ask(<<Request("stop", connected)>>)
      <3>1. connected \in Devices
        BY <1>0, <2>2 DEF DeviceType, MaybeDevice
      <3> QED
        BY <1>4, <2>0, <2>2, <3>1
    <2> QED
      BY <1>9, <2>1, <2>2 DEF Quit, StopBegins, StopReturns
  <1>10. ASSUME NEW h \in Handlers, AddBegins(h) \/ AddGivesUp(h) PROVE Follows(k)'
    BY <1>3, <1>10 DEF AddBegins, AddGivesUp, server
  <1>11. ASSUME NEW h \in Handlers, AddEnds(h) PROVE Follows(k)'
    BY <1>1, <1>2, <1>11, FollowsAdded
  <1>12. ASSUME NEW h \in Handlers, RemoveDevice(h) PROVE Follows(k)'
    BY <1>1, <1>2, <1>12, FollowsRemoved
  <1>13. ASSUME NEW op, Asked(op)
         PROVE  /\ Announces(k, 1) <=> Subject.key = k /\ op \in {"add", "remove"}
                /\ Announced(1) = IF op = "add" THEN Subject ELSE None
                /\ deviceMap' = deviceMap
    BY <1>0, <1>13, AskedType DEF Announces, Announced, Subject, Asked, handlers
  <1>14. CASE ServeAdd
    <2>1. Asked("add") /\ nameMap' = [nameMap EXCEPT ![Subject.key] = Subject]
      BY <1>14 DEF ServeAdd
    <2>2. /\ Announces(k, 1) => nameMap'[k] = Announced(1)
          /\ ~Announces(k, 1) => nameMap'[k] = nameMap[k]
      BY <1>0, <1>13, <2>1 DEF DeviceType
    <2>3. deviceMap' = deviceMap
      BY <1>13, <2>1
    <2> QED
      BY <1>0, <1>2, <2>1, <2>2, <2>3, FollowsServed
  <1>15. CASE ServeRemove
    <2>1. Asked("remove") /\ nameMap' = [nameMap EXCEPT ![Subject.key] = None]
      BY <1>15 DEF ServeRemove
    <2>2. /\ Announces(k, 1) => nameMap'[k] = Announced(1)
          /\ ~Announces(k, 1) => nameMap'[k] = nameMap[k]
      BY <1>0, <1>13, <2>1 DEF DeviceType
    <2>3. deviceMap' = deviceMap
      BY <1>13, <2>1
    <2> QED
      BY <1>0, <1>2, <2>1, <2>2, <2>3, FollowsServed
  <1>16. CASE ServeConnect \/ ServeSelfConnect \/ ServeDisconnect \/ ServeStop
    <2>1. PICK op \in {"connect", "selfConnect", "disconnect", "stop"} :
             Asked(op) /\ nameMap' = nameMap
      BY <1>16 DEF ServeConnect, ServeSelfConnect, ServeDisconnect, ServeStop
    <2>2. ~Announces(k, 1) /\ deviceMap' = deviceMap
      BY <1>13, <2>1
    <2> QED
      BY <1>0, <1>2, <2>1, <2>2, FollowsServed
  <1>17. CASE Connects \/ SetUp
    BY <1>3, <1>17 DEF Connects, SetUp, handlers
  <1>18. CASE Advance
    BY <1>3, <1>18 DEF Advance, BuildHandlers, StartScan, RegisterProfile, StartDiscovery,
       AddListed, Listen, InitServices, StopScan, StopDiscovery, UnregisterProfile,
       Exit, Rest, handlers, server
  <1>19. CASE UNCHANGED vars
    BY <1>3, <1>19 DEF vars, handlers, server
  <1> QED
    BY <1>5, <1>6, <1>7, <1>8, <1>9, <1>10, <1>11, <1>12, <1>14, <1>15, <1>16, <1>17,
       <1>18, <1>19 DEF Next, Environment, Handle, Serve

\* When no call waits for a lock, the server lists exactly the devices of its
\* handlers, the very objects, however scans and events overlapped.
THEOREM ServerListsDevices == Spec => []ServerFollowsHandlers
  <1>1. Init => FollowInv
    <2> SUFFICES ASSUME Init, NEW k \in Keys PROVE Follows(k)
      BY DEF FollowInv
    <2>1. \A i : ~Announces(k, i)
      BY DEF Init, Announces
    <2> QED
      BY <2>1 DEF Init, Follows, AnnouncesLast
  <1>2. FollowInv => ServerFollowsHandlers
    <2> SUFFICES ASSUME FollowInv, requests = <<>>, NEW k \in Keys, k \notin lost
                 PROVE  nameMap[k] = deviceMap[k]
      BY DEF ServerFollowsHandlers, Settled
    <2>1. \A i : ~Announces(k, i)
      BY DEF Announces
    <2> QED
      BY <2>1 DEF FollowInv, Told, Follows
  <1> QED
    BY <1>1, <1>2, FollowStep, LifeInvAlways, ProfileAlways, NamedAlways, PTL DEF Spec

=============================================================================
