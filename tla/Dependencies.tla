---------------------------- MODULE Dependencies ----------------------------
(***************************************************************************)
(* What AndroidAutoServer calls the dependencies of a connection: the      *)
(* cryptor, the services 1..NumServices in the order of the services array *)
(* and the control service.  Each keeps a started flag, each start and     *)
(* stop asserts that flag, and startDependencies / stopDependencies call   *)
(* them one after the other, without suspending, so each call is a single  *)
(* step of the server.  The outcome of a call is not unique, because the   *)
(* stop of a service may throw: the operators below return the set of the  *)
(* possible outcomes.                                                      *)
(*                                                                         *)
(* The cryptor is NodeCryptor, whose started flag is                       *)
(* "this.cleartext !== undefined".  The control service's flag also stands *)
(* for its pinger's, which is set and cleared with it.                     *)
(***************************************************************************)
EXTENDS Naturals

CONSTANTS
    NumServices,    \* how many services the server was built with
    FaultyServices  \* the services whose stop may throw when they are started

ASSUME DependenciesAssumption ==
    /\ NumServices \in Nat
    /\ FaultyServices \subseteq 1 .. NumServices

Services == 1 .. NumServices

\* The three kinds of dependencies a connection starts, with their flags.
DependencyStates ==
    [cryptor : BOOLEAN, services : [Services -> BOOLEAN], control : BOOLEAN]

AllStopped ==
    [cryptor |-> FALSE, services |-> [i \in Services |-> FALSE], control |-> FALSE]

AllStarted ==
    [cryptor |-> TRUE, services |-> [i \in Services |-> TRUE], control |-> TRUE]

-----------------------------------------------------------------------------
(***************************************************************************)
(* stopServices(i): the services are stopped from i down to the first, and *)
(* the first stop that throws, at service k, ends the loop.  A stop throws *)
(* when the service is not started (the assertion of Service.stop, which   *)
(* leaves it so) or when the service is a faulty one, before or after it   *)
(* has cleared its flag.  k = 0 when no stop throws.                       *)
(***************************************************************************)
StopServices(started, last) ==
    {r \in [services : [Services -> BOOLEAN], threw : BOOLEAN] :
        \E k \in 0 .. last :
            /\ r.threw = (k > 0)
            /\ \A i \in Services :
                 \/ i \in (k + 1) .. last /\ started[i] /\ ~r.services[i]
                 \/ i \notin k .. last /\ r.services[i] = started[i]
                 \/ i = k /\ ~started[i] /\ ~r.services[i]
                 \/ i = k /\ started[i] /\ i \in FaultyServices}

(***************************************************************************)
(* stopDependencies(): the control service, the services and the cryptor   *)
(* each in a try of its own, so that a failure of one does not keep the    *)
(* next from being stopped.                                                *)
(***************************************************************************)
StopDependencies(deps) ==
    {[control |-> FALSE, services |-> r.services, cryptor |-> FALSE] :
        r \in StopServices(deps.services, NumServices)}

-----------------------------------------------------------------------------
(***************************************************************************)
(* startServices(): the services are started in order; the first one that  *)
(* is already started fails the assertion of Service.start, and then those *)
(* before it are stopped again.                                            *)
(***************************************************************************)
StartServices(started) ==
    LET running == {i \in Services : started[i]}
        first == CHOOSE i \in running : \A j \in running : i <= j
    IN IF running = {}
       THEN {[services |-> AllStarted.services, threw |-> FALSE]}
       ELSE {[services |-> r.services, threw |-> TRUE] :
               r \in StopServices([i \in Services |-> i < first \/ started[i]],
                                  first - 1)}

(***************************************************************************)
(* startDependencies(): ok is FALSE when it throws.                        *)
(*  - A cryptor that is still started fails the assertion of               *)
(*    NodeCryptor.start, and nothing else is touched.                      *)
(*  - startServices is not inside a try: when it throws, the cryptor just  *)
(*    started stays started.                                               *)
(*  - A control service that is still started fails the assertion of       *)
(*    Service.start; then the services and the cryptor are stopped in one  *)
(*    try, which a service's stop that throws leaves before the cryptor.   *)
(***************************************************************************)
StartDependencies(deps) ==
    IF deps.cryptor
    THEN {[ok |-> FALSE, deps |-> deps]}
    ELSE UNION
      {IF r.threw
       THEN {[ok |-> FALSE,
              deps |-> [deps EXCEPT !.cryptor = TRUE, !.services = r.services]]}
       ELSE IF ~deps.control
       THEN {[ok |-> TRUE, deps |-> AllStarted]}
       ELSE {[ok |-> FALSE,
              deps |-> [deps EXCEPT !.cryptor = s.threw, !.services = s.services]] :
               s \in StopServices(r.services, NumServices)} :
       r \in StartServices(deps.services)}

=============================================================================
