------------------------------ MODULE Services ------------------------------
(***************************************************************************)
(* The Services of a CellCluster: how the PD and store member managers     *)
(* build, compare and submit them, and service_control.go.  The client     *)
(* service of PD has the type the user asks for, and an address that       *)
(* Kubernetes gives it; the headless service (that of PD's peers stands    *)
(* for the stores' too) has what this version of the operator gives it.    *)
(***************************************************************************)
EXTENDS Naturals

CONSTANTS
  Rollback,     \* an older version of the operator can be installed
  MaxChanges,   \* bounds: what the user and new versions of the operator ask for,
  MaxFaults,    \* failed requests, restarts, writes and deletions by others,
  MaxTries      \* and the attempts of RetryOnConflict

ASSUME ServicesAssumption ==
  /\ Rollback \in BOOLEAN
  /\ MaxChanges \in Nat /\ MaxFaults \in Nat /\ MaxTries \in Nat \ {0}

VARIABLES
  want,        \* the spec each service is to have
  svc,         \* the stored services
  svcCache,    \* the informer's copies
  current,     \* which copies have the stored version: the cache's, the request's
  turn,        \* the service the pass comes to next
  req,         \* the update in flight
  budget

vars == <<want, svc, svcCache, current, turn, req, budget>>

Services == {"client", "headless"}
Specs == {1, 2}

\* A spec as an annotation describes it: with the address, or before there is one.
Applied == [spec : {0} \cup Specs, address : BOOLEAN]
Service == [spec : {0} \cup Specs, applied : Applied]
NoService == [spec |-> 0, applied |-> [spec |-> 0, address |-> FALSE]]
Exists(service) == service.spec # 0
NoRequest == [tries |-> 0, new |-> NoService]
Writing == req.tries > 0
NotCurrent == [current EXCEPT ![turn] = [cache |-> FALSE, req |-> FALSE]]

Init ==
  /\ want = [s \in Services |-> 1]
  /\ svc = [s \in Services |-> NoService] /\ svcCache = svc
  /\ current = [s \in Services |-> [cache |-> TRUE, req |-> FALSE]]
  /\ turn = "client" /\ req = NoRequest
  /\ budget = [changes |-> MaxChanges, faults |-> MaxFaults]

Spend(what) == budget[what] > 0 /\ budget' = [budget EXCEPT ![what] = @ - 1]

\* The next service of this pass, or the first one of the next pass: an error
\* ends this one.
FollowingEnds == IF turn = "client" THEN "headless" ELSE "idle"
Following == IF turn = "client" THEN "headless" ELSE "client"
GoOn == turn' = Following
EndPass == turn' = "client"

-----------------------------------------------------------------------------
(* A manager's sync of the service *)

\* getNew...Service: no address in it, for Kubernetes gives it ("None" is none).
New == [spec |-> want[turn], applied |-> [spec |-> want[turn], address |-> FALSE]]

\* serviceEqual: the new spec and the annotation of the old service.
ServiceEqual == svcCache[turn].applied = New.applied

\* What is submitted.  The client's annotation is set with the old address already
\* in the spec, so that it never equals that of a new service; the headless
\* service's is set on the object that is not submitted.
ChangedWithoutAddress ==
  [New EXCEPT !.applied = IF turn = "client" THEN @ ELSE svcCache[turn].applied]
Changed ==
  IF turn = "client" THEN [New EXCEPT !.applied.address = TRUE]
  ELSE [New EXCEPT !.applied = svcCache[turn].applied]

Create ==
  /\ ~Writing /\ ~Exists(svcCache[turn])
  /\ \/ /\ ~Exists(svc[turn])
        /\ svc' = [svc EXCEPT ![turn] = New] /\ current' = NotCurrent
        /\ GoOn /\ UNCHANGED budget
     \/ Exists(svc[turn]) /\ EndPass /\ UNCHANGED <<svc, current, budget>>
     \/ EndPass /\ Spend("faults") /\ UNCHANGED <<svc, current>>
  /\ UNCHANGED <<want, svcCache, req>>

\* svc := *oldSvc shares the annotations with the cached object.
Update ==
  /\ ~Writing /\ Exists(svcCache[turn])
  /\ IF ServiceEqual
     THEN GoOn /\ UNCHANGED <<svcCache, current, req>>
     ELSE /\ req' = [tries |-> MaxTries, new |-> Changed]
          /\ svcCache' = [svcCache EXCEPT ![turn].applied = Changed.applied]
          /\ current' = [current EXCEPT ![turn].req = current[turn].cache]
          /\ UNCHANGED turn
  /\ UNCHANGED <<want, svc, budget>>

-----------------------------------------------------------------------------
(* UpdateService *)

\* An update that changes nothing makes no new version.
Accepted ==
  /\ Writing /\ Exists(svc[turn]) /\ current[turn].req
  /\ svc' = [svc EXCEPT ![turn] = req.new]
  /\ current' = IF req.new = svc[turn] THEN current ELSE NotCurrent
  /\ req' = NoRequest /\ GoOn
  /\ UNCHANGED <<want, svcCache, budget>>

\* The condition is inverted: after a conflict the same object is sent again.
Conflict ==
  /\ Writing /\ Exists(svc[turn]) /\ ~current[turn].req /\ Exists(svcCache[turn])
  /\ IF req.tries > 1 THEN req' = [req EXCEPT !.tries = @ - 1] /\ UNCHANGED turn
     ELSE req' = NoRequest /\ EndPass
  /\ UNCHANGED <<want, svc, svcCache, current, budget>>

Gone ==
  /\ Writing /\ ~Exists(svc[turn]) /\ Exists(svcCache[turn])
  /\ req' = NoRequest /\ EndPass
  /\ UNCHANGED <<want, svc, svcCache, current, budget>>

Failed ==
  /\ Writing /\ Exists(svcCache[turn]) /\ Spend("faults")
  /\ \/ UNCHANGED <<svc, current>>
     \/ /\ Exists(svc[turn]) /\ current[turn].req
        /\ svc' = [svc EXCEPT ![turn] = req.new] /\ current' = NotCurrent
  /\ req' = NoRequest /\ EndPass
  /\ UNCHANGED <<want, svcCache>>

NewProcess ==
  /\ svcCache' = svc
  /\ current' = [s \in Services |-> [cache |-> TRUE, req |-> FALSE]]
  /\ req' = NoRequest /\ turn' = "client"
  /\ UNCHANGED svc

\* With the service gone from the lister too, what is dereferenced after an error
\* is nil: the operator dies.
Panic ==
  /\ Writing /\ ~Exists(svcCache[turn])
  /\ ~Exists(svc[turn]) \/ ~current[turn].req
  /\ NewProcess
  /\ UNCHANGED <<want, budget>>

-----------------------------------------------------------------------------
(* Around it *)

DeliverService(s) ==
  /\ ~current[s].cache
  /\ svcCache' = [svcCache EXCEPT ![s] = svc[s]]
  /\ current' = [current EXCEPT ![s].cache = TRUE]
  /\ UNCHANGED <<want, svc, turn, req, budget>>

\* The user edits spec.services.
EditType ==
  /\ Spend("changes")
  /\ want' = [want EXCEPT !["client"] = 3 - @]
  /\ UNCHANGED <<svc, svcCache, current, turn, req>>

\* Another version of the operator is installed.
Reinstall ==
  /\ Spend("changes")
  /\ want["headless"] = 1 \/ Rollback
  /\ want' = [want EXCEPT !["headless"] = 3 - @]
  /\ NewProcess

Restart == Spend("faults") /\ NewProcess /\ UNCHANGED want

\* Somebody writes a service without changing it for us (a load balancer its
\* status), or deletes it.
Touch(s) ==
  /\ Exists(svc[s]) /\ Spend("faults")
  /\ \/ UNCHANGED svc
     \/ svc' = [svc EXCEPT ![s] = NoService]
  /\ current' = [current EXCEPT ![s] = [cache |-> FALSE, req |-> FALSE]]
  /\ UNCHANGED <<want, svcCache, turn, req>>

Next ==
  \/ Create \/ Update \/ Accepted \/ Conflict \/ Gone \/ Failed \/ Panic
  \/ \E s \in Services : DeliverService(s) \/ Touch(s)
  \/ EditType \/ Reinstall \/ Restart

\* Passes recur, requests end and events arrive.
Fairness ==
  /\ WF_vars(Create) /\ WF_vars(Update)
  /\ WF_vars(Accepted \/ Conflict \/ Gone \/ Panic)
  /\ \A s \in Services : WF_vars(DeliverService(s))

Spec == Init /\ [][Next]_vars
FairSpec == Spec /\ Fairness

-----------------------------------------------------------------------------
(* Properties *)

\* Type correctness of the services, their copies and the request.
TypeOK ==
  /\ want \in [Services -> Specs]
  /\ svc \in [Services -> Service] /\ svcCache \in [Services -> Service]
  /\ current \in [Services -> [cache : BOOLEAN, req : BOOLEAN]]
  /\ turn \in Services
  /\ req \in [tries : 0 .. MaxTries, new : Service]
  /\ budget \in [changes : 0 .. MaxChanges, faults : 0 .. MaxFaults]

\* Each service comes to exist with the spec asked for, and stays so, although a
\* conflict is never resolved within a pass, a nil is dereferenced, and the
\* annotation that is to say what was applied is written into the cache before
\* it is: nothing is lost, because no service that was updated once ever compares
\* equal to what it is to become.  (It does when an operator is rolled back: the
\* annotation of the headless service still is that of its creation.)
ServicesConverge == <>[](\A s \in Services : svc[s].spec = want[s])
=============================================================================
