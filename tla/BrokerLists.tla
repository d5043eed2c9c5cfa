------------------------------ MODULE BrokerLists ------------------------------
(***************************************************************************)
(* A redirection of the TSP client (tsp_redirect.c): the brokers a server  *)
(* names are made a list, a thread each measures how far they are with an  *)
(* echo request over UDP (unix-echo-request.c, net_echo_request.c), the    *)
(* list is sorted by distance and saved, and a client that is started      *)
(* again may read it back.  Time is counted in ticks of Timeout: the       *)
(* adjustments of the distance keep their ratio to it (1 : 2 : 2 : 3).     *)
(***************************************************************************)
EXTENDS Naturals, Sequences, SequencesExt, FiniteSets

CONSTANTS
  Address,         \* what a redirection may name as a broker
  Messages,        \* the redirections a server may send
  TooLong,         \* addresses longer than MAX_REDIRECT_ADDRESS_LENGTH
  MaxInList,       \* MAX_REDIRECT_BROKERS_IN_LIST
  Timeout,         \* ECHO_REQUEST_TIMEOUT
  Attempts,        \* ECHO_REQUEST_ATTEMPTS
  MaxRedirects,    \* bound: redirections received
  MaxRestarts      \* bound: times the client ends or crashes and starts again

TimeoutAdjust == 2 * Timeout
ErrorAdjust == 2 * Timeout
WrongFamilyAdjust == 3 * Timeout

ASSUME BrokerListsAssumption ==
  /\ Messages \subseteq [ipv4 : Seq(Address), ipv6 : Seq(Address), dn : Seq(Address)]
  /\ MaxInList \in Nat /\ Timeout \in Nat \ {0} /\ Attempts \in Nat \ {0}
  /\ MaxRedirects \in Nat /\ MaxRestarts \in Nat

VARIABLES
  phase,        \* where the main thread is
  result,       \* what tspHandleRedirect, or reading the file, returned
  v4v6,         \* conf->tunnel_mode is V4V6: brokers are reached over IPv6
  list,         \* the broker list: addresses, types and distances
  sorted,       \* the sorted list tspSortBrokerList is making
  next,         \* the next element to start or to join a thread for, or to insert
  thread,       \* the threads, by their element of the list
  file,         \* the broker_list file: addresses
  redirects, restarts

threads == <<list, thread>>
vars == <<phase, result, v4v6, list, sorted, next, thread, file, redirects, restarts>>

Positions == 1 .. MaxInList
NotStarted == [at |-> "none", distance |-> 0, retries |-> 0, waited |-> 0,
               family |-> TRUE, status |-> "none"]
NoThreads == [i \in Positions |-> NotStarted]

Broker(address, type) == [address |-> address, type |-> type, distance |-> 0]
ListOf(addresses, type) == [i \in DOMAIN addresses |-> Broker(addresses[i], type)]
Addresses(s) == [i \in DOMAIN s |-> s[i].address]

-------------------------------------------------------------------------------
(* The list: made of the three groups of a message, sorted by insertion        *)

tspCreateBrokerList(m) ==
  ListOf(m.ipv4, "IPV4") \o ListOf(m.ipv6, "IPV6") \o ListOf(m.dn, "FQDN")

\* An element is added unless it is one too many or its address is cut.
tspAddBrokerToList(addresses) ==
  Len(addresses) <= MaxInList /\ \A i \in DOMAIN addresses : addresses[i] \notin TooLong

\* A new element goes after all those it is further than.
tspInsertInBrokerList(s, new) ==
  LET passed == {i \in DOMAIN s : \A k \in 1 .. i : new.distance > s[k].distance}
  IN  InsertAt(s, Cardinality(passed) + 1, new)

Stop(r) == phase' = "stopped" /\ result' = r
GoOn(p) == phase' = p /\ result' = "none"

\* tspHandleRedirect up to the sort.  The list before is freed; a message that
\* cannot be parsed leaves it.
tspHandleRedirect ==
  /\ phase = "idle" /\ redirects < MaxRedirects
  /\ redirects' = redirects + 1
  /\ next' = 1
  /\ thread' = NoThreads
  /\ \/ Stop("CANT_EXTRACT_PAYLOAD") /\ UNCHANGED list
     \/ Stop("CANT_CREATE_LIST") /\ list' = <<>>
     \/ \E m \in Messages :
          LET brokers == tspCreateBrokerList(m) IN
          IF ~tspAddBrokerToList(Addresses(brokers))
          THEN Stop("CANT_CREATE_LIST") /\ list' = <<>>
          ELSE /\ list' = brokers
               /\ CASE Len(brokers) = 0 -> Stop("EMPTY_BROKER_LIST")
                    [] Len(brokers) = 1 -> phase' = "idle" /\ result' = "OK"
                    [] OTHER -> GoOn("create")
  /\ UNCHANGED <<v4v6, sorted, file, restarts>>

-------------------------------------------------------------------------------
(* The main thread measures the distances                                      *)

CreateThread ==
  /\ phase = "create"
  /\ thread' = [thread EXCEPT ![next].at = "starting"]
  /\ IF next < Len(list) THEN next' = next + 1 /\ UNCHANGED phase
                         ELSE next' = 1 /\ phase' = "join"
  /\ UNCHANGED <<result, v4v6, list, sorted, file, redirects, restarts>>

\* No memory for the arrays, or a thread that cannot be created: those before it
\* are left running, and the client ends.
CreateThreadFails ==
  /\ phase = "create"
  /\ Stop("CANT_SORT_LIST")
  /\ UNCHANGED <<v4v6, list, sorted, next, thread, file, redirects, restarts>>

\* Mutant: the main thread waits for the first thread only.
JoinThread_First ==
  /\ phase = "join" /\ thread[1].at = "done"
  /\ IF next < Len(list) THEN next' = next + 1 /\ UNCHANGED phase
                         ELSE next' = 1 /\ phase' = "sort"
  /\ UNCHANGED <<result, v4v6, list, sorted, thread, file, redirects, restarts>>

JoinThread ==
  /\ phase = "join" /\ thread[next].at = "done"
  /\ IF next < Len(list) THEN next' = next + 1 /\ UNCHANGED phase
                         ELSE next' = 1 /\ phase' = "sort"
  /\ UNCHANGED <<result, v4v6, list, sorted, thread, file, redirects, restarts>>

\* A pass of its loop: a copy of the next element is inserted.  The sorted list
\* takes the place of the other when all are.
tspSortBrokerList ==
  /\ phase = "sort"
  /\ LET inserted == tspInsertInBrokerList(sorted, list[next]) IN
     IF next < Len(list)
     THEN sorted' = inserted /\ next' = next + 1 /\ UNCHANGED <<phase, result, list>>
     ELSE list' = inserted /\ sorted' = <<>> /\ next' = 1 /\ GoOn("write")
  /\ UNCHANGED <<v4v6, thread, file, redirects, restarts>>

\* No memory for the copy: what was sorted is freed, the list stays.
SortFails ==
  /\ phase = "sort"
  /\ Stop("CANT_SORT_LIST")
  /\ sorted' = <<>>
  /\ UNCHANGED <<v4v6, list, next, thread, file, redirects, restarts>>

-------------------------------------------------------------------------------
(* The broker_list file                                                        *)

\* The file may not open; opening it empties it, and a write may fail after some
\* lines.  The client goes on in every case.
tspWriteBrokerListToFile ==
  /\ phase = "write"
  /\ \/ UNCHANGED file
     \/ \E n \in 0 .. Len(list) : file' = Addresses(SubSeq(list, 1, n))
  /\ phase' = "idle" /\ result' = "OK"
  /\ thread' = NoThreads
  /\ UNCHANGED <<v4v6, list, sorted, next, redirects, restarts>>

\* The brokers read have no type and no distance.  A list that fails is freed.
tspReadBrokerListFromFile ==
  /\ phase = "idle" /\ list = <<>>
  /\ \/ list' = ListOf(file, "NONE") /\ tspAddBrokerToList(file) /\ result' = "READ"
     \/ list' = <<>> /\ result' = "CANT_READ"
  /\ UNCHANGED <<phase, v4v6, sorted, next, thread, file, redirects, restarts>>

\* The client is killed, or ends after an error, and is started again.
Restart ==
  /\ restarts < MaxRestarts
  /\ restarts' = restarts + 1
  /\ GoOn("idle")
  /\ list' = <<>> /\ sorted' = <<>> /\ next' = 1 /\ thread' = NoThreads
  /\ \/ UNCHANGED file
     \/ phase = "write" /\ \E n \in 0 .. Len(list) : file' = Addresses(SubSeq(list, 1, n))
  /\ UNCHANGED <<v4v6, redirects>>

-------------------------------------------------------------------------------
(* A thread measures the distance of its broker                                *)

\* The family of the address found: the right one, the wrong one, or none.
getSocketAddress(type) ==
  CASE type = "IPV4" -> {IF v4v6 THEN "WRONG_FAMILY" ELSE "OK", "PROBLEM_RESOLVING"}
    [] type = "IPV6" -> {IF v4v6 THEN "OK" ELSE "WRONG_FAMILY", "PROBLEM_RESOLVING"}
    [] type = "FQDN" -> {"OK", "WRONG_FAMILY", "PROBLEM_RESOLVING"}

\* tspGetBrokerDistance ends: the distance is put in the list.
Finished(i, adjust, status) ==
  /\ thread' = [thread EXCEPT ![i].at = "done", ![i].distance = @ + adjust,
                              ![i].status = status, ![i].retries = 0, ![i].waited = 0]
  /\ list' = [list EXCEPT ![i].distance = thread[i].distance + adjust]

\* No memory for the thread's status, an address that does not resolve.
StartFails(i) ==
  /\ thread[i].at = "starting"
  /\ Finished(i, ErrorAdjust, "ERROR")

tspDoEchoRequest(i) ==
  /\ thread[i].at = "starting"
  /\ \E s \in getSocketAddress(list[i].type) \ {"PROBLEM_RESOLVING"} :
       thread' = [thread EXCEPT ![i].at = "connecting", ![i].family = (s = "OK"),
                                ![i].distance = IF s = "OK" THEN 0 ELSE WrongFamilyAdjust]
  /\ UNCHANGED list

\* A socket of the broker's own family is connected and the engine set up, or not.
createConnectedSocket(i) ==
  /\ thread[i].at = "connecting"
  /\ \/ thread' = [thread EXCEPT ![i].at = "sending"] /\ UNCHANGED list
     \/ Finished(i, ErrorAdjust, "ERROR")

SendRequest(i) ==
  /\ thread[i].at = "sending" /\ thread[i].retries < Attempts
  /\ \/ thread' = [thread EXCEPT ![i].at = "waiting", ![i].waited = 0] /\ UNCHANGED list
     \/ Finished(i, ErrorAdjust, "ERROR")

GiveUp(i) ==
  /\ thread[i].at = "sending" /\ thread[i].retries = Attempts
  /\ Finished(i, TimeoutAdjust, "TIMEOUT")

\* The answer to this request or to one before, which had the same sequence number.
\* It is timed from the last request sent, whatever its status.
AnswerArrives(i) ==
  /\ thread[i].at = "waiting"
  /\ \E status \in {"OK", "UNEXPECTED"} : Finished(i, thread[i].waited, status)

\* Mutant: select() is given the whole timeout again.
StrayMessage_Restarts(i) ==
  /\ thread[i].at = "waiting"
  /\ thread' = [thread EXCEPT ![i].waited = 0]
  /\ UNCHANGED list

\* A message with another sequence number: select() waits what is left of its
\* timeout (Linux).  Receiving it may also fail.
StrayMessage(i) ==
  /\ thread[i].at = "waiting"
  /\ \/ UNCHANGED threads
     \/ Finished(i, ErrorAdjust, "ERROR")

Tick(i) ==
  /\ thread[i].at = "waiting" /\ thread[i].waited < Timeout
  /\ thread' = [thread EXCEPT ![i].waited = @ + 1]
  /\ UNCHANGED list

SelectTimesOut(i) ==
  /\ thread[i].at = "waiting" /\ thread[i].waited = Timeout
  /\ thread' = [thread EXCEPT ![i].at = "sending", ![i].retries = @ + 1]
  /\ UNCHANGED list

Measuring(i) ==
  \/ StartFails(i) \/ tspDoEchoRequest(i) \/ createConnectedSocket(i)
  \/ SendRequest(i) \/ GiveUp(i) \/ AnswerArrives(i) \/ StrayMessage(i)
  \/ Tick(i) \/ SelectTimesOut(i)

\* What a thread does of itself: nothing has to arrive.
Advances(i) ==
  \/ StartFails(i) \/ tspDoEchoRequest(i) \/ createConnectedSocket(i)
  \/ SendRequest(i) \/ GiveUp(i) \/ Tick(i) \/ SelectTimesOut(i)

\* The thread of element i.  Those left behind by an end of the client are not followed.
tspGetBrokerDistance(i) ==
  /\ phase \in {"create", "join"}
  /\ Measuring(i)
  /\ UNCHANGED <<phase, result, v4v6, sorted, next, file, redirects, restarts>>

-------------------------------------------------------------------------------
Main ==
  \/ CreateThread \/ CreateThreadFails \/ JoinThread \/ tspSortBrokerList \/ SortFails
  \/ tspWriteBrokerListToFile

Next ==
  \/ tspHandleRedirect \/ Main \/ tspReadBrokerListFromFile \/ Restart
  \/ \E i \in Positions : tspGetBrokerDistance(i)

Init ==
  /\ phase = "idle" /\ result = "none"
  /\ v4v6 \in BOOLEAN
  /\ list = <<>> /\ sorted = <<>> /\ next = 1 /\ thread = NoThreads
  /\ file = <<>>
  /\ redirects = 0 /\ restarts = 0

\* The main thread and the measuring threads run, and time passes.
Fairness ==
  /\ WF_vars(Main)
  /\ \A i \in Positions : WF_vars(tspGetBrokerDistance(i) /\ Advances(i))

Spec == Init /\ [][Next]_vars /\ Fairness

-------------------------------------------------------------------------------
(* Properties                                                                  *)

\* The sorted list is the list measured: each of its elements has the final
\* distance of a thread that has ended.
IsMeasuredList(p, measured) ==
  \A i \in DOMAIN list :
    /\ thread[p[i]].at = "done"
    /\ list[i].distance = thread[p[i]].distance
    /\ list[i].address = measured[p[i]]

\* A broker that answered as it should, in the tunnel's family, precedes every one
\* that did not answer or could not be asked; those of the other family come last.
UsableFirst(p) ==
  \A i, j \in DOMAIN list :
    LET ti == thread[p[i]]  tj == thread[p[j]] IN
    \/ ti.family /\ ti.status = "OK" /\ tj.status \in {"TIMEOUT", "ERROR"}
    \/ ti.family /\ ~tj.family
    => i < j

\* When the redirection's list is sorted (tspHandleRedirect) every thread has been
\* waited for, no broker was lost or doubled, the distances do not decrease, and a
\* broker that can be used comes before those that cannot.
BestBrokerFirst ==
  phase = "write" =>
    /\ \A i, j \in DOMAIN list : i < j => list[i].distance <= list[j].distance
    /\ \E m \in Messages : \E p \in Bijection(DOMAIN list, DOMAIN list) :
         LET measured == Addresses(tspCreateBrokerList(m)) IN
         /\ Len(measured) = Len(list)
         /\ IsMeasuredList(p, measured) /\ UsableFirst(p)

\* A redirection that is being handled ends: whatever the brokers answer, and
\* whatever else arrives, the threads are joined and the client goes on or stops.
RedirectionEnds == phase \in {"create", "join", "sort", "write"} ~> phase \in {"idle", "stopped"}
===============================================================================
