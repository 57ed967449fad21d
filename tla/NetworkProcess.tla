---------------------------- MODULE NetworkProcess ----------------------------
(***************************************************************************)
(* The network process: how the UI process launches it again and again     *)
(* (WebContext, ChildProcessProxy, NetworkProcessProxy), how web processes *)
(* get their connections to it (WebProcess, NetworkProcess) and how they   *)
(* load resources over them (WebResourceLoadScheduler,                     *)
(* NetworkConnectionToWebProcess, NetworkResourceLoadScheduler).           *)
(*                                                                         *)
(* A web process that needs a connection asks the UI process with a        *)
(* synchronous message and waits.  The UI process launches the network     *)
(* process if there is none, asks it for an endpoint and hands that over.  *)
(* Any of them may die at any time, except the UI process.                 *)
(***************************************************************************)
EXTENDS Naturals, FiniteSets, SequencesExt

CONSTANTS
  WebProcesses,
  Loads,
  Owner,           \* load -> the web process that needs it
  SerialProcesses, \* web processes that turn on serial loading
  MaxLaunches      \* bound: the last process to be launched does not die

ASSUME NetworkProcessAssumption ==
  /\ Owner \in [Loads -> WebProcesses]
  /\ SerialProcesses \subseteq WebProcesses
  /\ MaxLaunches \in Nat \ {0}

VARIABLES
  \* UI process
  proxy,       \* m_networkProcess is set
  launching,   \* state() == State::Launching
  stashed,     \* m_pendingMessages
  numPending,  \* m_numPendingConnectionRequests
  replies,     \* m_pendingConnectionReplies: the web processes they go to
  launches,    \* how many launches were begun
  \* network process; an endpoint is a number, never given twice
  networkAlive,       \* the process that the proxy is connected to runs
  nullLaunch,  \* the launch failed: the connection has a null identifier
  initialized, \* initializeNetworkProcess was handled
  made,        \* how many endpoints were made
  endpoints,   \* m_webProcessConnections
  serial,      \* endpoints with m_serialLoadingEnabled
  registered,  \* loads in m_networkResourceLoaders
  active,      \* m_activeLoaders
  pending,     \* m_pendingSerialLoaders
  \* web processes
  web,         \* running, asking (waits for a connection), crashed, exited
  connection,  \* m_networkProcessConnection: an endpoint, 0 when null
  want,        \* the load for which it asks
  load,        \* none, scheduled (m_webResourceLoaders), failing
               \* (m_internallyFailedResourceLoaders) or ended
  \* messages
  asked,       \* GetNetworkProcessConnection on its way to the UI process
  answer,      \* its reply on the way back; 0 is a null attachment
  toNet,       \* UI process to network process
  fromNet,     \* DidCreateNetworkConnectionToWebProcess
  toLoads,     \* web process to network process
  fromLoads    \* network process to web process: the loads that are finished

ui          == <<proxy, launching, stashed, numPending, replies, launches>>
scheduler   == <<registered, active, pending>>
network     == <<networkAlive, nullLaunch, initialized, made, endpoints, serial, scheduler>>
webState    == <<web, connection, want, load>>
channels    == <<asked, answer, toNet, fromNet, toLoads, fromLoads>>
networkVars == <<ui, network, webState, channels>>

Running(w) == web[w] = "running"
LoadsOf(w) == {l \in Loads : Owner[l] = w}

NetworkTypeOK ==
  /\ {proxy, launching, networkAlive, nullLaunch, initialized} \subseteq BOOLEAN
  /\ stashed \in Seq({"Initialize"}) /\ Len(stashed) <= 1
  /\ {numPending, launches, made} \subseteq Nat
  /\ replies \in Seq(WebProcesses)
  /\ endpoints \subseteq Nat /\ serial \subseteq endpoints
  /\ active \subseteq Loads /\ registered \subseteq Loads /\ pending \in Seq(Loads)
  /\ web \in [WebProcesses -> {"running", "asking", "crashed", "exited"}]
  /\ connection \in [WebProcesses -> Nat]
  /\ want \in [WebProcesses -> SUBSET Loads]
  /\ load \in [Loads -> {"none", "scheduled", "failing", "ended"}]
  /\ asked \subseteq WebProcesses
  /\ answer \in [WebProcesses -> Seq(Nat)]
  /\ toNet \in Seq({"Initialize", "Create"}) /\ fromNet \in Seq(Nat)
  /\ toLoads \in [WebProcesses -> Seq({"Schedule", "Remove"} \X Loads)]
  /\ fromLoads \in [WebProcesses -> Seq(Loads)]

NetworkInit ==
  /\ proxy = FALSE /\ launching = FALSE /\ stashed = <<>>
  /\ numPending = 0 /\ replies = <<>> /\ launches = 0
  /\ networkAlive = FALSE /\ nullLaunch = FALSE /\ initialized = FALSE
  /\ made = 0 /\ endpoints = {} /\ serial = {}
  /\ registered = {} /\ active = {} /\ pending = <<>>
  /\ web = [w \in WebProcesses |-> "running"]
  /\ connection = [w \in WebProcesses |-> 0]
  /\ want = [w \in WebProcesses |-> {}]
  /\ load = [l \in Loads |-> "none"]
  /\ asked = {} /\ answer = [w \in WebProcesses |-> <<>>]
  /\ toNet = <<>> /\ fromNet = <<>>
  /\ toLoads = [w \in WebProcesses |-> <<>>]
  /\ fromLoads = [w \in WebProcesses |-> <<>>]

-----------------------------------------------------------------------------
(* UI process.                                                             *)

\* WebContext::ensureNetworkProcess without a process: the message that
\* initializes the new one waits for it in m_pendingMessages.
Launch ==
  /\ launches' = launches + 1
  /\ proxy' = TRUE /\ launching' = TRUE
  /\ stashed' = <<"Initialize">>

\* createNewWebProcess.
EnsureNetworkProcess ==
  /\ ~proxy
  /\ Launch
  /\ UNCHANGED <<numPending, replies, network, webState, channels>>

\* Fault: the request is sent at once, also while the process launches.
GetConnectionAtOnce(w) ==
  /\ w \in asked
  /\ asked' = asked \ {w}
  /\ IF proxy THEN UNCHANGED <<proxy, launching, stashed, launches>> ELSE Launch
  /\ replies' = Append(replies, w)
  /\ numPending' = IF launching' THEN numPending + 1 ELSE numPending
  /\ toNet' = IF networkAlive \/ launching' THEN Append(toNet, "Create") ELSE toNet
  /\ UNCHANGED <<network, webState, answer, fromNet, toLoads, fromLoads>>

\* A message to a process that died, or on a connection that is null, is lost.
GetNetworkProcessConnection(w) ==
  /\ w \in asked
  /\ asked' = asked \ {w}
  /\ IF proxy THEN UNCHANGED <<proxy, launching, stashed, launches>> ELSE Launch
  /\ replies' = Append(replies, w)
  /\ numPending' = IF launching' THEN numPending + 1 ELSE numPending
  /\ toNet' = IF networkAlive THEN Append(toNet, "Create") ELSE toNet
  /\ UNCHANGED <<network, webState, answer, fromNet, toLoads, fromLoads>>

\* Fault: only m_pendingMessages is flushed.
FlushStashed == stashed

\* Fault: NetworkProcessProxy asks for the endpoints before the base class flushes.
FlushRequestsFirst == [i \in 1..numPending |-> "Create"] \o stashed

\* ChildProcessProxy flushes m_pendingMessages, then NetworkProcessProxy asks for
\* the endpoints that were requested meanwhile.
Flush == stashed \o [i \in 1..numPending |-> "Create"]

DidFinishLaunching ==
  /\ launching
  /\ launching' = FALSE
  /\ networkAlive' = TRUE
  /\ toNet' = Flush
  /\ stashed' = <<>> /\ numPending' = 0
  /\ UNCHANGED <<proxy, replies, launches, nullLaunch, initialized, made, endpoints,
                 serial, scheduler, webState, asked, answer, fromNet, toLoads, fromLoads>>

\* The launcher reports a null identifier: what was stashed is sent nowhere, the
\* requests keep waiting, and no close will be reported.
DidFailToLaunch ==
  /\ launching
  /\ launching' = FALSE
  /\ nullLaunch' = TRUE
  /\ stashed' = <<>>
  /\ UNCHANGED <<proxy, numPending, replies, launches, networkAlive, initialized, made,
                 endpoints, serial, scheduler, webState, channels>>

\* A reply to a process that is gone is dropped.
Reply(to, e) ==
  [w \in WebProcesses |->
     IF w \in to /\ web[w] = "asking" THEN Append(answer[w], e) ELSE answer[w]]

DidCreateNetworkConnectionToWebProcess ==
  /\ fromNet # <<>>
  /\ fromNet' = Tail(fromNet)
  /\ answer' = Reply({Head(replies)}, Head(fromNet))
  /\ replies' = Tail(replies)
  /\ UNCHANGED <<proxy, launching, stashed, numPending, launches, network, webState,
                 asked, toNet, toLoads, fromLoads>>

Lost == proxy /\ ~launching /\ ~networkAlive /\ ~nullLaunch

\* didClose, after the messages that were received: every request that waits gets
\* a null reply, and the proxy is deleted.
NetworkProcessCrashed ==
  /\ Lost /\ fromNet = <<>>
  /\ answer' = Reply(ToSet(replies), 0)
  /\ replies' = <<>>
  /\ proxy' = FALSE
  /\ UNCHANGED <<launching, stashed, numPending, launches, network, webState, asked,
                 toNet, fromNet, toLoads, fromLoads>>

-----------------------------------------------------------------------------
(* Network process.                                                        *)

InitializeNetworkProcess ==
  /\ networkAlive /\ toNet # <<>> /\ Head(toNet) = "Initialize"
  /\ toNet' = Tail(toNet)
  /\ initialized' = TRUE
  /\ UNCHANGED <<ui, networkAlive, nullLaunch, made, endpoints, serial, scheduler,
                 webState, asked, answer, fromNet, toLoads, fromLoads>>

CreateNetworkConnectionToWebProcess ==
  /\ networkAlive /\ toNet # <<>> /\ Head(toNet) = "Create"
  /\ toNet' = Tail(toNet)
  /\ made' = made + 1
  /\ endpoints' = endpoints \union {made'}
  /\ fromNet' = Append(fromNet, made')
  /\ UNCHANGED <<ui, networkAlive, nullLaunch, initialized, serial, scheduler, webState,
                 asked, answer, toLoads, fromLoads>>

NetworkProcessDies ==
  /\ networkAlive /\ launches < MaxLaunches
  /\ networkAlive' = FALSE /\ initialized' = FALSE
  /\ endpoints' = {} /\ serial' = {}
  /\ registered' = {} /\ active' = {} /\ pending' = <<>>
  /\ toNet' = <<>>
  /\ toLoads' = [w \in WebProcesses |-> <<>>]
  /\ UNCHANGED <<ui, nullLaunch, made, webState, asked, answer, fromNet, fromLoads>>

\* removeLoader: when no load is active the one that came last is started.
RemoveLoader(s, l) ==
  IF s.active \ {l} = {} /\ s.pending # <<>>
  THEN [active |-> {Last(s.pending)}, pending |-> Front(s.pending)]
  ELSE [s EXCEPT !.active = @ \ {l}]

Current == [active |-> active, pending |-> pending]

RemoveLoaders(order) ==
  LET s == FoldLeft(RemoveLoader, Current, order)
  IN  active' = s.active /\ pending' = s.pending

Received(w, kind) == toLoads[w] # <<>> /\ Head(toLoads[w])[1] = kind
Receive(w)        == toLoads' = [toLoads EXCEPT ![w] = Tail(@)]

\* Fault: a load that has to wait is not remembered.
ScheduleOrDrop(w) ==
  /\ Received(w, "Schedule")
  /\ Receive(w)
  /\ LET l == Head(toLoads[w])[2]
     IN  /\ registered' = registered \union {l}
         /\ active' = IF connection[w] \in serial /\ active # {} THEN active
                      ELSE active \union {l}
  /\ UNCHANGED <<ui, networkAlive, nullLaunch, initialized, made, endpoints, serial,
                 pending, webState, asked, answer, toNet, fromNet, fromLoads>>

\* With serial loading a load waits until no load of any web process is active.
ScheduleResourceLoad(w) ==
  /\ Received(w, "Schedule")
  /\ Receive(w)
  /\ LET l == Head(toLoads[w])[2]
     IN  /\ registered' = registered \union {l}
         /\ IF connection[w] \in serial /\ active # {}
            THEN pending' = Append(pending, l) /\ UNCHANGED active
            ELSE active' = active \union {l} /\ UNCHANGED pending
  /\ UNCHANGED <<ui, networkAlive, nullLaunch, initialized, made, endpoints, serial,
                 webState, asked, answer, toNet, fromNet, fromLoads>>

\* A load that the process does not know is ignored.  Aborting one that waits
\* leaves it in m_pendingSerialLoaders.
RemoveLoadIdentifier(w) ==
  /\ Received(w, "Remove")
  /\ Receive(w)
  /\ LET l == Head(toLoads[w])[2]
     IN  /\ registered' = registered \ {l}
         /\ RemoveLoaders(IF l \in registered THEN <<l>> ELSE <<>>)
  /\ UNCHANGED <<ui, networkAlive, nullLaunch, initialized, made, endpoints, serial,
                 webState, asked, answer, toNet, fromNet, fromLoads>>

\* The load finishes or fails; a closed connection drops the message.
LoadEnds(l) ==
  /\ l \in active
  /\ LET w == Owner[l]
     IN  fromLoads' = IF Running(w) /\ connection[w] \in endpoints
                      THEN [fromLoads EXCEPT ![w] = Append(@, l)] ELSE fromLoads
  /\ RemoveLoaders(<<l>>)
  /\ UNCHANGED <<ui, networkAlive, nullLaunch, initialized, made, endpoints, serial,
                 registered, webState, asked, answer, toNet, fromNet, toLoads>>

Held(e) ==
  \/ e \in ToSet(fromNet)
  \/ \E w \in WebProcesses : e \in ToSet(answer[w]) \/ connection[w] = e

\* didClose: the loads of the web process are aborted, in the order of a hash map.
WebProcessGone(w) ==
  /\ ~Running(w) /\ connection[w] \in endpoints /\ toLoads[w] = <<>>
  /\ endpoints' = endpoints \ {connection[w]}
  /\ serial' = serial \ {connection[w]}
  /\ connection' = [connection EXCEPT ![w] = 0]
  /\ registered' = registered \ LoadsOf(w)
  /\ \E order \in SetToSeqs(registered \intersect LoadsOf(w)) : RemoveLoaders(order)
  /\ UNCHANGED <<ui, networkAlive, nullLaunch, initialized, made, web, want, load,
                 channels>>

\* Nobody took the other end.
EndpointDropped(e) ==
  /\ e \in endpoints /\ ~Held(e)
  /\ endpoints' = endpoints \ {e}
  /\ UNCHANGED <<ui, networkAlive, nullLaunch, initialized, made, serial, scheduler,
                 webState, channels>>

-----------------------------------------------------------------------------
(* Web processes.                                                          *)

SendToNetwork(w, kind, l) ==
  toLoads' = IF connection[w]' \in endpoints
             THEN [toLoads EXCEPT ![w] = Append(@, <<kind, l>>)] ELSE toLoads

\* networkConnection() asks for a connection when there is none.
ScheduleLoad(l) ==
  LET w == Owner[l] IN
  /\ Running(w) /\ load[l] = "none"
  /\ IF connection[w] = 0
     THEN /\ web' = [web EXCEPT ![w] = "asking"]
          /\ want' = [want EXCEPT ![w] = {l}]
          /\ asked' = asked \union {w}
          /\ UNCHANGED <<connection, load, toLoads>>
     ELSE /\ load' = [load EXCEPT ![l] = "scheduled"]
          /\ connection' = connection
          /\ SendToNetwork(w, "Schedule", l)
          /\ UNCHANGED <<web, want, asked>>
  /\ UNCHANGED <<ui, network, answer, toNet, fromNet, fromLoads>>

\* ensureNetworkProcessConnection goes on, and so does the load it was for.
ReceiveEndpoint(w) ==
  /\ web[w] = "asking" /\ answer[w] # <<>> /\ Head(answer[w]) # 0
  /\ answer' = [answer EXCEPT ![w] = <<>>]
  /\ web' = [web EXCEPT ![w] = "running"]
  /\ connection' = [connection EXCEPT ![w] = Head(answer[w])]
  /\ want' = [want EXCEPT ![w] = {}]
  /\ \E l \in want[w] :
       /\ load' = [load EXCEPT ![l] = "scheduled"]
       /\ SendToNetwork(w, "Schedule", l)
  /\ UNCHANGED <<ui, network, asked, toNet, fromNet, fromLoads>>

\* networkConnection(): beyond recovery.
ReceiveNull(w) ==
  /\ web[w] = "asking" /\ answer[w] # <<>> /\ Head(answer[w]) = 0
  /\ answer' = [answer EXCEPT ![w] = <<>>]
  /\ web' = [web EXCEPT ![w] = "crashed"]
  /\ UNCHANGED <<ui, network, connection, want, load, asked, toNet, fromNet, toLoads,
                 fromLoads>>

\* A load that ends takes itself out of the scheduler, which tells the network
\* process; a message about one that is not there any more is dropped.
LoadFinished(w) ==
  /\ Running(w) /\ fromLoads[w] # <<>>
  /\ fromLoads' = [fromLoads EXCEPT ![w] = Tail(@)]
  /\ LET l == Head(fromLoads[w])
     IN  IF load[l] = "scheduled"
         THEN /\ load' = [load EXCEPT ![l] = "ended"]
              /\ connection' = connection
              /\ SendToNetwork(w, "Remove", l)
         ELSE UNCHANGED <<load, connection, toLoads>>
  /\ UNCHANGED <<ui, network, web, want, asked, answer, toNet, fromNet>>

CancelLoad(l) ==
  LET w == Owner[l] IN
  /\ Running(w) /\ load[l] \in {"scheduled", "failing"}
  /\ load' = [load EXCEPT ![l] = "ended"]
  /\ connection' = connection
  /\ IF load[l] = "scheduled" THEN SendToNetwork(w, "Remove", l) ELSE UNCHANGED toLoads
  /\ UNCHANGED <<ui, network, web, want, asked, answer, toNet, fromNet, fromLoads>>

\* Fault: the loads stay in m_webResourceLoaders.
ForgetConnection(w) ==
  /\ Running(w) /\ connection[w] \notin endpoints \union {0} /\ fromLoads[w] = <<>>
  /\ connection' = [connection EXCEPT ![w] = 0]
  /\ UNCHANGED <<ui, network, web, want, load, channels>>

\* didClose, after what was received: WebResourceLoadScheduler::networkProcessCrashed
\* has every load fail.
NetworkProcessConnectionClosed(w) ==
  /\ Running(w) /\ connection[w] \notin endpoints \union {0} /\ fromLoads[w] = <<>>
  /\ connection' = [connection EXCEPT ![w] = 0]
  /\ load' = [l \in Loads |-> IF Owner[l] = w /\ load[l] = "scheduled" THEN "failing" ELSE load[l]]
  /\ UNCHANGED <<ui, network, web, want, channels>>

\* The timer of scheduleInternallyFailedLoad.
InternallyFailedLoadTimerFired(w) ==
  /\ Running(w) /\ \E l \in LoadsOf(w) : load[l] = "failing"
  /\ load' = [l \in Loads |-> IF Owner[l] = w /\ load[l] = "failing" THEN "ended" ELSE load[l]]
  /\ UNCHANGED <<ui, network, web, connection, want, channels>>

\* A synchronous message: the web process waits until it is handled.
SetSerialLoadingEnabled(w) ==
  /\ w \in SerialProcesses /\ Running(w)
  /\ connection[w] \in endpoints \ serial /\ toLoads[w] = <<>>
  /\ serial' = serial \union {connection[w]}
  /\ UNCHANGED <<ui, networkAlive, nullLaunch, initialized, made, endpoints, scheduler,
                 webState, channels>>

\* What it sent before is still handled; what was for it is lost.
WebProcessExits(w) ==
  /\ web[w] \in {"running", "asking"}
  /\ web' = [web EXCEPT ![w] = "exited"]
  /\ answer' = [answer EXCEPT ![w] = <<>>]
  /\ fromLoads' = [fromLoads EXCEPT ![w] = <<>>]
  /\ UNCHANGED <<ui, network, connection, want, load, asked, toNet, fromNet, toLoads>>

-----------------------------------------------------------------------------
UIProcess ==
  \/ DidFinishLaunching \/ DidFailToLaunch
  \/ DidCreateNetworkConnectionToWebProcess \/ NetworkProcessCrashed
  \/ \E w \in WebProcesses : GetNetworkProcessConnection(w)

NetworkProcessRuns ==
  \/ InitializeNetworkProcess \/ CreateNetworkConnectionToWebProcess
  \/ \E w \in WebProcesses : ScheduleResourceLoad(w) \/ RemoveLoadIdentifier(w)
  \/ \E w \in WebProcesses : WebProcessGone(w)
  \/ \E e \in endpoints : EndpointDropped(e)
  \/ \E l \in Loads : LoadEnds(l)

WebProcess(w) ==
  \/ ReceiveEndpoint(w) \/ ReceiveNull(w) \/ LoadFinished(w)
  \/ NetworkProcessConnectionClosed(w) \/ InternallyFailedLoadTimerFired(w)

NetworkNext ==
  \/ UIProcess \/ EnsureNetworkProcess
  \/ NetworkProcessRuns \/ NetworkProcessDies
  \/ \E l \in Loads : ScheduleLoad(l) \/ CancelLoad(l)
  \/ \E w \in WebProcesses :
       WebProcess(w) \/ SetSerialLoadingEnabled(w) \/ WebProcessExits(w)

\* A launch ends, a load ends, and a run loop with something to handle goes on.
\* Nothing makes a process load, cancel, turn on serial loading or die.
Fairness ==
  /\ WF_networkVars(UIProcess)
  /\ WF_networkVars(NetworkProcessRuns)
  /\ \A w \in WebProcesses : WF_networkVars(WebProcess(w))

NetworkSpec == NetworkInit /\ [][NetworkNext]_networkVars /\ Fairness

-----------------------------------------------------------------------------
(* Properties.                                                             *)

Count(s, x) == Cardinality({i \in DOMAIN s : s[i] = x})

\* Answers of the network process are matched to requests by their order alone
\* (NetworkProcessProxy::didCreateNetworkConnectionToWebProcess): as many requests
\* wait as are still to be sent, on their way or answered, through every launch.
\* In particular there is one when an answer comes, as the code asserts.
RepliesMatchRequests ==
  /\ launching \/ networkAlive =>
       Len(replies) = numPending + Count(toNet, "Create") + Len(fromNet)
  /\ Len(fromNet) <= Len(replies)

\* Messages sent while the process launches and after it keep their order
\* (ChildProcessProxy::didFinishLaunching): no web process is connected to a
\* network process that was not initialized.
InitializedFirst == endpoints # {} => initialized

\* A web process that waits in sendSync has its request or its reply in exactly
\* one place, whatever crashes, so that it is answered once.
RequestInOnePlace ==
  \A w \in WebProcesses : web[w] = "asking" =>
    (IF w \in asked THEN 1 ELSE 0) + Count(replies, w) + Len(answer[w]) = 1

\* A load that a web process counts as scheduled, over a connection that is open,
\* is about to be scheduled, loading, waiting or about to be reported, and not
\* twice (WebResourceLoadScheduler against NetworkConnectionToWebProcess).
LoadInOnePlace ==
  \A l \in Loads : LET w == Owner[l] IN
    load[l] = "scheduled" /\ Running(w) /\ connection[w] \in endpoints =>
      Count(toLoads[w], <<"Schedule", l>>) + Count(pending, l) + Count(fromLoads[w], l)
        + (IF l \in active THEN 1 ELSE 0) = 1

\* NetworkResourceLoadScheduler: what waits for serial loading waits for a load
\* that is active; removeLoader and scheduleLoader never leave it stranded.
PendingWaitsForActive == pending # <<>> => active # {}

\* Every request for a connection is answered, through crashes of the network
\* process, unless its launch failed (NetworkProcessProxy::getNetworkProcessConnection).
RequestsAnswered ==
  \A w \in WebProcesses : web[w] = "asking" ~> web[w] # "asking" \/ nullLaunch

\* Every load ends as long as its web process runs, through crashes of the network
\* process (WebResourceLoadScheduler::networkProcessCrashed).
LoadsEnd ==
  \A l \in Loads :
    load[l] \in {"scheduled", "failing"} ~> load[l] = "ended" \/ ~Running(Owner[l])

\* WebProcess::networkConnection: a lost connection is established again.
Reestablished == \A w \in WebProcesses : web[w] # "crashed"

\* NetworkResourceLoadScheduler::scheduleLoader: a load of a web process whose
\* connection was lost is skipped.
LostLoadsSkipped == \A l \in active : connection[Owner[l]] # 0
=============================================================================
