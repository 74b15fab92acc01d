---------------------------- MODULE RouteMonitor ----------------------------
(***************************************************************************)
(* NetworkRouteMonitor: the route poll thread that mirrors the kernel's   *)
(* default routes from a NETLINK_ROUTE socket, and the NetworkRouteObserver *)
(* that MediaSourceHandler registers, which turns a change of the best    *)
(* interface into a NO_GATEWAY or NEW_GATEWAY message for messageLoop.    *)
(*                                                                         *)
(* The kernel is the environment.  It holds default routes (with a        *)
(* gateway, a metric and an interface) on the interfaces that are up.     *)
(* Adding or deleting a default route sends RTM_NEWROUTE or RTM_DELROUTE. *)
(* Taking an interface down flushes its default routes without a message  *)
(* for each, and sends RTM_DELROUTE for its prefix route, which has no    *)
(* gateway and metric 0: the case the metric-0 rule of the code is for.   *)
(* Bringing it up sends RTM_NEWROUTE for the prefix route, without a      *)
(* gateway.  A notification the socket has no room for is dropped, and    *)
(* the next recv fails with ENOBUFS (a netlink overrun).  A dump request  *)
(* is answered with RTM_NEWROUTE for every default route, in the kernel's *)
(* order: by metric, ties in IfaceOrder.  One recv returns one datagram:  *)
(* a notification, or the whole dump.                                      *)
(*                                                                         *)
(* std::sort of at most 16 routes is libstdc++'s insertion sort, which is *)
(* stable: a new route goes after every route of a metric not above its.  *)
(***************************************************************************)
EXTENDS Integers, Sequences, SequencesExt, FiniteSets

CONSTANTS
    IfaceOrder,   \* the interfaces, in the kernel's dump order for a tie
    Metrics,      \* metrics a default route may have
    MaxEvents,    \* bound: route and link changes in the kernel
    MaxOverruns,  \* bound: notifications dropped by a full socket
    SendMayFail   \* whether send() of a dump request may fail

Ifaces == ToSet(IfaceOrder)

ASSUME /\ IsInjective(IfaceOrder) /\ Metrics \subseteq Nat
       /\ {MaxEvents, MaxOverruns} \subseteq Nat /\ SendMayFail \in BOOLEAN

\* routeInfo{"", "", UINT16_MAX}: mRoute before the first dispatch, and
\* the route dispatched when there is no default route.
NoIface == "none"

Routes == [iface : Ifaces, metric : Metrics]
\* A netlink route message, as getRouteInfo reads its attributes.
NlMsgs == [type : {"NEW", "DEL"}, iface : Ifaces, metric : Metrics \cup {0},
           gw : BOOLEAN]

VARIABLES
    up,           \* kernel: interfaces that are up
    kroutes,      \* kernel: default routes
    sock,         \* datagrams queued on the netlink socket
    overrun,      \* kernel: a notification was dropped since the last recv
    routes,       \* mDefaultRoutes
    cur,          \* mRoute.interface
    msgs,         \* mMessageHandler: interfaces pushed by the observer
    gw,           \* the interface messageLoop last reopened on
    pc,           \* the poll thread: start, dump, recv or exited
    exitReq,      \* mRequestExit
    pcStop,       \* stop(): idle, joining or done
    stopSent,     \* stop()'s wake-up dump request was sent
    nEvents, nOverruns

kernel  == <<up, kroutes, nEvents>>
monitor == <<routes, cur, pc, exitReq>>
vars == <<kernel, sock, overrun, nOverruns, monitor, msgs, gw, pcStop, stopSent>>

-----------------------------------------------------------------------------
(* The poll thread.                                                       *)

\* Mutant of RouteInfo: the RTA_PRIORITY case is missing, the metric stays 0.
RouteInfoNoPriority(m) == [iface |-> m.iface, metric |-> 0, gateway |-> m.gw]

\* getRouteInfo: the gateway, the output interface and the priority.
RouteInfo(m) == [iface |-> m.iface, metric |-> m.metric, gateway |-> m.gw]

\* RTM_NEWROUTE with a gateway: emplace_back, then the stable sort, which
\* puts the new route after every route of a metric not above its.
InsertRoute(l, r) ==
    LET at == Cardinality({i \in 1..Len(l) : l[i].metric <= r.metric}) + 1
    IN  [i \in 1..Len(l) + 1 |-> IF i < at THEN l[i] ELSE IF i = at THEN r ELSE l[i - 1]]

\* RTM_DELROUTE: remove_if same interface and (same metric or metric 0).
RECURSIVE RemoveRoutes(_, _)
RemoveRoutes(l, r) ==
    IF l = <<>> THEN <<>>
    ELSE LET v == Head(l)
             hit == v.iface = r.iface /\ (v.metric = r.metric \/ r.metric = 0)
         IN  (IF hit THEN <<>> ELSE <<v>>) \o RemoveRoutes(Tail(l), r)

\* One message of the switch, on [routes, updated] (gatewayUpdated).
ApplyMsg(acc, m) ==
    LET r == RouteInfo(m) IN
    IF m.type = "NEW"
    THEN IF r.gateway
         THEN [routes |-> InsertRoute(acc.routes, [iface |-> r.iface, metric |-> r.metric]),
               updated |-> TRUE]
         ELSE acc
    ELSE [routes |-> RemoveRoutes(acc.routes, r), updated |-> TRUE]

\* The for loop over the messages of one datagram, NLMSG_OK/NLMSG_NEXT.
ProcessDatagram(l, d) ==
    LET acc[i \in 0..Len(d)] ==
            IF i = 0 THEN [routes |-> l, updated |-> FALSE] ELSE ApplyMsg(acc[i - 1], d[i])
    IN  acc[Len(d)]

\* NetworkRouteObserver::defaultRouteChanged pushes NO_GATEWAY for an
\* empty interface and NEW_GATEWAY(interface) otherwise; the message is
\* kept as the interface, NoIface for NO_GATEWAY.
ObserverPush(q, iface) == Append(q, iface)

\* dispatchDefaultRouteChange: the front route, or none; the one observer
\* is told only when the interface differs from mRoute's.
Dispatch(l) ==
    LET front == IF l = <<>> THEN NoIface ELSE l[1].iface
    IN  IF front /= cur
        THEN cur' = front /\ msgs' = ObserverPush(msgs, front)
        ELSE UNCHANGED <<cur, msgs>>

\* The position of an interface in the kernel's order.
Rank(i) == CHOOSE k \in DOMAIN IfaceOrder : IfaceOrder[k] = i

\* The kernel's answer to RTM_GETROUTE with NLM_F_DUMP.
DumpDatagram ==
    LET Before(a, b) == \/ a.metric < b.metric
                        \/ a.metric = b.metric /\ Rank(a.iface) < Rank(b.iface)
        Pos(r)    == Cardinality({x \in kroutes : Before(x, r)}) + 1
    IN  [i \in 1..Cardinality(kroutes) |->
            LET r == CHOOSE x \in kroutes : Pos(x) = i
            IN  [type |-> "NEW", iface |-> r.iface, metric |-> r.metric, gw |-> TRUE]]

\* The socket is bound: the thread got past bind and has not closed it.
Bound == pc \in {"dump", "recv"}

\* socket() and bind(); either failing returns from the thread.
Start ==
    /\ pc = "start"
    /\ \/ pc' = "dump"
       \/ pc' = "exited"
    /\ UNCHANGED <<kernel, sock, overrun, nOverruns, routes, cur, exitReq,
                   msgs, gw, pcStop, stopSent>>

\* sendRouteDumpRequest at the top of the do-while; a failed send breaks
\* out of the loop and the thread closes the socket and returns.
SendDump ==
    /\ pc = "dump"
    /\ \/ sock' = Append(sock, DumpDatagram) /\ pc' = "recv"
       \/ SendMayFail /\ pc' = "exited" /\ UNCHANGED sock
    /\ UNCHANGED <<kernel, overrun, nOverruns, routes, cur, exitReq,
                   msgs, gw, pcStop, stopSent>>

\* Mutant of AfterRecvFailed: a failed recv is retried without a dump.
AfterRecvFailedNoDump == IF exitReq THEN "exited" ELSE "recv"

\* The end of the inner loop on a failed recv: the do-while closes the
\* socket if mRequestExit is set and sends a new dump request otherwise.
AfterRecvFailed == IF exitReq THEN "exited" ELSE "dump"

\* Mutant of KeepReceiving: the loop condition does not test mRequestExit.
KeepReceivingAlways == TRUE

\* The second half of the inner while condition, && !mRequestExit.
KeepReceiving == ~exitReq

\* One turn of the inner while loop.  A failed recv (the overrun is
\* reported before the queued datagrams) ends the inner loop: the thread
\* closes if mRequestExit is set and dumps again otherwise.  A datagram
\* received after mRequestExit ends both loops; any other is processed,
\* and dispatched when a gateway route changed.
Recv ==
    /\ pc = "recv"
    /\ \/ overrun /\ overrun' = FALSE /\ UNCHANGED <<sock, routes, cur, msgs>>
          /\ pc' = AfterRecvFailed
       \/ /\ ~overrun /\ sock /= <<>> /\ sock' = Tail(sock)
          /\ IF ~KeepReceiving
             THEN pc' = "exited" /\ UNCHANGED <<routes, cur, msgs>>
             ELSE LET res == ProcessDatagram(routes, Head(sock))
                  IN  /\ routes' = res.routes
                      /\ IF res.updated THEN Dispatch(res.routes) ELSE UNCHANGED <<cur, msgs>>
                      /\ UNCHANGED pc
          /\ UNCHANGED overrun
    /\ UNCHANGED <<kernel, nOverruns, exitReq, gw, pcStop, stopSent>>

-----------------------------------------------------------------------------
(* The kernel, the message loop and the singleton's destructor.           *)

\* A notification reaches the bound socket, or is dropped by a full one.
Notify(m) ==
    \/ Bound /\ sock' = Append(sock, <<m>>) /\ UNCHANGED <<overrun, nOverruns>>
    \/ Bound /\ nOverruns < MaxOverruns
       /\ overrun' = TRUE /\ nOverruns' = nOverruns + 1 /\ UNCHANGED sock
    \/ ~Bound /\ UNCHANGED <<sock, overrun, nOverruns>>

Msg(t, i, m, g) == [type |-> t, iface |-> i, metric |-> m, gw |-> g]

KernelStep(up2, kr2, m) ==
    /\ nEvents < MaxEvents /\ nEvents' = nEvents + 1
    /\ up' = up2 /\ kroutes' = kr2 /\ Notify(m)
    /\ UNCHANGED <<monitor, msgs, gw, pcStop, stopSent>>

AddDefault ==
    \E r \in Routes : r.iface \in up /\ r \notin kroutes
        /\ KernelStep(up, kroutes \cup {r}, Msg("NEW", r.iface, r.metric, TRUE))

DelDefault ==
    \E r \in kroutes :
        KernelStep(up, kroutes \ {r}, Msg("DEL", r.iface, r.metric, TRUE))

LinkDown ==
    \E i \in up :
        KernelStep(up \ {i}, {r \in kroutes : r.iface /= i}, Msg("DEL", i, 0, FALSE))

LinkUp ==
    \E i \in Ifaces \ up :
        KernelStep(up \cup {i}, kroutes, Msg("NEW", i, 0, FALSE))

\* messageLoop: waitForMessage, then reopen on the message's interface.
MessageLoopTake ==
    /\ msgs /= <<>>
    /\ gw' = Head(msgs) /\ msgs' = Tail(msgs)
    /\ UNCHANGED <<kernel, sock, overrun, nOverruns, monitor, pcStop, stopSent>>

\* stop() from ~NetworkRouteMonitor: set mRequestExit, wake the thread
\* with a dump request (sent on the socket only while it is bound), then
\* join.
Stop ==
    /\ pcStop = "idle"
    /\ exitReq' = TRUE /\ pcStop' = "joining"
    /\ \/ Bound /\ sock' = Append(sock, DumpDatagram) /\ stopSent' = TRUE
       \/ (SendMayFail \/ ~Bound) /\ UNCHANGED <<sock, stopSent>>
    /\ UNCHANGED <<kernel, overrun, nOverruns, routes, cur, pc, msgs, gw>>

\* mRMonThread->join() returns once the thread has returned.
Join ==
    /\ pcStop = "joining" /\ pc = "exited"
    /\ pcStop' = "done"
    /\ UNCHANGED <<kernel, sock, overrun, nOverruns, monitor, msgs, gw, stopSent>>

\* The kernel may start with any default routes on the interfaces that
\* are up; the observer is registered before start() creates the thread.
Init ==
    /\ up \in SUBSET Ifaces
    /\ kroutes \in SUBSET {r \in Routes : r.iface \in up}
    /\ sock = <<>> /\ overrun = FALSE
    /\ routes = <<>> /\ cur = NoIface
    /\ msgs = <<>> /\ gw = NoIface
    /\ pc = "start" /\ exitReq = FALSE
    /\ pcStop = "idle" /\ stopSent = FALSE
    /\ nEvents = 0 /\ nOverruns = 0

Next ==
    \/ Start \/ SendDump \/ Recv
    \/ AddDefault \/ DelDefault \/ LinkDown \/ LinkUp
    \/ MessageLoopTake \/ Stop \/ Join

Spec == Init /\ [][Next]_vars

\* The poll thread, the message loop and the joining thread are
\* std::threads: each keeps running while it can.  The kernel and the
\* unload of the plugin are not bound to happen.
PollThread == Start \/ SendDump \/ Recv

\* ENABLED <<PollThread>>_vars, written out: every step of the thread
\* changes pc or sock, so it is enabled exactly when its guard holds.
PollEnabled ==
    \/ pc \in {"start", "dump"}
    \/ pc = "recv" /\ (overrun \/ sock /= <<>>)

\* WF_vars(PollThread) in its expanded form.
FairSpec == /\ Spec
            /\ []<>~PollEnabled \/ []<><<PollThread>>_vars
            /\ WF_vars(MessageLoopTake) /\ WF_vars(Join)

-----------------------------------------------------------------------------
(* Properties.                                                            *)

TypeOK ==
    /\ up \subseteq Ifaces /\ kroutes \subseteq Routes
    /\ sock \in Seq(Seq(NlMsgs)) /\ routes \in Seq(Routes)
    /\ {cur, gw} \subseteq Ifaces \cup {NoIface} /\ msgs \in Seq(Ifaces \cup {NoIface})
    /\ pc \in {"start", "dump", "recv", "exited"} /\ pcStop \in {"idle", "joining", "done"}
    /\ {overrun, exitReq, stopSent} \subseteq BOOLEAN

\* The poll thread has read every datagram and every overrun report.
Synced == pc = "recv" /\ sock = <<>> /\ ~overrun /\ ~exitReq

\* Once the poll thread has read everything the kernel sent, mDefaultRoutes
\* holds every default route of the kernel: a notification lost to a
\* netlink overrun is recovered by the dump the do-while sends after the
\* failed recv, and the metric-0 rule removes only routes the kernel has
\* flushed with the interface.
KernelRoutesKnown == Synced => kroutes \subseteq ToSet(routes)

\* The interfaces of the kernel's best default routes, or none.
BestIfaces ==
    IF kroutes = {} THEN {NoIface}
    ELSE LET m == Min({r.metric : r \in kroutes})
         IN  {r.iface : r \in {x \in kroutes : x.metric = m}}

\* Once the poll thread and messageLoop are idle, the handler has reopened
\* its source on an interface of a best default route of the kernel, or
\* on "lo" when there is none.
GatewayFollowsKernel == Synced /\ msgs = <<>> => gw \in BestIfaces

\* If stop() sent its wake-up dump request, the poll thread receives the
\* answer, sees mRequestExit, returns, and the join in stop() completes.
StopJoins == (pcStop = "joining" /\ stopSent) ~> (pcStop = "done")

=============================================================================
