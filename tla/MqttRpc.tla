------------------------------ MODULE MqttRpc ------------------------------
(* MqttClient::request of hcr5_bridge: remote calls over publish/subscribe.  *)
(* Each call has a fresh uuid, which is also the topic of its answer. The    *)
(* caller's thread registers the uuid, subscribes, publishes and waits; the  *)
(* receive thread fills the caller's slot. Several threads may be in it.     *)
EXTENDS Naturals, Sequences

CONSTANTS
    Callers,   \* the threads that call request() (the worker, the lifecycle thread)
    MaxCalls,  \* how many calls each of them makes (a bound)
    Faults     \* a subset of FaultKinds

\* net: the link to the broker drops; refuse: an answer with code # 0;
\* mute: the robot carries a request out and does not answer.
FaultKinds == {"net", "refuse", "mute"}

ASSUME RpcAssumption == MaxCalls \in [Callers -> Nat] /\ Faults \subseteq FaultKinds

Uuids == UNION {{c} \X (1..MaxCalls[c]) : c \in Callers}

VARIABLES
    connected,  \* connected_
    net,        \* the link to the broker is up
    at,         \* where each caller is inside request()
    calls,      \* how many calls it has begun
    call,       \* what each call has come to; "asked" while it is inside
    pending,    \* pending_: uuid -> its answer slot, "empty" until filled
    reply,      \* the caller's local copy of the slot
    link,       \* packets on their way to the broker, in order
    subs,       \* answer topics the broker has subscribed for this session
    requests,   \* requests the robot has not handled yet
    executed,   \* requests it carried out
    answered,   \* requests it answered
    inbox,      \* answers on their way to the receive thread
    steady      \* history: the link did not drop since the caller's call began

callerVars == <<at, calls, call, pending, reply>>
brokerVars == <<net, link, subs, inbox>>
robotVars  == <<requests, executed, answered>>
vars == <<connected, callerVars, brokerVars, robotVars, steady>>

Packets == [kind : {"sub", "pub", "unsub"}, uuid : Uuids]
Codes == {"ok", "bad"}
Answers == [uuid : Uuids, code : Codes]

TypeOK ==
    /\ connected \in BOOLEAN /\ net \in BOOLEAN
    /\ at \in [Callers -> {"idle", "first", "second", "wait", "release"}]
    /\ calls \in [Callers -> Nat] /\ \A c \in Callers : calls[c] <= MaxCalls[c]
    /\ call \in [Uuids -> {"new", "asked", "value", "none"}]
    /\ DOMAIN pending \subseteq Uuids
    /\ \A u \in DOMAIN pending : pending[u] \in Codes \cup {"empty"}
    /\ reply \in [Callers -> Codes \cup {"empty"}]
    /\ link \in Seq(Packets)
    /\ subs \subseteq Uuids /\ requests \subseteq Uuids
    /\ executed \subseteq Uuids /\ answered \subseteq Uuids
    /\ inbox \subseteq Answers
    /\ steady \in [Callers -> BOOLEAN]

Init ==
    /\ connected = TRUE /\ net = TRUE
    /\ at = [c \in Callers |-> "idle"] /\ calls = [c \in Callers |-> 0]
    /\ call = [u \in Uuids |-> "new"]
    /\ pending = <<>> /\ reply = [c \in Callers |-> "empty"]
    /\ link = <<>> /\ subs = {} /\ inbox = {}
    /\ requests = {} /\ executed = {} /\ answered = {}
    /\ steady = [c \in Callers |-> FALSE]

\* The uuid of the call c is in.
Uuid(c) == <<c, calls[c]>>

\* A packet goes out in the order of the calls; without a link it is lost (QoS 0).
Sent(kind, u) == IF net THEN Append(link, [kind |-> kind, uuid |-> u]) ELSE link

\* pending_[u] = v, whether or not u has a slot yet.
Slots(u, v) == [w \in DOMAIN pending \cup {u} |-> IF w = u THEN v ELSE pending[w]]

-----------------------------------------------------------------------------
(* request(), in the caller's thread.                                        *)

\* After stop() a call returns nothing at once.
Refused(c) ==
    /\ at[c] = "idle" /\ calls[c] < MaxCalls[c] /\ ~connected
    /\ calls' = [calls EXCEPT ![c] = @ + 1]
    /\ call' = [call EXCEPT ![<<c, calls[c] + 1>>] = "none"]
    /\ UNCHANGED <<connected, at, pending, reply, brokerVars, robotVars, steady>>

\* The slot is there before anything is sent.
Register(c) ==
    /\ at[c] = "idle" /\ calls[c] < MaxCalls[c] /\ connected
    /\ calls' = [calls EXCEPT ![c] = @ + 1]
    /\ call' = [call EXCEPT ![<<c, calls[c] + 1>>] = "asked"]
    /\ pending' = Slots(<<c, calls[c] + 1>>, "empty")
    /\ at' = [at EXCEPT ![c] = "first"]
    /\ steady' = [steady EXCEPT ![c] = net]
    /\ UNCHANGED <<connected, reply, brokerVars, robotVars>>

\* Mutant of PacketOrder: publish, then subscribe.
PacketOrderSwapped == [first |-> "pub", second |-> "sub"]

\* Subscribe to the answer's topic, then publish the request.
PacketOrder == [first |-> "sub", second |-> "pub"]

Send(c) ==
    /\ at[c] \in {"first", "second"}
    /\ link' = Sent(PacketOrder[at[c]], Uuid(c))
    /\ at' = [at EXCEPT ![c] = IF @ = "first" THEN "second" ELSE "wait"]
    /\ UNCHANGED <<connected, calls, call, pending, reply, net, subs, inbox, robotVars, steady>>

\* Takes the slot's value and erases the slot, under rpc_mutex_.
Take(c) ==
    /\ reply' = [reply EXCEPT ![c] = pending[Uuid(c)]]
    /\ pending' = [u \in DOMAIN pending \ {Uuid(c)} |-> pending[u]]
    /\ at' = [at EXCEPT ![c] = "release"]

\* Mutant of Wake: waits for an answer however long it takes.
WakeAnswered(c) ==
    /\ at[c] = "wait" /\ pending[Uuid(c)] # "empty"
    /\ Take(c)
    /\ UNCHANGED <<connected, calls, call, brokerVars, robotVars, steady>>

\* wait_for ends: the slot was filled, or the timeout passed.
Wake(c) ==
    /\ at[c] = "wait"
    /\ Take(c)
    /\ UNCHANGED <<connected, calls, call, brokerVars, robotVars, steady>>

\* Mutants of Release: the answer itself is returned; any answer counts as a value.
ReleaseRaw(c) ==
    /\ at[c] = "release"
    /\ link' = Sent("unsub", Uuid(c))
    /\ call' = [call EXCEPT ![Uuid(c)] = reply[c]]
    /\ at' = [at EXCEPT ![c] = "idle"] /\ reply' = [reply EXCEPT ![c] = "empty"]
    /\ UNCHANGED <<connected, calls, pending, net, subs, inbox, robotVars, steady>>

ReleaseAnyCode(c) ==
    /\ at[c] = "release"
    /\ link' = Sent("unsub", Uuid(c))
    /\ call' = [call EXCEPT ![Uuid(c)] = IF reply[c] # "empty" THEN "value" ELSE "none"]
    /\ at' = [at EXCEPT ![c] = "idle"] /\ reply' = [reply EXCEPT ![c] = "empty"]
    /\ UNCHANGED <<connected, calls, pending, net, subs, inbox, robotVars, steady>>

\* Unsubscribes; no answer, or one with another code than 0, is no value.
Release(c) ==
    /\ at[c] = "release"
    /\ link' = Sent("unsub", Uuid(c))
    /\ call' = [call EXCEPT ![Uuid(c)] = IF reply[c] = "ok" THEN "value" ELSE "none"]
    /\ at' = [at EXCEPT ![c] = "idle"] /\ reply' = [reply EXCEPT ![c] = "empty"]
    /\ UNCHANGED <<connected, calls, pending, net, subs, inbox, robotVars, steady>>

-----------------------------------------------------------------------------
(* stop(), called when no thread is inside request(), and the receive thread. *)

Stop ==
    /\ connected /\ \A c \in Callers : at[c] = "idle"
    /\ connected' = FALSE /\ subs' = {} /\ inbox' = {}
    /\ UNCHANGED <<callerVars, net, link, robotVars, steady>>

\* Mutant of Dispatch: an answer makes its slot again after it was erased.
DispatchRevives(m) ==
    /\ inbox' = inbox \ {m}
    /\ pending' = Slots(m.uuid, m.code)
    /\ UNCHANGED <<connected, at, calls, call, reply, net, link, subs, robotVars, steady>>

\* An answer whose slot is gone finds no callback for its topic and is dropped.
Dispatch(m) ==
    /\ inbox' = inbox \ {m}
    /\ pending' = [u \in DOMAIN pending |-> IF u = m.uuid THEN m.code ELSE pending[u]]
    /\ UNCHANGED <<connected, at, calls, call, reply, net, link, subs, robotVars, steady>>

-----------------------------------------------------------------------------
(* The broker and the robot.                                                 *)

Broker ==
    /\ link # <<>> /\ link' = Tail(link)
    /\ LET p == Head(link) IN
       /\ subs' = CASE p.kind = "sub" /\ connected -> subs \cup {p.uuid}
                    [] p.kind = "unsub" -> subs \ {p.uuid}
                    [] OTHER -> subs
       /\ requests' = IF p.kind = "pub" THEN requests \cup {p.uuid} ELSE requests
    /\ UNCHANGED <<connected, callerVars, net, inbox, executed, answered, steady>>

Publication(u, code) == IF u \in subs THEN {[uuid |-> u, code |-> code]} ELSE {}

Robot(u) ==
    /\ requests' = requests \ {u}
    /\ \/ /\ executed' = executed \cup {u} /\ answered' = answered \cup {u}
          /\ inbox' = inbox \cup Publication(u, "ok")
       \/ /\ "refuse" \in Faults /\ answered' = answered \cup {u}
          /\ inbox' = inbox \cup Publication(u, "bad")
          /\ UNCHANGED executed
       \/ /\ "mute" \in Faults /\ executed' = executed \cup {u}
          /\ UNCHANGED <<inbox, answered>>
    /\ UNCHANGED <<connected, callerVars, net, link, subs, steady>>

\* The session is clean: what was on its way is lost, and so are the subscriptions.
NetDown ==
    /\ "net" \in Faults /\ net
    /\ net' = FALSE /\ link' = <<>> /\ inbox' = {} /\ subs' = {}
    /\ steady' = [c \in Callers |-> FALSE]
    /\ UNCHANGED <<connected, callerVars, robotVars>>

NetUp ==
    /\ ~net /\ net' = TRUE
    /\ UNCHANGED <<connected, callerVars, link, subs, inbox, robotVars, steady>>

-----------------------------------------------------------------------------
Inside(c) == Send(c) \/ Wake(c) \/ Release(c)

Next ==
    \/ \E c \in Callers : Refused(c) \/ Register(c) \/ Inside(c)
    \/ Stop \/ (\E m \in inbox : Dispatch(m))
    \/ Broker \/ (\E u \in requests : Robot(u)) \/ NetDown \/ NetUp

Spec == Init /\ [][Next]_vars

\* The OS runs each caller and wait_for has a timeout; nothing is assumed of the
\* network, the broker or the robot.
FairSpec == Spec /\ \A c \in Callers : WF_vars(Inside(c))

-----------------------------------------------------------------------------
\* What the comment of request() claims for its order: while a caller waits and
\* the link has not dropped, an answer that was given is in its slot or on its way.
AnswerNotMissed ==
    \A c \in Callers : at[c] = "wait" /\ steady[c] /\ Uuid(c) \in answered =>
        \/ pending[Uuid(c)] # "empty"
        \/ \E m \in inbox : m.uuid = Uuid(c)

\* A long-lived node leaks neither slots nor subscriptions, whatever timed out.
NothingLeaks ==
    (\A c \in Callers : at[c] = "idle") =>
        /\ DOMAIN pending = {}
        /\ link = <<>> => subs = {}

\* A value is the robot's own answer to this very request.
Contract == INSTANCE RpcContract WITH Calls <- Uuids

ImplementsContract == Contract!Spec

\* Every call returns, with or without a network.
CallsReturn == \A u \in Uuids : call[u] = "asked" ~> call[u] # "asked"
=============================================================================
