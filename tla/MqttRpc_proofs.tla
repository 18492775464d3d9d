--------------------------- MODULE MqttRpc_proofs ---------------------------
(* Theorems about MqttRpc, for any callers, any number of calls and any set  *)
(* of faults.                                                                *)
EXTENDS MqttRpc, TLAPS

\* Every call a caller may make has a uuid of its own.
LEMMA UuidsOfCalls ==
    ASSUME NEW c \in Callers, NEW n \in 1..MaxCalls[c]
    PROVE  <<c, n>> \in Uuids
BY DEF Uuids

\* A caller inside request() is in a call that it asked, and its later calls are new.
Asking ==
    \A c \in Callers :
        /\ at[c] # "idle" => calls[c] # 0 /\ call[Uuid(c)] = "asked"
        /\ at[c] \in {"first", "second", "wait"} => Uuid(c) \in DOMAIN pending
        /\ \A n \in 1..MaxCalls[c] : calls[c] < n => call[<<c, n>>] = "new"

\* Only requests that were asked are on their way to the robot.
Requested ==
    /\ \A i \in 1..Len(link) : link[i].kind = "pub" => call[link[i].uuid] # "new"
    /\ \A u \in requests : call[u] # "new"

\* Wherever an "ok" is, on its way, in a slot or in a caller's hand, the robot
\* carried out the request it answers.
Truthful ==
    /\ \A m \in inbox : m.code = "ok" => m.uuid \in executed
    /\ \A u \in DOMAIN pending : pending[u] = "ok" => u \in executed
    /\ \A c \in Callers : reply[c] = "ok" => at[c] = "release" /\ Uuid(c) \in executed

\* The caller is inside request() for u.
Holds(c, u) == at[c] # "idle" /\ u = Uuid(c)

Packet(kind, u) == [kind |-> kind, uuid |-> u]

\* The broker has the subscription for u, or will have it.
Subscribed(u) == u \in subs \/ \E i \in 1..Len(link) : link[i] = Packet("sub", u)

\* An "unsub" for u is on its way behind every "sub" for it.
TakenBack(u) ==
    \E j \in 1..Len(link) :
        /\ link[j] = Packet("unsub", u)
        /\ \A i \in 1..Len(link) : link[i] = Packet("sub", u) => i < j

\* A slot belongs to a caller that waits for it; a subscription belongs to a caller
\* inside its call or is going to be taken back.
Owned ==
    /\ \A u \in DOMAIN pending :
           \E c \in Callers : at[c] \in {"first", "second", "wait"} /\ u = Uuid(c)
    /\ ~net => link = <<>> /\ subs = {}
    /\ \A u \in Uuids : Subscribed(u) => (\E c \in Callers : Holds(c, u)) \/ TakenBack(u)

IInv == TypeOK /\ Asking /\ Requested /\ Truthful /\ Owned

LEMMA InitIInv == Init => IInv
<1> SUFFICES ASSUME Init PROVE IInv
    OBVIOUS
<1> USE RpcAssumption
<1>1. TypeOK
    BY DEF Init, TypeOK
<1>2. Asking /\ Requested /\ Truthful /\ Owned
    BY UuidsOfCalls DEF Init, Asking, Requested, Truthful, Owned,
       Subscribed
<1> QED
    BY <1>1, <1>2 DEF IInv

-----------------------------------------------------------------------------
(* The caller's thread.                                                      *)

LEMMA CallsOf ==
    ASSUME TypeOK, Asking, NEW c \in Callers
    PROVE  /\ calls[c] \in 0..MaxCalls[c] /\ MaxCalls[c] \in Nat
           /\ at[c] # "idle" => Uuid(c) \in Uuids
<1>1. calls[c] \in 0..MaxCalls[c] /\ MaxCalls[c] \in Nat
    BY RpcAssumption DEF TypeOK
<1>2. at[c] # "idle" => calls[c] \in 1..MaxCalls[c]
    BY <1>1 DEF Asking
<1> QED
    BY <1>1, <1>2, UuidsOfCalls DEF Uuid

LEMMA PacketsOnLink ==
    ASSUME TypeOK
    PROVE  Len(link) \in Nat /\ \A i \in 1..Len(link) : link[i] \in Packets /\ link[i].uuid \in Uuids
<1>1. Len(link) \in Nat /\ \A i \in 1..Len(link) : link[i] \in Packets
    BY DEF TypeOK
<1>2. \A p \in Packets : p.uuid \in Uuids
    BY DEF Packets
<1> QED
    BY <1>1, <1>2

LEMMA BeginIInv == IInv /\ (\E c \in Callers : Refused(c) \/ Register(c)) => IInv'
<1> SUFFICES ASSUME TypeOK, Asking, Requested, Truthful, Owned,
                    NEW c \in Callers, Refused(c) \/ Register(c)
    PROVE IInv'
    BY DEF IInv
<1> USE RpcAssumption DEF brokerVars, robotVars
<1> DEFINE new == <<c, calls[c] + 1>>
<1>0. calls[c] \in Nat /\ calls[c] + 1 \in 1..MaxCalls[c] /\ MaxCalls[c] \in Nat /\ at[c] = "idle"
    BY DEF Refused, Register, TypeOK
<1>1. new \in Uuids /\ call[new] = "new"
    BY <1>0, UuidsOfCalls DEF Asking
<1>2. /\ calls' = [calls EXCEPT ![c] = calls[c] + 1]
      /\ call' \in {[call EXCEPT ![new] = "none"], [call EXCEPT ![new] = "asked"]}
    BY DEF Refused, Register
<1>3. /\ UNCHANGED <<connected, reply, brokerVars, robotVars>>
      /\ \/ UNCHANGED <<at, pending, steady>> /\ call' = [call EXCEPT ![new] = "none"]
         \/ /\ at' = [at EXCEPT ![c] = "first"] /\ call' = [call EXCEPT ![new] = "asked"]
            /\ pending' = Slots(new, "empty")
            /\ steady' = [steady EXCEPT ![c] = net]
    BY DEF Refused, Register
<1>4. TypeOK'
  <2>1. calls' \in [Callers -> Nat] /\ \A d \in Callers : calls'[d] <= MaxCalls[d]
    BY <1>0, <1>2 DEF TypeOK
  <2>2. /\ call' \in [Uuids -> {"new", "asked", "value", "none"}]
        /\ at' \in [Callers -> {"idle", "first", "second", "wait", "release"}]
        /\ steady' \in [Callers -> BOOLEAN]
    BY <1>1, <1>3 DEF TypeOK
  <2>3. DOMAIN pending' \subseteq Uuids /\ \A u \in DOMAIN pending' : pending'[u] \in Codes \cup {"empty"}
    <3>1. CASE pending' = pending
      BY <3>1 DEF TypeOK
    <3>2. CASE pending' = Slots(new, "empty")
      <4>1. DOMAIN pending' = DOMAIN pending \cup {new}
        BY <3>2 DEF Slots
      <4>2. \A u \in DOMAIN pending' : pending'[u] = IF u = new THEN "empty" ELSE pending[u]
        BY <3>2 DEF Slots
      <4> QED
        BY <4>1, <4>2, <1>1 DEF TypeOK
    <3> QED
      BY <3>1, <3>2, <1>3
  <2> QED
    BY <2>1, <2>2, <2>3, <1>3 DEF TypeOK
<1>5. Asking'
  <2>1. \A d \in Callers : calls'[d] = IF d = c THEN calls[d] + 1 ELSE calls[d]
      BY <1>2 DEF TypeOK
  <2>2. \A d \in Callers : d # c => Uuid(d)' = Uuid(d) /\ at'[d] = at[d]
      BY <2>1, <1>3 DEF TypeOK, Uuid
  <2>3. \A u \in Uuids : u # new => call'[u] = call[u]
      BY <1>2, <1>1 DEF TypeOK
  <2>4. ASSUME NEW d \in Callers, d # c
        PROVE  /\ at'[d] # "idle" => calls'[d] # 0 /\ call'[Uuid(d)'] = "asked"
               /\ at'[d] \in {"first", "second", "wait"} => Uuid(d)' \in DOMAIN pending'
               /\ \A n \in 1..MaxCalls[d] : calls'[d] < n => call'[<<d, n>>] = "new"
    <3>1. at[d] # "idle" => Uuid(d) \in Uuids /\ Uuid(d) # new
        BY <2>4, CallsOf DEF Uuid
    <3>2. \A n \in 1..MaxCalls[d] : <<d, n>> \in Uuids /\ <<d, n>> # new
        BY <2>4, UuidsOfCalls
    <3> QED
        BY <2>1, <2>2, <2>3, <2>4, <3>1, <3>2, <1>3 DEF Asking, Slots
  <2>5. /\ at'[c] # "idle" => calls'[c] # 0 /\ call'[Uuid(c)'] = "asked"
        /\ at'[c] \in {"first", "second", "wait"} => Uuid(c)' \in DOMAIN pending'
    <3>1. Uuid(c)' = new /\ calls'[c] # 0
        BY <2>1, <1>0 DEF Uuid
    <3> QED
        BY <3>1, <1>0, <1>1, <1>3 DEF TypeOK, Slots
  <2>6. \A n \in 1..MaxCalls[c] : calls'[c] < n => call'[<<c, n>>] = "new"
    <3> TAKE n \in 1..MaxCalls[c]
    <3> HAVE calls'[c] < n
    <3>1. <<c, n>> \in Uuids /\ <<c, n>> # new /\ calls[c] < n
        BY <2>1, <1>0, UuidsOfCalls
    <3> QED
        BY <3>1, <2>3 DEF Asking
  <2> QED
      BY <2>4, <2>5, <2>6 DEF Asking
<1>6. Requested'
  <2>1. \A u \in Uuids : call[u] # "new" => call'[u] # "new"
    BY <1>1, <1>2 DEF TypeOK
  <2>2. \A i \in 1..Len(link) : link[i].uuid \in Uuids
    BY PacketsOnLink
  <2>3. \A i \in 1..Len(link) : link[i].kind = "pub" => call'[link[i].uuid] # "new"
    BY <2>1, <2>2 DEF Requested
  <2> QED
    BY <2>1, <2>3, <1>3 DEF Requested, TypeOK
<1>7. Truthful'
  <2>1. \A d \in Callers : reply'[d] = "ok" => at'[d] = "release" /\ Uuid(d)' \in executed'
    <3> SUFFICES ASSUME NEW d \in Callers, reply[d] = "ok"
        PROVE  at'[d] = "release" /\ Uuid(d)' \in executed'
        BY <1>3
    <3>1. at[d] = "release" /\ Uuid(d) \in executed
        BY DEF Truthful
    <3>2. d # c
        BY <3>1, <1>0
    <3>3. at'[d] = at[d] /\ calls'[d] = calls[d]
        BY <3>2, <1>2, <1>3 DEF TypeOK
    <3> QED
        BY <3>1, <3>3, <1>3 DEF Uuid
  <2>2. \A u \in DOMAIN pending' : pending'[u] = "ok" => u \in executed'
    BY <1>3 DEF Truthful, Slots
  <2> QED
    BY <2>1, <2>2, <1>3 DEF Truthful
<1>8. Owned'
  <2>1. \A d \in Callers : at[d] # "idle" => at'[d] = at[d] /\ Uuid(d)' = Uuid(d)
    BY <1>0, <1>2, <1>3 DEF TypeOK, Uuid
  <2>2. Uuid(c)' = new
    BY <1>0, <1>2 DEF TypeOK, Uuid
  <2>3. \A u \in DOMAIN pending' :
           \E d \in Callers : at'[d] \in {"first", "second", "wait"} /\ u = Uuid(d)'
    <3> TAKE u \in DOMAIN pending'
    <3>1. CASE u \in DOMAIN pending
      <4>1. PICK d \in Callers : at[d] \in {"first", "second", "wait"} /\ u = Uuid(d)
        BY <3>1 DEF Owned
      <4> QED
        BY <4>1, <2>1
    <3>2. CASE u \notin DOMAIN pending
      <4>1. u = new /\ at'[c] = "first"
        BY <3>2, <1>3 DEF TypeOK, Slots
      <4> QED
        BY <4>1, <2>2
    <3> QED
      BY <3>1, <3>2
  <2>4. \A d \in Callers, u \in Uuids : Holds(d, u) => Holds(d, u)'
    BY <2>1 DEF Holds
  <2> QED
    BY <2>3, <2>4, <1>3 DEF Owned, Subscribed, TakenBack, Packet
<1> QED
    BY <1>4, <1>5, <1>6, <1>7, <1>8 DEF IInv

\* A packet is appended to the link, or lost when there is none.
LEMMA SentOnLink ==
    ASSUME TypeOK, NEW k \in {"sub", "pub", "unsub"}, NEW u \in Uuids, link' = Sent(k, u)
    PROVE  /\ link' \in Seq(Packets)
           /\ ~net => link' = link
           /\ net => /\ Len(link') = Len(link) + 1
                     /\ link'[Len(link) + 1] = Packet(k, u)
                     /\ \A i \in 1..Len(link) : link'[i] = link[i]
<1>1. Packet(k, u) \in Packets
    BY DEF Packet, Packets
<1>2. CASE ~net
    BY <1>2 DEF Sent, TypeOK
<1>3. CASE net
  <2>1. link' = Append(link, Packet(k, u)) /\ link \in Seq(Packets)
    BY <1>3 DEF Sent, Packet, TypeOK
  <2> QED
    BY <2>1, <1>1, <1>3
<1> QED
    BY <1>2, <1>3

\* What a caller holds stays owned when it sends a packet other than "unsub"; when
\* it lets go it sends that one last.
LEMMA SentOwned ==
    ASSUME IInv, NEW c \in Callers, NEW k \in {"sub", "pub", "unsub"}, at[c] # "idle",
           link' = Sent(k, Uuid(c)), UNCHANGED <<net, subs, calls>>,
           \A d \in Callers : d # c => at'[d] = at[d],
           k = "unsub" \/ at'[c] # "idle"
    PROVE  \A u \in Uuids : Subscribed(u)' => (\E d \in Callers : Holds(d, u)') \/ TakenBack(u)'
<1> TAKE u \in Uuids
<1> HAVE Subscribed(u)'
<1>1. TypeOK /\ Owned /\ Uuid(c) \in Uuids /\ Len(link) \in Nat
    BY CallsOf, PacketsOnLink DEF IInv
<1>2. /\ ~net => link' = link
      /\ net => /\ Len(link') = Len(link) + 1
                /\ link'[Len(link) + 1] = Packet(k, Uuid(c))
                /\ \A i \in 1..Len(link) : link'[i] = link[i]
    BY <1>1, SentOnLink
<1>3. CASE ~net
    BY <1>1, <1>2, <1>3 DEF Owned, Subscribed
<1>4. CASE net /\ u = Uuid(c)
  <2>1. CASE at'[c] # "idle"
    BY <2>1, <1>4 DEF Holds, Uuid
  <2>2. CASE k = "unsub"
    <3>1. link'[Len(link')] = Packet("unsub", u) /\ Len(link') \in 1..Len(link')
      BY <1>1, <1>2, <1>4, <2>2
    <3>2. \A i \in 1..Len(link') : link'[i] = Packet("sub", u) => i < Len(link')
      BY <3>1, <1>1, <1>2, <1>4 DEF Packet
    <3> QED
      BY <3>1, <3>2 DEF TakenBack
  <2> QED
    BY <2>1, <2>2
<1>5. CASE net /\ u # Uuid(c)
  <2>1. \A i \in 1..Len(link') : link'[i] = Packet("sub", u) => i \in 1..Len(link) /\ link[i] = link'[i]
    BY <1>1, <1>2, <1>5 DEF Packet
  <2>2. Subscribed(u)
    BY <2>1 DEF Subscribed
  <2>3. CASE \E d \in Callers : Holds(d, u)
    BY <2>3, <1>5 DEF Holds, Uuid
  <2>4. CASE TakenBack(u)
    <3>1. PICK j \in 1..Len(link) : /\ link[j] = Packet("unsub", u)
                                    /\ \A i \in 1..Len(link) : link[i] = Packet("sub", u) => i < j
      BY <2>4 DEF TakenBack
    <3>2. j \in 1..Len(link') /\ link'[j] = Packet("unsub", u)
      BY <3>1, <1>1, <1>2, <1>5
    <3> QED
      BY <3>1, <3>2, <2>1 DEF TakenBack
  <2> QED
    BY <2>2, <2>3, <2>4, <1>1 DEF Owned
<1> QED
    BY <1>3, <1>4, <1>5

\* The callers' uuids differ.
LEMMA UuidsDiffer == \A c, d \in Callers : c # d => Uuid(c) # Uuid(d)
BY DEF Uuid

LEMMA SendIInv == IInv /\ (\E c \in Callers : Send(c)) => IInv'
<1> SUFFICES ASSUME IInv, NEW c \in Callers, Send(c)
    PROVE IInv'
    OBVIOUS
<1> USE RpcAssumption DEF robotVars
<1> DEFINE k == PacketOrder[at[c]]
<1>0. /\ TypeOK /\ Asking /\ Requested /\ Truthful /\ Owned
      /\ Uuid(c) \in Uuids /\ call[Uuid(c)] = "asked" /\ k \in {"sub", "pub"}
    BY CallsOf DEF IInv, Send, Asking, PacketOrder
<1>1. /\ at[c] \in {"first", "second"}
      /\ \A d \in Callers : at'[d] = IF d = c THEN IF at[c] = "first" THEN "second" ELSE "wait"
                                           ELSE at[d]
      /\ at' \in [Callers -> {"idle", "first", "second", "wait", "release"}]
      /\ UNCHANGED <<connected, calls, call, pending, reply, net, subs, inbox, robotVars, steady>>
    BY <1>0 DEF Send, TypeOK
<1>2. \A d \in Callers : Uuid(d)' = Uuid(d)
    BY <1>1 DEF Uuid
<1>3. /\ link' \in Seq(Packets)
      /\ ~net => link' = link
      /\ net => /\ Len(link') = Len(link) + 1
                /\ link'[Len(link) + 1] = Packet(k, Uuid(c))
                /\ \A i \in 1..Len(link) : link'[i] = link[i]
    BY <1>0, SentOnLink DEF Send
<1>4. TypeOK'
    BY <1>0, <1>1, <1>3 DEF TypeOK
<1>5. Asking'
    BY <1>0, <1>1, <1>2 DEF Asking
<1>6. Requested'
    BY <1>0, <1>1, <1>3, PacketsOnLink DEF Requested, Packet
<1>7. Truthful'
    BY <1>0, <1>1, <1>2 DEF Truthful
<1>8. Owned'
  <2>1. \A u \in Uuids : Subscribed(u)' => (\E d \in Callers : Holds(d, u)') \/ TakenBack(u)'
    BY <1>0, <1>1, SentOwned DEF Send
  <2> QED
    BY <2>1, <1>0, <1>1, <1>2, <1>3 DEF Owned
<1> QED
    BY <1>4, <1>5, <1>6, <1>7, <1>8 DEF IInv

LEMMA WakeIInv == IInv /\ (\E c \in Callers : Wake(c)) => IInv'
<1> SUFFICES ASSUME TypeOK, Asking, Requested, Truthful, Owned, NEW c \in Callers, Wake(c)
    PROVE IInv'
    BY DEF IInv
<1> USE RpcAssumption DEF robotVars, brokerVars
<1>0. /\ at[c] = "wait" /\ Uuid(c) \in DOMAIN pending /\ Uuid(c) \in Uuids
      /\ UNCHANGED <<connected, calls, call, brokerVars, robotVars, steady>>
    BY CallsOf DEF Wake, Asking
<1>1. /\ at' = [at EXCEPT ![c] = "release"]
      /\ reply' = [reply EXCEPT ![c] = pending[Uuid(c)]]
      /\ DOMAIN pending' = DOMAIN pending \ {Uuid(c)}
      /\ \A u \in DOMAIN pending' : pending'[u] = pending[u]
    BY DEF Wake, Take
<1>2. \A d \in Callers : Uuid(d)' = Uuid(d)
    BY <1>0 DEF Uuid
<1>3. TypeOK'
    BY <1>0, <1>1 DEF TypeOK
<1>4. Asking'
    BY <1>0, <1>1, <1>2, UuidsDiffer DEF Asking, TypeOK
<1>5. Requested'
    BY <1>0 DEF Requested
<1>6. Truthful'
    BY <1>0, <1>1, <1>2 DEF Truthful, TypeOK
<1>7. Owned'
  <2>1. \A u \in DOMAIN pending' :
           \E d \in Callers : at'[d] \in {"first", "second", "wait"} /\ u = Uuid(d)'
    BY <1>1, <1>2 DEF Owned, TypeOK
  <2>2. \A d \in Callers, u \in Uuids : Holds(d, u) => Holds(d, u)'
    BY <1>1, <1>2 DEF Holds, TypeOK
  <2> QED
    BY <2>1, <2>2, <1>0 DEF Owned, Subscribed, TakenBack
<1> QED
    BY <1>3, <1>4, <1>5, <1>6, <1>7 DEF IInv

LEMMA ReleaseIInv == IInv /\ (\E c \in Callers : Release(c)) => IInv'
<1> SUFFICES ASSUME IInv, NEW c \in Callers, Release(c)
    PROVE IInv'
    OBVIOUS
<1> USE RpcAssumption DEF robotVars
<1>0. /\ TypeOK /\ Asking /\ Requested /\ Truthful /\ Owned
      /\ Uuid(c) \in Uuids /\ at[c] = "release"
      /\ UNCHANGED <<connected, calls, pending, net, subs, inbox, robotVars, steady>>
    BY CallsOf DEF IInv, Release
<1>1. /\ at' = [at EXCEPT ![c] = "idle"] /\ reply' = [reply EXCEPT ![c] = "empty"]
      /\ call' = [call EXCEPT ![Uuid(c)] = IF reply[c] = "ok" THEN "value" ELSE "none"]
    BY DEF Release
<1>2. \A d \in Callers : Uuid(d)' = Uuid(d)
    BY <1>0 DEF Uuid
<1>3. /\ link' \in Seq(Packets)
      /\ ~net => link' = link
      /\ net => /\ Len(link') = Len(link) + 1
                /\ link'[Len(link) + 1] = Packet("unsub", Uuid(c))
                /\ \A i \in 1..Len(link) : link'[i] = link[i]
    BY <1>0, SentOnLink DEF Release
<1>4. TypeOK'
    BY <1>0, <1>1, <1>3 DEF TypeOK
<1>5. Asking'
  <2> SUFFICES ASSUME NEW d \in Callers
      PROVE /\ at'[d] # "idle" => calls'[d] # 0 /\ call'[Uuid(d)'] = "asked"
            /\ at'[d] \in {"first", "second", "wait"} => Uuid(d)' \in DOMAIN pending'
            /\ \A n \in 1..MaxCalls[d] : calls'[d] < n => call'[<<d, n>>] = "new"
      BY DEF Asking
  <2>1. at'[d] # "idle" => d # c /\ at[d] # "idle" /\ Uuid(d) \in Uuids /\ Uuid(d) # Uuid(c)
    BY <1>0, <1>1, CallsOf, UuidsDiffer DEF TypeOK
  <2>2. at'[d] # "idle" => calls'[d] # 0 /\ call'[Uuid(d)'] = "asked"
    BY <2>1, <1>0, <1>1, <1>2 DEF Asking, TypeOK
  <2>3. at'[d] \in {"first", "second", "wait"} => Uuid(d)' \in DOMAIN pending'
    BY <1>0, <1>1, <1>2 DEF Asking, TypeOK
  <2>4. ASSUME NEW n \in 1..MaxCalls[d], calls[d] < n
        PROVE  call'[<<d, n>>] = "new"
    <3>1. <<d, n>> # Uuid(c) /\ <<d, n>> \in Uuids
      BY <2>4, <1>0, UuidsOfCalls, CallsOf DEF Uuid
    <3> QED
      BY <3>1, <2>4, <1>0, <1>1 DEF Asking, TypeOK
  <2> QED
    BY <2>2, <2>3, <2>4, <1>0
<1>6. Requested'
  <2>1. \A u \in Uuids : call[u] # "new" => call'[u] # "new"
    BY <1>0, <1>1 DEF TypeOK
  <2>2. \A i \in 1..Len(link) : link[i].kind = "pub" => call'[link[i].uuid] # "new"
    BY <2>1, <1>0, PacketsOnLink DEF Requested
  <2>3. \A i \in 1..Len(link') : link'[i].kind = "pub" => call'[link'[i].uuid] # "new"
    <3>1. CASE ~net
      <4>1. link' = link
        BY <3>1, <1>3
      <4> QED
        BY <4>1, <2>2
    <3>2. CASE net
      <4> TAKE i \in 1..Len(link')
      <4>1. i \in 1..Len(link) \/ i = Len(link) + 1
        BY <3>2, <1>0, <1>3, PacketsOnLink
      <4>2. i = Len(link) + 1 => link'[i].kind = "unsub"
        BY <3>2, <1>3 DEF Packet
      <4> QED
        BY <4>1, <4>2, <2>2, <3>2, <1>3
    <3> QED
      BY <3>1, <3>2
  <2> QED
    BY <2>1, <2>3, <1>0 DEF Requested, TypeOK
<1>7. Truthful'
    BY <1>0, <1>1, <1>2 DEF Truthful, TypeOK
<1>8. Owned'
  <2>1. \A u \in Uuids : Subscribed(u)' => (\E d \in Callers : Holds(d, u)') \/ TakenBack(u)'
    BY <1>0, <1>1, SentOwned DEF Release, TypeOK
  <2>2. \A u \in DOMAIN pending' :
           \E d \in Callers : at'[d] \in {"first", "second", "wait"} /\ u = Uuid(d)'
    <3> TAKE u \in DOMAIN pending'
    <3>1. PICK d \in Callers : at[d] \in {"first", "second", "wait"} /\ u = Uuid(d)
      BY <1>0 DEF Owned
    <3>2. at'[d] = at[d] /\ u = Uuid(d)'
      BY <3>1, <1>0, <1>1, <1>2 DEF TypeOK
    <3> QED
      BY <3>1, <3>2
  <2> QED
    BY <2>1, <2>2, <1>0, <1>3 DEF Owned
<1> QED
    BY <1>4, <1>5, <1>6, <1>7, <1>8 DEF IInv

-----------------------------------------------------------------------------
(* The receive thread, the broker and the robot.                             *)

LEMMA ReceiveIInv == IInv /\ (Stop \/ \E m \in inbox : Dispatch(m)) => IInv'
<1> SUFFICES ASSUME TypeOK, Asking, Requested, Truthful, Owned,
                    Stop \/ \E m \in inbox : Dispatch(m)
    PROVE IInv'
    BY DEF IInv
<1> USE RpcAssumption DEF robotVars, callerVars
<1>1. /\ UNCHANGED <<at, calls, call, reply, net, link, robotVars, steady>>
      /\ connected' \in BOOLEAN /\ inbox' \subseteq inbox /\ subs' \subseteq subs
      /\ DOMAIN pending' = DOMAIN pending
    BY DEF Stop, Dispatch, TypeOK
<1>2. \A u \in DOMAIN pending : \/ pending'[u] = pending[u]
                               \/ \E m \in inbox : m.uuid = u /\ m.code = pending'[u]
    BY DEF Stop, Dispatch
<1>3. \A m \in inbox : m.code \in Codes
    BY DEF TypeOK, Answers
<1>4. TypeOK'
    BY <1>1, <1>2, <1>3 DEF TypeOK
<1>5. Asking' /\ Requested'
    BY <1>1 DEF Asking, Requested, Uuid
<1>6. Truthful'
    BY <1>1, <1>2 DEF Truthful, Uuid
<1>7. Owned'
    BY <1>1 DEF Owned, Subscribed, TakenBack, Holds, Uuid
<1> QED
    BY <1>4, <1>5, <1>6, <1>7 DEF IInv

LEMMA BrokerIInv == IInv /\ Broker => IInv'
<1> SUFFICES ASSUME TypeOK, Asking, Requested, Truthful, Owned, Broker
    PROVE IInv'
    BY DEF IInv
<1> USE RpcAssumption DEF callerVars
<1> DEFINE p == Head(link)
<1>1. /\ UNCHANGED <<connected, callerVars, net, inbox, executed, answered, steady>>
      /\ link # <<>> /\ link' = Tail(link)
      /\ subs' = CASE p.kind = "sub" /\ connected -> subs \cup {p.uuid}
                   [] p.kind = "unsub" -> subs \ {p.uuid}
                   [] OTHER -> subs
      /\ requests' = IF p.kind = "pub" THEN requests \cup {p.uuid} ELSE requests
    BY DEF Broker
<1>2. /\ Len(link) \in Nat \ {0} /\ p = link[1] /\ p \in Packets /\ p.uuid \in Uuids
      /\ link' \in Seq(Packets) /\ Len(link') = Len(link) - 1
      /\ \A i \in 1..Len(link') : link'[i] = link[i + 1]
  <2>1. link \in Seq(Packets) /\ link # <<>> /\ link' = Tail(link) /\ p = link[1]
    BY <1>1 DEF TypeOK
  <2>2. Len(link) \in Nat \ {0}
    BY <2>1
  <2>3. p \in Packets /\ p.uuid \in Uuids
    BY <2>1, <2>2, PacketsOnLink
  <2>4. link' \in Seq(Packets) /\ Len(link') = Len(link) - 1
    BY <2>1, <2>2
  <2>5. \A i \in 1..Len(link') : link'[i] = link[i + 1]
    BY <2>1, <2>2, <2>4
  <2> QED
    BY <2>1, <2>2, <2>3, <2>4, <2>5
<1>3. TypeOK'
    BY <1>1, <1>2 DEF TypeOK
<1>4. Asking' /\ Truthful'
    BY <1>1 DEF Asking, Truthful, Uuid
<1>5. Requested'
  <2>1. p.kind = "pub" => call[p.uuid] # "new"
    BY <1>2 DEF Requested
  <2>2. \A i \in 1..Len(link') : link'[i].kind = "pub" => call[link'[i].uuid] # "new"
    BY <1>2 DEF Requested
  <2> QED
    BY <2>1, <2>2, <1>1 DEF Requested
<1>6. ASSUME NEW u \in Uuids, Subscribed(u)'
      PROVE  (\E c \in Callers : Holds(c, u)) \/ TakenBack(u)'
  <2>1. Subscribed(u)
    <3>1. CASE u \in subs'
      <4>1. u \in subs \/ (p.kind = "sub" /\ p.uuid = u)
        BY <3>1, <1>1
      <4>2. p.kind = "sub" /\ p.uuid = u => link[1] = Packet("sub", u)
        BY <1>2 DEF Packets, Packet
      <4> QED
        BY <4>1, <4>2, <1>2 DEF Subscribed
    <3>2. CASE \E i \in 1..Len(link') : link'[i] = Packet("sub", u)
      <4>1. PICK i \in 1..Len(link') : link'[i] = Packet("sub", u)
        BY <3>2
      <4>2. i + 1 \in 1..Len(link) /\ link[i + 1] = Packet("sub", u)
        BY <4>1, <1>2
      <4> QED
        BY <4>2 DEF Subscribed
    <3> QED
      BY <3>1, <3>2, <1>6 DEF Subscribed, Packet
  <2>2. CASE TakenBack(u)
    <3>1. PICK j \in 1..Len(link) : /\ link[j] = Packet("unsub", u)
                                    /\ \A i \in 1..Len(link) : link[i] = Packet("sub", u) => i < j
      BY <2>2 DEF TakenBack
    <3>2. ASSUME NEW i \in 1..Len(link'), link'[i] = Packet("sub", u)
          PROVE  i < j - 1
      <4>1. i + 1 \in 1..Len(link) /\ link[i + 1] = Packet("sub", u)
        BY <3>2, <1>2
      <4> QED
        BY <4>1, <3>1
    <3>3. CASE j = 1
      <4>1. u \notin subs'
        BY <3>1, <3>3, <1>1, <1>2 DEF Packet
      <4>2. \A i \in 1..Len(link') : link'[i] # Packet("sub", u)
        BY <3>2, <3>3
      <4> QED
        BY <4>1, <4>2, <1>6 DEF Subscribed, Packet
    <3>4. CASE j # 1
      <4>1. j - 1 \in 1..Len(link') /\ link'[j - 1] = Packet("unsub", u)
        BY <3>1, <3>4, <1>2
      <4> QED
        BY <4>1, <3>2 DEF TakenBack, Packet
    <3> QED
      BY <3>3, <3>4
  <2> QED
    BY <2>1, <2>2 DEF Owned
<1>7. Owned'
  <2>1. \A c \in Callers, u \in Uuids : Holds(c, u)' = Holds(c, u)
    BY <1>1 DEF Holds, Uuid
  <2>2. net
    BY <1>1 DEF Owned
  <2>3. \A u \in DOMAIN pending' :
           \E c \in Callers : at'[c] \in {"first", "second", "wait"} /\ u = Uuid(c)'
    BY <1>1 DEF Owned, Uuid
  <2> QED
    BY <2>1, <2>2, <2>3, <1>1, <1>6 DEF Owned
<1> QED
    BY <1>3, <1>4, <1>5, <1>7 DEF IInv

LEMMA RobotIInv == IInv /\ (\E u \in requests : Robot(u)) => IInv'
<1> SUFFICES ASSUME TypeOK, Asking, Requested, Truthful, Owned, NEW u \in requests, Robot(u)
    PROVE IInv'
    BY DEF IInv
<1> USE RpcAssumption DEF callerVars
<1>0. u \in Uuids
    BY DEF TypeOK
<1>1. /\ UNCHANGED <<connected, callerVars, net, link, subs, steady>>
      /\ requests' \subseteq requests /\ executed \subseteq executed'
      /\ executed' \subseteq Uuids /\ answered' \subseteq Uuids
      /\ \A m \in inbox' : m \in inbox \/ m = [uuid |-> u, code |-> "bad"]
                             \/ (m = [uuid |-> u, code |-> "ok"] /\ u \in executed')
    BY <1>0 DEF Robot, Publication, TypeOK
<1>2. TypeOK'
  <2>1. inbox' \subseteq Answers
    BY <1>0, <1>1 DEF TypeOK, Answers, Codes
  <2> QED
    BY <2>1, <1>1 DEF TypeOK
<1>3. Asking' /\ Requested' /\ Owned'
    BY <1>1 DEF Asking, Requested, Owned, Subscribed, TakenBack, Holds, Uuid
<1>4. Truthful'
    BY <1>1 DEF Truthful, Uuid
<1> QED
    BY <1>2, <1>3, <1>4 DEF IInv

LEMMA NetIInv == IInv /\ (NetDown \/ NetUp) => IInv'
<1> SUFFICES ASSUME TypeOK, Asking, Requested, Truthful, Owned, NetDown \/ NetUp
    PROVE IInv'
    BY DEF IInv
<1> USE RpcAssumption DEF callerVars, robotVars
<1>1. /\ UNCHANGED <<connected, callerVars, robotVars>>
      /\ \/ link' = <<>> /\ inbox' = {} /\ subs' = {} /\ net' = FALSE
            /\ steady' = [c \in Callers |-> FALSE]
         \/ UNCHANGED <<link, inbox, subs, steady>> /\ net' = TRUE
    BY DEF NetDown, NetUp
<1>2. TypeOK'
  <2>1. /\ link' \in Seq(Packets) /\ inbox' \subseteq Answers /\ subs' \subseteq Uuids
        /\ steady' \in [Callers -> BOOLEAN]
    <3>1. CASE NetDown
      BY <3>1 DEF NetDown
    <3>2. CASE NetUp
      BY <3>2 DEF NetUp, TypeOK
    <3> QED
      BY <3>1, <3>2
  <2>2. net' \in BOOLEAN
    BY <1>1, Zenon
  <2> QED
    BY <1>1, <2>1, <2>2 DEF TypeOK
<1>3. Asking' /\ Truthful'
    BY <1>1 DEF Asking, Truthful, Uuid
<1>4. Requested' /\ Owned'
    BY <1>1 DEF Requested, Owned, Subscribed, TakenBack, Holds, Uuid
<1> QED
    BY <1>2, <1>3, <1>4 DEF IInv

-----------------------------------------------------------------------------
LEMMA NextIInv == IInv /\ [Next]_vars => IInv'
<1> SUFFICES ASSUME IInv, [Next]_vars PROVE IInv'
    OBVIOUS
<1>1. CASE UNCHANGED vars
  <2> USE <1>1 DEF vars, callerVars, brokerVars, robotVars
  <2>1. TypeOK'
    BY DEF IInv, TypeOK
  <2>2. Asking' /\ Requested' /\ Truthful'
    BY DEF IInv, Asking, Requested, Truthful, Uuid
  <2>3. Owned'
    BY DEF IInv, Owned, Subscribed, TakenBack, Holds, Uuid
  <2> QED
    BY <2>1, <2>2, <2>3 DEF IInv
<1>2. CASE Next
    BY <1>2, BeginIInv, SendIInv, WakeIInv, ReleaseIInv, ReceiveIInv, BrokerIInv, RobotIInv, NetIInv
       DEF Next, Inside
<1> QED
    BY <1>1, <1>2

\* The inductive invariant holds in every reachable state.
THEOREM Invariance == Spec => []IInv
BY InitIInv, NextIInv, PTL DEF Spec

\* Every variable keeps its type (mqtt_client.cpp, request() and its callers).
THEOREM TypeCorrect == Spec => []TypeOK
<1>1. IInv => TypeOK
    BY DEF IInv
<1> QED
    BY <1>1, Invariance, PTL

\* pending_ and the broker's subscriptions hold nothing of a call that is over,
\* however often calls timed out or the link dropped.
THEOREM NoLeak == Spec => []NothingLeaks
<1>1. IInv => NothingLeaks
  <2> SUFFICES ASSUME IInv, \A c \in Callers : at[c] = "idle"
      PROVE  DOMAIN pending = {} /\ (link = <<>> => subs = {})
      BY DEF NothingLeaks
  <2>1. DOMAIN pending = {}
    BY DEF IInv, Owned
  <2>2. ASSUME link = <<>>, subs # {} PROVE FALSE
    <3>1. PICK u \in subs : u \in Uuids
      BY <2>2 DEF IInv, TypeOK
    <3>2. TakenBack(u)
      BY <3>1 DEF IInv, Owned, Subscribed, Holds
    <3> QED
      BY <3>2, <2>2 DEF TakenBack
  <2> QED
    BY <2>1, <2>2
<1> QED
    BY <1>1, Invariance, PTL

\* request() keeps the contract of a remote call: a value is returned only for a
\* request that the robot carried out, and only to the call that asked for it.
THEOREM RequestImplementsContract == Spec => ImplementsContract
<1>1. Init => Contract!Init
    BY DEF Init, Contract!Init
<1>2. IInv /\ [Next]_vars => [Contract!Next]_<<call, executed>>
  <2> SUFFICES ASSUME IInv, Next, ~UNCHANGED <<call, executed>>
      PROVE  \E u \in Uuids : Contract!Ask(u) \/ Contract!Execute(u) \/ Contract!Return(u)
      BY DEF vars, callerVars, robotVars, Contract!Next
  <2>0. TypeOK /\ Asking /\ Requested /\ Truthful
    BY DEF IInv
  <2>1. ASSUME NEW c \in Callers, Refused(c) \/ Register(c)
        PROVE  Contract!Ask(<<c, calls[c] + 1>>) \/ Contract!Return(<<c, calls[c] + 1>>)
    <3>1. calls[c] \in Nat /\ calls[c] + 1 \in 1..MaxCalls[c]
      BY <2>0, <2>1, CallsOf DEF Refused, Register
    <3>2. call[<<c, calls[c] + 1>>] = "new"
      BY <3>1, <2>0 DEF Asking
    <3> QED
      BY <3>2, <2>1 DEF Refused, Register, robotVars, Contract!Ask, Contract!Return
  <2>2. ASSUME NEW c \in Callers, Release(c)
        PROVE  Contract!Return(Uuid(c))
    BY <2>0, <2>2 DEF Release, Asking, Truthful, robotVars, Contract!Return
  <2>3. ASSUME NEW u \in requests, Robot(u), executed' # executed
        PROVE  Contract!Execute(u)
    BY <2>0, <2>3 DEF Robot, Requested, callerVars, Contract!Execute
  <2>4. \/ \E c \in Callers : Refused(c) \/ Register(c)
        \/ \E c \in Callers : Release(c)
        \/ \E u \in requests : Robot(u) /\ executed' # executed
    BY DEF Next, Inside, Send, Wake, Stop, Dispatch, Broker, Robot, NetDown, NetUp, callerVars, robotVars
  <2>5. CASE \E c \in Callers : Refused(c) \/ Register(c)
    <3>1. PICK c \in Callers : Refused(c) \/ Register(c)
      BY <2>5
    <3>2. <<c, calls[c] + 1>> \in Uuids
      BY <3>1, <2>0, CallsOf, UuidsOfCalls DEF Refused, Register
    <3> QED
      BY <3>1, <3>2, <2>1
  <2>6. CASE \E c \in Callers : Release(c)
    BY <2>6, <2>2, <2>0, CallsOf DEF Release
  <2>7. CASE \E u \in requests : Robot(u) /\ executed' # executed
    BY <2>7, <2>3, <2>0 DEF TypeOK
  <2> QED
    BY <2>4, <2>5, <2>6, <2>7
<1> QED
    BY <1>1, <1>2, Invariance, PTL DEF Spec, ImplementsContract, Contract!Spec

-----------------------------------------------------------------------------
(* No answer is missed while the link holds.                                 *)

\* The robot has not handled u, and no packet for u is on its way to the broker.
Unasked(u) == u \notin requests /\ u \notin answered
Quiet(u) == \A i \in 1..Len(link) : link[i].uuid # u

\* The broker has the subscription for u before the robot has the request.
SubscribedFirst(u) ==
    \/ u \in subs
    \/ /\ Unasked(u)
       /\ \E i \in 1..Len(link) : /\ link[i] = Packet("sub", u)
                                  /\ \A j \in 1..Len(link) : link[j] = Packet("pub", u) => i < j

Given(u) == pending[u] # "empty" \/ \E m \in inbox : m.uuid = u

\* The call u has sent nothing, its subscription, and its request as well.
Silent(u) == Unasked(u) /\ Quiet(u)
Subscribing(u) ==
    /\ Unasked(u) /\ SubscribedFirst(u)
    /\ \A i \in 1..Len(link) : link[i].uuid = u => link[i].kind = "sub"
Waiting(u) ==
    /\ SubscribedFirst(u)
    /\ \A i \in 1..Len(link) : link[i] # Packet("unsub", u)
    /\ u \in answered => Given(u)

Fresh == \A u \in Uuids : call[u] = "new" => Silent(u)

\* What holds of a call u while the link does not drop.
Heard(c, u) ==
    /\ connected
    /\ steady[c] =>
        /\ net
        /\ at[c] = "first" => Silent(u)
        /\ at[c] = "second" => Subscribing(u)
        /\ at[c] = "wait" => Waiting(u)

Hearing == \A c \in Callers, u \in Uuids : Holds(c, u) => Heard(c, u)

Listening == Fresh /\ Hearing

\* Of a call that stays where it is, when its own packets, slot and answers do.
LEMMA StillHeard ==
    ASSUME NEW c \in Callers, NEW u \in Uuids, Heard(c, u),
           connected' = connected, steady'[c] = steady[c], net => net', at'[c] = at[c],
           Silent(u) => Silent(u)',
           Subscribing(u) => Subscribing(u)',
           Waiting(u) /\ at[c] = "wait" => Waiting(u)'
    PROVE  Heard(c, u)'
BY Zenon DEF Heard

\* A call that begins is asked with an empty slot and nothing on its way.
LEMMA BeginListening ==
    ASSUME IInv, Listening, NEW c \in Callers, Refused(c) \/ Register(c)
    PROVE  Listening'
<1> USE DEF brokerVars, robotVars
<1>1. PICK new \in Uuids : new = <<c, calls[c] + 1>> /\ call[new] = "new" /\ at[c] = "idle"
  <2>1. calls[c] \in Nat /\ MaxCalls[c] \in Nat /\ calls[c] < MaxCalls[c] /\ at[c] = "idle"
    BY CallsOf DEF IInv, Refused, Register
  <2>2. calls[c] + 1 \in 1..MaxCalls[c] /\ calls[c] < calls[c] + 1 BY <2>1
  <2>3. <<c, calls[c] + 1>> \in Uuids BY <2>2, UuidsOfCalls
  <2>4. call[<<c, calls[c] + 1>>] = "new" BY <2>2 DEF IInv, Asking
  <2> QED BY <2>1, <2>3, <2>4
<1>2. /\ calls' = [calls EXCEPT ![c] = calls[c] + 1]
      /\ call' \in {[call EXCEPT ![new] = "none"], [call EXCEPT ![new] = "asked"]}
      /\ UNCHANGED <<connected, brokerVars, robotVars>>
  BY <1>1 DEF Refused, Register
<1>3. \A u \in Uuids : Silent(u) => Silent(u)' BY <1>2 DEF Silent, Unasked, Quiet
<1>4. Fresh'
  <2>1. \A u \in Uuids : call'[u] = "new" => call[u] = "new" BY <1>1, <1>2 DEF IInv, TypeOK
  <2> QED BY <1>3, <2>1 DEF Listening, Fresh
<1>5. ASSUME NEW d \in Callers, NEW u \in Uuids, Holds(d, u)' PROVE Heard(d, u)'
  <2>1. CASE d = c
    <3>1. Register(c) BY <1>1, <1>5, <2>1 DEF Refused, Holds
    <3>2. u = new BY <1>1, <1>2, <1>5, <2>1 DEF Holds, Uuid, IInv, TypeOK
    <3>3. /\ at'[c] = "first" /\ connected' = connected /\ connected /\ net' = net
          /\ steady'[c] = net
      BY <3>1 DEF Register, IInv, TypeOK
    <3>4. Silent(new)' BY <1>1, <1>3 DEF Listening, Fresh
    <3> QED BY <2>1, <3>2, <3>3, <3>4 DEF Heard
  <2>2. CASE d # c
    <3>1. at'[d] = at[d] /\ steady'[d] = steady[d] /\ Uuid(d)' = Uuid(d)
      BY <1>2, <2>2 DEF Refused, Register, IInv, TypeOK, Uuid
    <3>2. Holds(d, u) /\ u # new BY <1>1, <1>5, <2>2, <3>1 DEF Holds, Uuid
    <3>3. at[d] = "wait" => pending'[u] = pending[u]
      <4>1. at[d] = "wait" => u \in DOMAIN pending BY <3>2 DEF Holds, IInv, Asking
      <4> QED BY <1>1, <3>2, <4>1 DEF Refused, Register, Slots
    <3>4. Subscribing(u) => Subscribing(u)'
      BY <1>2 DEF Subscribing, Unasked, SubscribedFirst, Packet
    <3>5. Waiting(u) /\ at[d] = "wait" => Waiting(u)'
      BY <1>2, <3>3 DEF Waiting, Unasked, SubscribedFirst, Packet, Given
    <3>6. connected' = connected /\ net' = net BY <1>2
    <3> QED BY <1>3, <3>1, <3>2, <3>4, <3>5, <3>6, StillHeard DEF Listening, Hearing
  <2> QED BY <2>1, <2>2
<1> QED BY <1>4, <1>5 DEF Listening, Hearing

\* A packet for v that joins the link concerns no other uuid.
LEMMA OtherPacket ==
    ASSUME TypeOK, NEW k \in {"sub", "pub", "unsub"}, NEW v \in Uuids, NEW u \in Uuids, u # v,
           link' = Sent(k, v), UNCHANGED <<net, subs, inbox, robotVars>>
    PROVE  /\ Silent(u) => Silent(u)'
           /\ Subscribing(u) => Subscribing(u)'
           /\ Waiting(u) /\ pending'[u] = pending[u] => Waiting(u)'
<1> USE DEF robotVars
<1>1. Len(link) \in Nat BY PacketsOnLink
<1>2. \A i \in 1..Len(link') : (i \in 1..Len(link) /\ link'[i] = link[i]) \/ link'[i] = Packet(k, v)
  BY <1>1, SentOnLink
<1>3. \A i \in 1..Len(link) : i \in 1..Len(link') /\ link'[i] = link[i] BY <1>1, SentOnLink
<1>4. Packet(k, v).uuid = v /\ \A j \in {"sub", "pub", "unsub"} : Packet(j, u).uuid = u BY DEF Packet
<1>5. Unasked(u)' = Unasked(u) BY DEF Unasked
<1>6. SubscribedFirst(u) => SubscribedFirst(u)'
  <2> SUFFICES ASSUME SubscribedFirst(u), u \notin subs PROVE SubscribedFirst(u)'
    BY DEF SubscribedFirst
  <2>1. PICK i \in 1..Len(link) : /\ link[i] = Packet("sub", u)
                                 /\ \A j \in 1..Len(link) : link[j] = Packet("pub", u) => i < j
    BY DEF SubscribedFirst
  <2>2. \A j \in 1..Len(link') : link'[j] = Packet("pub", u) => i < j BY <1>2, <1>4, <2>1
  <2> QED BY <1>3, <1>5, <2>1, <2>2 DEF SubscribedFirst, Packet
<1>7. Silent(u) => Silent(u)' BY <1>2, <1>4, <1>5 DEF Silent, Quiet
<1>8. Subscribing(u) => Subscribing(u)' BY <1>2, <1>4, <1>5, <1>6 DEF Subscribing
<1>9. Waiting(u) /\ pending'[u] = pending[u] => Waiting(u)'
  <2>1. (\A i \in 1..Len(link) : link[i] # Packet("unsub", u))
        => (\A i \in 1..Len(link') : link'[i] # Packet("unsub", u))
    BY <1>2, <1>4
  <2> QED BY <1>6, <2>1 DEF Waiting, Given, Packet
<1> QED BY <1>7, <1>8, <1>9

\* The subscription goes out first, and nothing takes it back while the call waits.
LEMMA SendListening ==
    ASSUME IInv, Listening, NEW c \in Callers, Send(c)
    PROVE  Listening'
<1> DEFINE k == PacketOrder[at[c]]
<1> USE DEF robotVars
<1>0. PICK u \in Uuids : u = Uuid(c) /\ call[u] = "asked" /\ Holds(c, u)
  BY CallsOf DEF IInv, Send, Asking, Holds
<1>1. /\ TypeOK /\ Len(link) \in Nat /\ at[c] \in {"first", "second"}
      /\ k = IF at[c] = "first" THEN "sub" ELSE "pub"
      /\ k \in {"sub", "pub"}
  BY PacketsOnLink DEF IInv, Send, PacketOrder
<1>2. /\ link' = Sent(k, u)
      /\ UNCHANGED <<connected, calls, call, pending, net, subs, inbox, robotVars, steady>>
      /\ \A d \in Callers : at'[d] = IF d = c THEN IF at[c] = "first" THEN "second" ELSE "wait"
                                     ELSE at[d]
  BY <1>0, <1>1 DEF Send, TypeOK
<1>3. Fresh'
  <2>1. \A v \in Uuids : call[v] = "new" => v # u BY <1>0
  <2> QED BY <1>1, <1>2, <2>1, OtherPacket DEF Listening, Fresh
<1>4. ASSUME NEW d \in Callers, NEW v \in Uuids, Holds(d, v)' PROVE Heard(d, v)'
  <2>1. Holds(d, v) BY <1>0, <1>1, <1>2, <1>4 DEF Holds, Uuid
  <2>2. Heard(d, v) BY <2>1 DEF Listening, Hearing
  <2>3. CASE d # c
    <3>1. v # u BY <1>0, <2>1, <2>3, UuidsDiffer DEF Holds
    <3>2. at'[d] = at[d] /\ pending' = pending BY <1>2, <2>3
    <3> QED BY <1>1, <1>2, <2>2, <3>1, <3>2, OtherPacket, StillHeard
  <2>4. CASE d = c
    <3>0. v = u BY <1>0, <2>1, <2>4 DEF Holds
    <3> SUFFICES ASSUME steady[c]
                 PROVE  /\ at[c] = "first" => Subscribing(u)'
                        /\ at[c] = "second" => Waiting(u)'
      BY <1>1, <1>2, <2>2, <2>4, <3>0 DEF Heard
    <3>1. /\ Len(link') = Len(link) + 1 /\ link'[Len(link) + 1] = Packet(k, u)
          /\ \A i \in 1..Len(link) : link'[i] = link[i]
          /\ at[c] = "first" => Silent(u)
          /\ at[c] = "second" => Subscribing(u)
      BY <1>1, <1>2, <2>2, <2>4, <3>0, SentOnLink DEF Heard
    <3>2. ASSUME at[c] = "first" PROVE Subscribing(u)'
      <4>1. Unasked(u)' BY <1>2, <3>1, <3>2 DEF Silent, Unasked
      <4>2. \A i \in 1..Len(link') : link'[i].uuid = u => link'[i].kind = "sub"
        BY <1>1, <3>1, <3>2 DEF Silent, Quiet, Packet
      <4>3. SubscribedFirst(u)'
        <5>1. link'[Len(link')] = Packet("sub", u) /\ Len(link') \in 1..Len(link')
          BY <1>1, <3>1, <3>2
        <5>2. \A j \in 1..Len(link') : link'[j] # Packet("pub", u) BY <4>2 DEF Packet
        <5> QED BY <4>1, <5>1, <5>2 DEF SubscribedFirst, Packet
      <4> QED BY <4>1, <4>2, <4>3 DEF Subscribing
    <3>3. ASSUME at[c] = "second" PROVE Waiting(u)'
      <4>1. \A i \in 1..Len(link') : link'[i] # Packet("unsub", u)
        BY <1>1, <3>1, <3>3 DEF Subscribing, Packet
      <4>2. SubscribedFirst(u)'
        <5>1. CASE u \in subs BY <5>1, <1>2 DEF SubscribedFirst
        <5>2. CASE u \notin subs
          <6>1. PICK i \in 1..Len(link) : link[i] = Packet("sub", u)
            BY <5>2, <3>1, <3>3 DEF Subscribing, SubscribedFirst
          <6>2. \A j \in 1..Len(link) : link[j] # Packet("pub", u)
            BY <3>1, <3>3 DEF Subscribing, Packet
          <6>3. \A j \in 1..Len(link') : link'[j] = Packet("pub", u) => i < j
            BY <1>1, <3>1, <6>1, <6>2
          <6>4. Unasked(u)' BY <1>2, <3>1, <3>3 DEF Subscribing, Unasked
          <6>5. i \in 1..Len(link') /\ link'[i] = Packet("sub", u) BY <1>1, <3>1, <6>1
          <6> QED BY <6>3, <6>4, <6>5 DEF SubscribedFirst, Packet
        <5> QED BY <5>1, <5>2
      <4>3. u \notin answered' BY <1>2, <3>1, <3>3 DEF Subscribing, Unasked
      <4> QED BY <4>1, <4>2, <4>3 DEF Waiting, Packet
    <3> QED BY <3>2, <3>3
  <2> QED BY <2>3, <2>4
<1> QED BY <1>3, <1>4 DEF Listening, Hearing

\* A call that ends takes its own slot and its own subscription away.
LEMMA EndListening ==
    ASSUME IInv, Listening, NEW c \in Callers, Wake(c) \/ Release(c)
    PROVE  Listening'
<1> USE DEF robotVars, brokerVars
<1>0. PICK u \in Uuids : u = Uuid(c) /\ call[u] = "asked" /\ Holds(c, u)
  BY CallsOf DEF IInv, Wake, Release, Asking, Holds
<1>1. /\ TypeOK /\ UNCHANGED <<connected, calls, net, subs, inbox, robotVars, steady>>
      /\ link' = link \/ link' = Sent("unsub", u)
      /\ at'[c] \in {"release", "idle"}
      /\ \A d \in Callers : d # c => at'[d] = at[d]
      /\ \A v \in Uuids : v # u => call'[v] = call[v]
      /\ call'[u] # "new"
      /\ \A v \in DOMAIN pending : v # u => v \in DOMAIN pending' /\ pending'[v] = pending[v]
  BY <1>0 DEF Wake, Take, Release, IInv, TypeOK
<1>2. ASSUME NEW v \in Uuids, v # u
      PROVE  /\ Silent(v) => Silent(v)'
             /\ Subscribing(v) => Subscribing(v)'
             /\ Waiting(v) /\ pending'[v] = pending[v] => Waiting(v)'
  <2>1. CASE link' = link
    BY <1>1, <2>1 DEF Silent, Subscribing, Waiting, Unasked, Quiet, SubscribedFirst, Given, Packet
  <2>2. CASE link' = Sent("unsub", u) BY <1>1, <1>2, <2>2, OtherPacket
  <2> QED BY <1>1, <2>1, <2>2
<1>3. Fresh' BY <1>1, <1>2 DEF Listening, Fresh
<1>4. ASSUME NEW d \in Callers, NEW v \in Uuids, Holds(d, v)' PROVE Heard(d, v)'
  <2>1. CASE d = c
    <3>1. connected BY <1>0 DEF Listening, Hearing, Heard
    <3>2. steady[c] => net BY <1>0 DEF Listening, Hearing, Heard
    <3> QED BY <1>1, <2>1, <3>1, <3>2 DEF Heard
  <2>2. CASE d # c
    <3>1. at'[d] = at[d] /\ Holds(d, v) BY <1>1, <1>4, <2>2 DEF Holds, Uuid
    <3>2. v # u BY <1>0, <2>2, <3>1, UuidsDiffer DEF Holds
    <3>3. at[d] = "wait" => pending'[v] = pending[v]
      BY <1>1, <3>1, <3>2 DEF Holds, IInv, Asking
    <3>4. Heard(d, v) BY <3>1 DEF Listening, Hearing
    <3> QED BY <1>1, <1>2, <3>1, <3>2, <3>3, <3>4, StillHeard
  <2> QED BY <2>1, <2>2
<1> QED BY <1>3, <1>4 DEF Listening, Hearing

\* stop() finds no call; an answer that is dispatched is in its slot.
LEMMA ReceiveListening ==
    ASSUME IInv, Listening, Stop \/ \E m \in inbox : Dispatch(m)
    PROVE  Listening'
<1> USE DEF callerVars, robotVars
<1>1. UNCHANGED <<at, calls, call, net, link, robotVars, steady>> BY DEF Stop, Dispatch
<1>2. Fresh' BY <1>1 DEF Listening, Fresh, Silent, Unasked, Quiet
<1>3. CASE Stop
  <2>1. \A c \in Callers : at'[c] = "idle" BY <1>3 DEF Stop
  <2> QED BY <1>2, <2>1 DEF Listening, Hearing, Holds
<1>4. ASSUME NEW m \in inbox, Dispatch(m) PROVE Listening'
  <2>1. connected' = connected /\ subs' = subs BY <1>4 DEF Dispatch
  <2>2. m.code \in Codes /\ "empty" \notin Codes BY <1>4 DEF IInv, TypeOK, Answers, Codes
  <2>3. \A u \in DOMAIN pending : Given(u) => Given(u)' BY <1>4, <2>2 DEF Dispatch, Given
  <2>4. ASSUME NEW c \in Callers, NEW u \in Uuids, Holds(c, u)' PROVE Heard(c, u)'
    <3>1. Holds(c, u) BY <1>1, <2>4 DEF Holds, Uuid
    <3>2. at[c] = "wait" => u \in DOMAIN pending BY <3>1 DEF Holds, IInv, Asking
    <3>3. Heard(c, u) BY <3>1 DEF Listening, Hearing
    <3>4. Silent(u) => Silent(u)' BY <1>1 DEF Silent, Unasked, Quiet
    <3>5. Subscribing(u) => Subscribing(u)'
      BY <1>1, <2>1 DEF Subscribing, Unasked, SubscribedFirst, Packet
    <3>6. Waiting(u) /\ at[c] = "wait" => Waiting(u)'
      BY <1>1, <2>1, <2>3, <3>2 DEF Waiting, Unasked, SubscribedFirst, Packet
    <3> QED BY <1>1, <2>1, <3>3, <3>4, <3>5, <3>6, StillHeard
  <2> QED BY <1>2, <2>4 DEF Listening, Hearing
<1> QED BY <1>3, <1>4

\* The broker takes the packets in their order.
LEMMA BrokerListening ==
    ASSUME IInv, Listening, Broker
    PROVE  Listening'
<1> DEFINE p == Head(link)
<1> USE DEF callerVars
<1>1. /\ UNCHANGED <<connected, callerVars, net, inbox, executed, answered, steady>>
      /\ subs' = CASE p.kind = "sub" /\ connected -> subs \cup {p.uuid}
                   [] p.kind = "unsub" -> subs \ {p.uuid}
                   [] OTHER -> subs
      /\ requests' = IF p.kind = "pub" THEN requests \cup {p.uuid} ELSE requests
  BY DEF Broker
<1>2. /\ Len(link) \in Nat \ {0} /\ p = link[1] /\ p \in Packets /\ 1 \in 1..Len(link)
      /\ Len(link') = Len(link) - 1
      /\ \A i \in 1..Len(link') : i + 1 \in 1..Len(link) /\ link'[i] = link[i + 1]
  <2>1. link \in Seq(Packets) /\ link # <<>> /\ link' = Tail(link) BY DEF Broker, IInv, TypeOK
  <2>2. Len(link) \in Nat \ {0} /\ link[1] \in Packets BY <2>1
  <2>3. Len(link') = Len(link) - 1 /\ \A i \in 1..Len(link') : link'[i] = link[i + 1] BY <2>1, <2>2
  <2> QED BY <2>1, <2>2, <2>3
<1>3. \A u \in Uuids, k \in {"sub", "pub", "unsub"} : p.uuid = u /\ p.kind = k => p = Packet(k, u)
  BY <1>2 DEF Packets, Packet
<1>4. ASSUME NEW u \in Uuids, Silent(u) PROVE Silent(u)'
  <2>1. p.uuid # u /\ Quiet(u)' BY <1>2, <1>4 DEF Silent, Quiet
  <2> QED BY <1>1, <1>4, <2>1 DEF Silent, Unasked
<1>5. Fresh' BY <1>1, <1>4 DEF Listening, Fresh
<1>6. ASSUME NEW u \in Uuids, connected, SubscribedFirst(u), p # Packet("unsub", u)
      PROVE  SubscribedFirst(u)'
  <2>1. CASE u \in subs
    <3>1. ~(p.kind = "unsub" /\ p.uuid = u) BY <1>3, <1>6
    <3>2. u \in subs' BY <1>1, <2>1, <3>1
    <3> QED BY <3>2 DEF SubscribedFirst
  <2>2. CASE u \notin subs
    <3>1. PICK i \in 1..Len(link) : /\ link[i] = Packet("sub", u)
                                   /\ \A j \in 1..Len(link) : link[j] = Packet("pub", u) => i < j
      BY <1>6, <2>2 DEF SubscribedFirst
    <3>2. CASE i = 1
      <4>1. p.kind = "sub" /\ p.uuid = u BY <1>2, <3>1, <3>2 DEF Packet
      <4>2. u \in subs' BY <1>1, <1>6, <4>1
      <4> QED BY <4>2 DEF SubscribedFirst
    <3>3. CASE i # 1
      <4>1. ~(p.kind = "pub" /\ p.uuid = u)
        <5>1. p # Packet("pub", u) BY <1>2, <3>1, <3>3
        <5> QED BY <1>3, <5>1
      <4>2. Unasked(u)' BY <1>1, <1>6, <2>2, <4>1 DEF SubscribedFirst, Unasked
      <4>3. i - 1 \in 1..Len(link') /\ link'[i - 1] = Packet("sub", u) BY <1>2, <3>1, <3>3
      <4>4. \A j \in 1..Len(link') : link'[j] = Packet("pub", u) => i - 1 < j
        <5> TAKE j \in 1..Len(link')
        <5> HAVE link'[j] = Packet("pub", u)
        <5>1. j + 1 \in 1..Len(link) /\ link[j + 1] = Packet("pub", u) BY <1>2
        <5> QED BY <3>1, <5>1
      <4> QED BY <4>2, <4>3, <4>4 DEF SubscribedFirst, Packet
    <3> QED BY <3>2, <3>3
  <2> QED BY <2>1, <2>2
<1>7. ASSUME NEW u \in Uuids, connected, Subscribing(u) PROVE Subscribing(u)'
  <2>1. p.uuid = u => p.kind = "sub" BY <1>2, <1>7 DEF Subscribing
  <2>2. p # Packet("unsub", u) BY <2>1 DEF Packet
  <2>3. SubscribedFirst(u)' BY <1>6, <1>7, <2>2 DEF Subscribing
  <2>4. Unasked(u)' BY <1>1, <1>7, <2>1 DEF Subscribing, Unasked
  <2>5. \A i \in 1..Len(link') : link'[i].uuid = u => link'[i].kind = "sub"
    BY <1>2, <1>7 DEF Subscribing
  <2> QED BY <2>4, <2>5, <2>3 DEF Subscribing
<1>8. ASSUME NEW u \in Uuids, connected, Waiting(u) PROVE Waiting(u)'
  <2>1. SubscribedFirst(u)' BY <1>2, <1>6, <1>8 DEF Waiting
  <2>2. \A i \in 1..Len(link') : link'[i] # Packet("unsub", u) BY <1>2, <1>8 DEF Waiting
  <2> QED BY <1>1, <1>8, <2>1, <2>2 DEF Waiting, Given, Packet
<1>9. ASSUME NEW c \in Callers, NEW u \in Uuids, Holds(c, u)' PROVE Heard(c, u)'
  <2>1. Holds(c, u) /\ at'[c] = at[c] BY <1>1, <1>9 DEF Holds, Uuid
  <2>2. Heard(c, u) BY <2>1 DEF Listening, Hearing
  <2>3. connected BY <2>2 DEF Heard
  <2> QED BY <1>1, <1>4, <1>7, <1>8, <2>1, <2>2, <2>3, StillHeard
<1> QED BY <1>5, <1>9 DEF Listening, Hearing

\* The robot answers only what it was asked, to a topic that is subscribed.
LEMMA RobotListening ==
    ASSUME IInv, Listening, NEW v \in requests, Robot(v)
    PROVE  Listening'
<1> USE DEF callerVars
<1>1. /\ UNCHANGED <<connected, callerVars, net, link, subs, steady>>
      /\ requests' \subseteq requests
      /\ answered' = answered \/ answered' = answered \cup {v}
      /\ inbox \subseteq inbox'
  BY DEF Robot
<1>2. v \in subs /\ answered' # answered => \E m \in inbox' : m.uuid = v
  <2> SUFFICES ASSUME v \in subs, answered' # answered PROVE \E m \in inbox' : m.uuid = v
    OBVIOUS
  <2>1. [uuid |-> v, code |-> "ok"] \in inbox' \/ [uuid |-> v, code |-> "bad"] \in inbox'
    BY DEF Robot, Publication
  <2> QED BY <2>1
<1>3. \A u \in Uuids : Unasked(u) => Unasked(u)' BY <1>1 DEF Unasked
<1>4. \A u \in Uuids : Silent(u) => Silent(u)' BY <1>1, <1>3 DEF Silent, Quiet
<1>5. Fresh' BY <1>1, <1>4 DEF Listening, Fresh
<1>6. \A u \in Uuids : SubscribedFirst(u) => SubscribedFirst(u)'
  BY <1>1, <1>3 DEF SubscribedFirst, Packet
<1>7. \A u \in Uuids : Subscribing(u) => Subscribing(u)' BY <1>1, <1>3, <1>6 DEF Subscribing
<1>8. ASSUME NEW u \in Uuids, Waiting(u) PROVE Waiting(u)'
  <2>1. u \in answered' => Given(u)'
    <3>1. CASE u \in answered BY <1>1, <1>8, <3>1 DEF Waiting, Given
    <3>2. CASE u \notin answered /\ u \in answered'
      <4>1. u = v /\ answered' # answered BY <1>1, <3>2
      <4>2. u \in subs BY <4>1, <1>8 DEF Waiting, SubscribedFirst, Unasked
      <4> QED BY <1>2, <4>1, <4>2 DEF Given
    <3> QED BY <3>1, <3>2
  <2> QED BY <1>1, <1>6, <1>8, <2>1 DEF Waiting, Packet
<1>9. ASSUME NEW c \in Callers, NEW u \in Uuids, Holds(c, u)' PROVE Heard(c, u)'
  <2>1. Holds(c, u) /\ at'[c] = at[c] BY <1>1, <1>9 DEF Holds, Uuid
  <2>2. Heard(c, u) BY <2>1 DEF Listening, Hearing
  <2> QED BY <1>1, <1>4, <1>7, <1>8, <2>1, <2>2, StillHeard
<1> QED BY <1>5, <1>9 DEF Listening, Hearing

\* A link that dropped promises nothing to the calls under way.
LEMMA NetListening ==
    ASSUME IInv, Listening, NetDown \/ NetUp
    PROVE  Listening'
<1> USE DEF callerVars, robotVars
<1>1. UNCHANGED <<connected, callerVars, robotVars>> BY DEF NetDown, NetUp
<1>2. CASE NetDown
  <2>1. link' = <<>> /\ \A c \in Callers : ~steady'[c] BY <1>2, Zenon DEF NetDown
  <2>2. Fresh' BY <1>1, <2>1 DEF Listening, Fresh, Silent, Unasked, Quiet
  <2>3. \A c \in Callers, u \in Uuids : Holds(c, u)' => Holds(c, u) BY <1>1 DEF Holds, Uuid
  <2>4. Hearing' BY <1>1, <2>1, <2>3 DEF Listening, Hearing, Heard
  <2> QED BY <2>2, <2>4 DEF Listening
<1>3. CASE NetUp
  <2>1. net' BY <1>3, Zenon DEF NetUp
  <2>2. UNCHANGED <<link, subs, inbox, steady>> BY <1>3 DEF NetUp
  <2>3. \A u \in Uuids : Silent(u) => Silent(u)' BY <1>1, <2>2 DEF Silent, Unasked, Quiet
  <2>4. \A u \in Uuids : (Subscribing(u) => Subscribing(u)') /\ (Waiting(u) => Waiting(u)')
    BY <1>1, <2>2 DEF Subscribing, Waiting, Unasked, SubscribedFirst, Given, Packet
  <2>5. Fresh' BY <1>1, <2>3 DEF Listening, Fresh
  <2>6. ASSUME NEW c \in Callers, NEW u \in Uuids, Holds(c, u)' PROVE Heard(c, u)'
    <3>1. Heard(c, u) BY <1>1, <2>6 DEF Holds, Uuid, Listening, Hearing
    <3> QED BY <1>1, <2>1, <2>2, <2>3, <2>4, <3>1, StillHeard
  <2> QED BY <2>5, <2>6 DEF Listening, Hearing
<1> QED BY <1>2, <1>3

LEMMA ListeningInvariant == Spec => []Listening
<1>1. Init => Listening
  BY DEF Init, Listening, Fresh, Hearing, Holds, Silent, Unasked, Quiet
<1>2. IInv /\ Listening /\ [Next]_vars => Listening'
  <2> SUFFICES ASSUME IInv, Listening, [Next]_vars PROVE Listening' OBVIOUS
  <2>1. CASE UNCHANGED vars
    BY <2>1 DEF vars, callerVars, brokerVars, robotVars, Listening, Fresh, Hearing, Heard, Holds,
       Silent, Subscribing, Waiting, Unasked, Quiet, SubscribedFirst, Given, Packet, Uuid
  <2> QED BY <2>1, BeginListening, SendListening, EndListening, ReceiveListening, BrokerListening,
             RobotListening, NetListening DEF Next, Inside
<1> QED BY <1>1, <1>2, Invariance, PTL DEF Spec

\* request() subscribes before it publishes: while it waits and the link has not
\* dropped, an answer that was given is in its slot or on its way (AnswerNotMissed).
THEOREM NoAnswerMissed == Spec => []AnswerNotMissed
<1>1. IInv /\ Listening => AnswerNotMissed
  <2> SUFFICES ASSUME IInv, Listening, NEW c \in Callers, at[c] = "wait", steady[c],
                      Uuid(c) \in answered
               PROVE  pending[Uuid(c)] # "empty" \/ \E m \in inbox : m.uuid = Uuid(c)
    BY DEF AnswerNotMissed
  <2>1. PICK u \in Uuids : u = Uuid(c) BY CallsOf DEF IInv
  <2>2. Heard(c, u) BY <2>1 DEF Holds, Listening, Hearing
  <2> QED BY <2>1, <2>2 DEF Heard, Waiting, Given
<1> QED BY <1>1, ListeningInvariant, Invariance, PTL
=============================================================================
