---------------------------- MODULE TunnelProofs ----------------------------
(***************************************************************************)
(* What Tunnel promises for any intervals and any number of connections.   *)
(***************************************************************************)
EXTENDS Tunnel, FiniteSetTheorems, TLAPS

Wire == [frames : BOOLEAN, end : BOOLEAN]
Channel == [conn : Conn, heard : Nat]

TypeOK ==
  /\ udp \in [link : Conn \cup {None}, status : {"wait", "up", "none", "crashed"},
              heard : Nat, sent : Nat, tried : Nat]
  /\ udp.status \in {"wait", "up"} <=> udp.link \in Conn
  /\ chans \in Seq(Channel) /\ backlog \in Seq(Conn)
  /\ held \in BOOLEAN /\ net \in BOOLEAN
  /\ toTcp \in [Conn -> Wire] /\ toUdp \in [Conn -> Wire]
  /\ stale \in [udp : {0, 1}, tcp : Nat]
  /\ trouble \in Nat /\ calm \in Nat

\* What UdpIdle starts from: the link after the events of the batch.
LinkOK(u) ==
  /\ u \in [link : Conn \cup {None}, status : {"wait", "up", "none"},
            heard : Nat, sent : Nat, tried : Nat]
  /\ u.status \in {"wait", "up"} <=> u.link \in Conn

\* Something put on a wire, an end or nothing leaves it a wire.
LEMMA WireTypes ==
  ASSUME NEW w \in [Conn -> Wire], NEW c \in Conn
  PROVE  /\ Put(w, c) \in [Conn -> Wire] /\ End(w, c) \in [Conn -> Wire]
         /\ Clear(w, c) \in [Conn -> Wire]
         /\ [w EXCEPT ![c].frames = FALSE] \in [Conn -> Wire]
  BY DEF Put, End, Clear, Empty, Wire

\* An age that grows is a number.
LEMMA OlderType ==
  ASSUME NEW age \in Nat, NEW now \in Nat, NEW limit \in Nat
  PROVE  Older(age, now, limit) \in Nat
  BY DEF Older

\* service_idle_cb leaves a link that is well typed.
LEMMA UdpIdleType ==
  ASSUME TypeOK, NEW u, LinkOK(u), NEW w \in [Conn -> Wire], UdpIdle(u, w)
  PROVE  /\ udp' \in [link : Conn \cup {None}, status : {"wait", "up", "none", "crashed"},
                      heard : Nat, sent : Nat, tried : Nat]
         /\ udp'.status \in {"wait", "up"} <=> udp'.link \in Conn
         /\ toTcp' \in [Conn -> Wire]
<1> USE TunnelAssumption
<1> DEFINE d == CHOOSE c \in Conn : Unused(c)
<1>1. (\E c \in Conn : Unused(c)) => d \in Conn
  OBVIOUS
<1> HIDE DEF d
<1>2. stale.udp \in Nat
  BY DEF TypeOK
<1>3. u.link \in Conn => Put(w, u.link) \in [Conn -> Wire] /\ End(w, u.link) \in [Conn -> Wire]
  BY WireTypes
<1>4. CASE u.status = "none"
  <2>1. toTcp' = w
    BY <1>4 DEF UdpIdle
  <2>2. CASE udp' = u
    BY <2>1, <2>2 DEF LinkOK
  <2>3. CASE /\ \E c \in Conn : Unused(c)
             /\ udp' = [u EXCEPT !.link = d, !.status = "wait",
                                 !.heard = stale.udp, !.tried = stale.udp]
    BY <1>1, <1>2, <2>1, <2>3 DEF LinkOK
  <2> QED BY <1>4, <2>2, <2>3 DEF UdpIdle, d
<1>5. CASE u.status # "none"
  <2>1. u.link \in Conn
    BY <1>5 DEF LinkOK
  <2>2. CASE udp' = [NoLink(u) EXCEPT !.status = "crashed", !.sent = 0, !.tried = 0] /\ toTcp' = w
    BY <2>2 DEF LinkOK, NoLink
  <2>3. CASE udp' = [u EXCEPT !.sent = stale.udp] /\ toTcp' = Put(w, u.link)
    BY <1>2, <1>3, <2>1, <2>3 DEF LinkOK
  <2>4. CASE udp' = NoLink(u) /\ toTcp' \in {w, End(w, u.link)}
    BY <1>3, <2>1, <2>4 DEF LinkOK, NoLink
  <2>5. CASE udp' = u /\ toTcp' = w
    BY <2>5 DEF LinkOK
  <2> QED BY <1>5, <2>2, <2>3, <2>4, <2>5 DEF UdpIdle
<1> QED BY <1>4, <1>5

\* Without one of its channels the table is a table.
LEMMA WithoutType ==
  ASSUME TypeOK, NEW i \in DOMAIN chans
  PROVE  Without(i) \in Seq(Channel)
  BY DEF Without, TypeOK

\* A function on the first numbers is a sequence.
LEMMA ASequence ==
  ASSUME NEW S, NEW n \in Nat, NEW f \in [1..n -> S]
  PROVE  f \in Seq(S)
  OBVIOUS

\* Init leaves every variable well typed.
LEMMA TypeInit == Init => TypeOK
<1> SUFFICES ASSUME Init PROVE TypeOK
  OBVIOUS
<1> DEFINE d == CHOOSE c \in Conn : TRUE
<1>1. d \in Conn
  BY TunnelAssumption
<1>2. udp = [link |-> d, status |-> "wait", heard |-> 0, sent |-> KeepaliveInterval + 1, tried |-> 0]
  BY DEF Init
<1> HIDE DEF d
<1>3. /\ udp \in [link : Conn \cup {None}, status : {"wait", "up", "none", "crashed"},
                 heard : Nat, sent : Nat, tried : Nat]
      /\ udp.status \in {"wait", "up"} <=> udp.link \in Conn
  BY <1>1, <1>2, TunnelAssumption
<1>4. toTcp \in [Conn -> Wire] /\ toUdp \in [Conn -> Wire]
  BY DEF Init, Empty, Wire
<1>5. /\ chans \in Seq(Channel) /\ backlog \in Seq(Conn)
      /\ held \in BOOLEAN /\ net \in BOOLEAN
      /\ stale \in [udp : {0, 1}, tcp : Nat]
      /\ trouble \in Nat /\ calm \in Nat
  <2>1. chans = <<>> /\ backlog = <<>> /\ held = FALSE /\ net = TRUE
    BY DEF Init
  <2>2. stale = [udp |-> 0, tcp |-> 0] /\ trouble = 0 /\ calm = 0
    BY DEF Init
  <2>3. chans \in Seq(Channel) /\ backlog \in Seq(Conn)
    BY <2>1
  <2>4. held \in BOOLEAN /\ net \in BOOLEAN
    BY <2>1
  <2>5. stale \in [udp : {0, 1}, tcp : Nat] /\ trouble \in Nat /\ calm \in Nat
    BY <2>2
  <2> QED BY <2>3, <2>4, <2>5
<1> QED BY <1>3, <1>4, <1>5 DEF TypeOK

\* A pass of the UDP side leaves every variable well typed.
LEMMA TypeUdpPass == TypeOK /\ UdpPass => TypeOK'
<1> SUFFICES ASSUME TypeOK, UdpPass PROVE TypeOK'
  OBVIOUS
<1> USE TunnelAssumption
<1> DEFINE U == [link : Conn \cup {None}, status : {"wait", "up", "none", "crashed"},
                 heard : Nat, sent : Nat, tried : Nat]
<1>1. udp \in U /\ (udp.status \in {"wait", "up"} <=> udp.link \in Conn)
  BY DEF TypeOK
<1>2. LinkOK(udp) /\ LinkOK(NoLink(udp)) /\ (udp.status = "wait" => LinkOK(Connected(udp)))
  BY <1>1 DEF UdpPass, LinkOK, NoLink, Connected
<1>3. udp.status = "up" => LinkOK(Heard(udp)) /\ Clear(toUdp, udp.link) \in [Conn -> Wire]
  <2>1. stale.udp \in Nat /\ toUdp \in [Conn -> Wire]
    BY DEF TypeOK
  <2>2. udp.status = "up" => Clear(toUdp, udp.link) \in [Conn -> Wire]
    BY <1>1, <2>1, WireTypes
  <2>3. LinkOK(udp) => LinkOK([udp EXCEPT !.heard = stale.udp])
    BY <2>1 DEF LinkOK
  <2>4. udp.status = "up" => LinkOK(Heard(udp))
    <3>1. \A u : LinkOK(u) => LinkOK(NoLink(u))
      BY TunnelAssumption DEF LinkOK, NoLink
    <3> QED BY <1>1, <1>2, <2>3, <3>1 DEF Heard
  <2> QED BY <2>2, <2>4
<1>4. \E u : LinkOK(u) /\ UdpIdle(u, toTcp)
  BY <1>2, <1>3 DEF UdpPass
<1>5. /\ udp' \in U /\ (udp'.status \in {"wait", "up"} <=> udp'.link \in Conn)
      /\ toTcp' \in [Conn -> Wire]
  <2>1. toTcp \in [Conn -> Wire]
    BY DEF TypeOK
  <2> QED BY <1>4, <2>1, UdpIdleType
<1>6. backlog' \in Seq(Conn) /\ toUdp' \in [Conn -> Wire]
  <2>1. udp.status = "wait" => Append(backlog, udp.link) \in Seq(Conn)
    BY <1>1 DEF TypeOK
  <2>2. backlog' \in {backlog, Append(backlog, udp.link)} /\ toUdp' \in {toUdp, Clear(toUdp, udp.link)}
        /\ (backlog' = backlog \/ udp.status = "wait") /\ (toUdp' = toUdp \/ udp.status = "up")
    BY DEF UdpPass
  <2> QED BY <1>3, <2>1, <2>2 DEF TypeOK
<1>7. stale' \in [udp : {0, 1}, tcp : Nat]
  BY DEF UdpPass, TypeOK
<1>8. UNCHANGED <<chans, held, net, trouble, calm>>
  BY DEF UdpPass
<1> QED BY <1>5, <1>6, <1>7, <1>8 DEF TypeOK

\* An event of the TCP side leaves every variable well typed.
LEMMA TypeTcp ==
  ASSUME TypeOK, \/ TcpAccepts \/ TcpIdle
                 \/ \E c \in Conn : TcpHears(c) \/ TcpForwards(c) \/ TcpEnds(c)
  PROVE  TypeOK'
<1>1. ASSUME TcpAccepts PROVE TypeOK'
  <2>1. stale.tcp \in Nat /\ Head(backlog) \in Conn /\ Tail(backlog) \in Seq(Conn)
    BY <1>1 DEF TcpAccepts, TypeOK
  <2>2. Stored(Head(backlog)) \in Seq(Channel)
    BY <2>1 DEF Stored, TypeOK, Channel
  <2> QED BY <1>1, <2>1, <2>2 DEF TcpAccepts, TypeOK
<1>2. ASSUME TcpIdle PROVE TypeOK'
  <2>1. stale' \in [udp : {0, 1}, tcp : Nat]
    BY <1>2 DEF TcpIdle, TypeOK
  <2>2. chans # <<>> => /\ Len(chans) \in DOMAIN chans /\ TailChannel.conn \in Conn
                        /\ Without(Len(chans)) \in Seq(Channel)
    <3>1. chans # <<>> => Len(chans) \in DOMAIN chans
      BY DEF TypeOK
    <3>2. chans # <<>> => Without(Len(chans)) \in Seq(Channel)
      BY <3>1, WithoutType
    <3>3. chans # <<>> => chans[Len(chans)] \in Channel
      BY <3>1 DEF TypeOK
    <3> QED BY <3>1, <3>2, <3>3 DEF TailChannel, Channel
  <2>3. chans' \in Seq(Channel) /\ toUdp' \in [Conn -> Wire]
    <3>1. CASE UNCHANGED <<chans, toUdp>>
      BY <3>1 DEF TypeOK
    <3>2. CASE chans # <<>> /\ chans' = Without(Len(chans)) /\ toUdp' = End(toUdp, TailChannel.conn)
      BY <2>2, <3>2, WireTypes DEF TypeOK
    <3> QED BY <1>2, <3>1, <3>2 DEF TcpIdle
  <2> QED BY <1>2, <2>1, <2>3 DEF TcpIdle, TypeOK
<1>3. ASSUME NEW c \in Conn, TcpHears(c) PROVE TypeOK'
  <2>1. Stamped(c) \in Seq(Channel)
    <3>1. stale.tcp \in Nat /\ \A i \in DOMAIN chans : chans[i] \in Channel
      BY DEF TypeOK
    <3>2. Len(chans) \in Nat /\ DOMAIN chans = 1..Len(chans)
      BY DEF TypeOK
    <3>3. \A i \in DOMAIN chans : [chans[i] EXCEPT !.heard = stale.tcp] \in Channel
      BY <3>1 DEF Channel
    <3>4. Stamped(c) \in [1..Len(chans) -> Channel]
      BY <3>1, <3>2, <3>3 DEF Stamped
    <3> QED BY <3>2, <3>4, ASequence
  <2>2. toTcp' \in [Conn -> Wire] /\ toUdp' \in [Conn -> Wire]
    BY <1>3, WireTypes DEF TcpHears, TypeOK
  <2> QED BY <1>3, <2>1, <2>2 DEF TcpHears, TypeOK
<1>4. ASSUME NEW c \in Conn, TcpForwards(c) PROVE TypeOK'
  BY <1>4, WireTypes DEF TcpForwards, TypeOK
<1>5. ASSUME NEW c \in Conn, TcpEnds(c) PROVE TypeOK'
  <2>1. chans' \in Seq(Channel)
    BY <1>5, WithoutType DEF TcpEnds
  <2>2. toTcp' \in [Conn -> Wire] /\ toUdp' \in [Conn -> Wire]
    BY <1>5, WireTypes DEF TcpEnds, TypeOK
  <2> QED BY <1>5, <2>1, <2>2 DEF TcpEnds, TypeOK
<1> QED BY <1>1, <1>2, <1>3, <1>4, <1>5

\* What the kernels, the network and the clock do leaves every variable well
\* typed.
LEMMA TypeWorld ==
  ASSUME TypeOK, \/ Trouble \/ Tick
                 \/ \E c \in Conn : ResetByUdpHost(c) \/ ResetByTcpHost(c) \/ Forget(c)
  PROVE  TypeOK'
<1> USE TunnelAssumption
<1>1. ASSUME Trouble PROVE TypeOK'
  BY <1>1 DEF Trouble, TypeOK
<1>2. ASSUME Tick PROVE TypeOK'
  <2>1. stale' \in [udp : {0, 1}, tcp : Nat]
    BY <1>2 DEF Tick, TypeOK
  <2>2. trouble' \in Nat /\ calm' \in Nat
    BY <1>2 DEF Tick, TypeOK
  <2>3. chans' \in Seq(Channel)
    <3>1. stale.tcp + 1 \in Nat
      BY DEF TypeOK
    <3>2. \A i \in DOMAIN chans : chans[i] \in Channel
      BY DEF TypeOK
    <3>3. \A i \in DOMAIN chans : Older(chans[i].heard, stale.tcp + 1, KeepaliveTimeout) \in Nat
      BY <3>1, <3>2, OlderType DEF Channel
    <3>4. Len(chans) \in Nat /\ DOMAIN chans = 1..Len(chans)
      BY DEF TypeOK
    <3>5. \A i \in DOMAIN chans :
            [chans[i] EXCEPT !.heard = Older(@, stale.tcp + 1, KeepaliveTimeout)] \in Channel
      BY <3>2, <3>3 DEF Channel
    <3>6. chans' = chans \/ chans' \in [1..Len(chans) -> Channel]
      BY <1>2, <3>4, <3>5 DEF Tick
    <3> QED BY <3>4, <3>6, ASequence DEF TypeOK
  <2>4. /\ udp' \in [link : Conn \cup {None}, status : {"wait", "up", "none", "crashed"},
                     heard : Nat, sent : Nat, tried : Nat]
        /\ udp'.status \in {"wait", "up"} <=> udp'.link \in Conn
    <3>1. /\ Older(udp.heard, 1, KeepaliveTimeout) \in Nat
          /\ Older(udp.sent, 1, KeepaliveInterval) \in Nat
          /\ Older(udp.tried, 1, ReconnectInterval) \in Nat
      BY OlderType DEF TypeOK
    <3> QED BY <1>2, <3>1 DEF Tick, TypeOK
  <2> QED BY <1>2, <2>1, <2>3, <2>4, <2>2 DEF Tick, TypeOK
<1>3. ASSUME NEW c \in Conn, ResetByUdpHost(c) PROVE TypeOK'
  <2>1. toTcp' \in [Conn -> Wire] /\ toUdp' \in [Conn -> Wire]
    BY <1>3, WireTypes DEF ResetByUdpHost, TypeOK
  <2> QED BY <1>3, <2>1 DEF ResetByUdpHost, TypeOK
<1>4. ASSUME NEW c \in Conn, ResetByTcpHost(c) PROVE TypeOK'
  <2>1. toTcp' \in [Conn -> Wire] /\ toUdp' \in [Conn -> Wire]
    BY <1>4, WireTypes DEF ResetByTcpHost, TypeOK
  <2> QED BY <1>4, <2>1 DEF ResetByTcpHost, TypeOK
<1>5. ASSUME NEW c \in Conn, Forget(c) PROVE TypeOK'
  <2>1. toTcp' \in {toTcp, Clear(toTcp, c)} /\ toUdp' \in {toUdp, Clear(toUdp, c)}
    BY <1>5 DEF Forget
  <2>2. toTcp' \in [Conn -> Wire] /\ toUdp' \in [Conn -> Wire]
    <3>1. toTcp \in [Conn -> Wire] /\ toUdp \in [Conn -> Wire]
      BY DEF TypeOK
    <3>2. Clear(toTcp, c) \in [Conn -> Wire] /\ Clear(toUdp, c) \in [Conn -> Wire]
      BY <3>1, WireTypes
    <3> QED BY <2>1, <3>1, <3>2
  <2> QED BY <1>5, <2>2 DEF Forget, TypeOK
<1> QED BY <1>1, <1>2, <1>3, <1>4, <1>5

\* Every variable of the tunnel stays well typed.
THEOREM TypeCorrect == Spec => []TypeOK
<1>1. TypeOK /\ UNCHANGED vars => TypeOK'
  BY DEF TypeOK, vars
<1>2. TypeOK /\ Next => TypeOK'
  BY TypeUdpPass, TypeTcp, TypeWorld DEF Next
<1> QED BY <1>1, <1>2, TypeInit, PTL DEF Spec

-----------------------------------------------------------------------------
(***************************************************************************)
(* As long as the trouble is short.  Either no connection has come up yet, *)
(* or there is one and it stays: its two ages are bounded by the time of   *)
(* the last keepalive and by the trouble since.  A frame under way is a    *)
(* promise that the age it will reset may be left out of account.          *)
(***************************************************************************)
Idle(c) == toTcp[c] = Empty /\ toUdp[c] = Empty

NotYetUp ==
  /\ udp.status \in {"wait", "none", "crashed"}
  /\ chans = <<>> /\ backlog = <<>>
  /\ \A c \in Conn : Idle(c)
  /\ udp.status # "crashed" => udp.sent > KeepaliveInterval + stale.udp
  /\ udp.status = "wait" => udp.heard <= 1 + stale.udp

OneConnection ==
  /\ udp.status = "up"
  /\ \/ chans = <<>> /\ backlog = <<udp.link>>
     \/ backlog = <<>> /\ Len(chans) = 1 /\ chans[1].conn = udp.link
  /\ \A c \in Conn \ {udp.link} : Idle(c)
  /\ ~toTcp[udp.link].end /\ ~toUdp[udp.link].end

\* The UDP side hears the echo of its keepalive.
UdpAges ==
  /\ stale.udp <= udp.sent /\ udp.sent <= KeepaliveInterval + 1 + stale.udp
  /\ toTcp[udp.link].frames \/ toUdp[udp.link].frames \/ udp.heard <= udp.sent
  /\ udp.heard <= KeepaliveInterval + 2 + trouble

\* The TCP side stamps what it hears with a time as old as it was held up.
TcpAges ==
  \A i \in DOMAIN chans :
    /\ toTcp[udp.link].frames \/ chans[i].heard <= udp.sent + trouble + 1
    /\ chans[i].heard <= KeepaliveInterval + 3 + trouble

InTime == stale.tcp <= trouble + 1 /\ (NotYetUp \/ (OneConnection /\ UdpAges /\ TcpAges))

QuietInv == trouble < Tolerance => InTime

\* What EnduresTrouble asks of a step.
Endures ==
  /\ udp.status = "up" => udp'.status = "up"
  /\ Len(chans') >= Len(chans)

\* At first there is no connection.
LEMMA QuietInit == Init => QuietInv
<1> SUFFICES ASSUME Init PROVE InTime
  BY DEF QuietInv
<1>1. /\ udp.status = "wait" /\ udp.heard = 0 /\ udp.sent = KeepaliveInterval + 1
      /\ chans = <<>> /\ backlog = <<>>
  BY DEF Init
<1>2. stale.udp = 0 /\ stale.tcp = 0 /\ trouble = 0
  BY DEF Init
<1>3. \A c \in Conn : Idle(c)
  BY DEF Init, Idle
<1> QED BY <1>1, <1>2, <1>3, TunnelAssumption DEF InTime, NotYetUp

\* service_idle_cb without a link connects or waits.
LEMMA IdleWithoutLink ==
  ASSUME TypeOK, NEW u, LinkOK(u), NEW w, UdpIdle(u, w), u.status = "none"
  PROVE  /\ toTcp' = w /\ udp'.sent = u.sent /\ udp'.status \in {"none", "wait"}
         /\ udp'.status = "wait" => udp'.heard = stale.udp
<1> DEFINE d == CHOOSE c \in Conn : Unused(c)
<1>1. \/ udp' = u
      \/ udp' = [u EXCEPT !.link = d, !.status = "wait",
                          !.heard = stale.udp, !.tried = stale.udp]
  BY DEF UdpIdle
<1> HIDE DEF d
<1>2. toTcp' = w
  BY DEF UdpIdle
<1> QED BY <1>1, <1>2 DEF LinkOK

\* A pass of the UDP side that finds its link not up leaves it so, or up with
\* a keepalive under way.
LEMMA QuietFirst ==
  ASSUME TypeOK, InTime, NotYetUp, UdpPass
  PROVE  InTime' /\ Endures
<1> USE TunnelAssumption
<1>1. /\ udp.status \in {"wait", "none"} /\ udp.sent > KeepaliveInterval + stale.udp
      /\ udp.status = "wait" => udp.heard <= 1 + stale.udp /\ udp.link \in Conn
      /\ chans = <<>> /\ backlog = <<>> /\ \A c \in Conn : Idle(c)
      /\ stale.tcp <= trouble + 1
  BY DEF UdpPass, NotYetUp, InTime, TypeOK
<1>2. /\ chans' = <<>> /\ trouble' = trouble /\ stale'.udp = 0 /\ stale'.tcp = stale.tcp
      /\ stale.udp \in {0, 1} /\ udp.sent \in Nat /\ udp.heard \in Nat /\ trouble \in Nat
      /\ stale.tcp \in Nat
  BY <1>1 DEF UdpPass, TypeOK
<1>3. Endures
  BY <1>1, <1>2 DEF Endures
<1>4. LinkOK(udp) /\ LinkOK(NoLink(udp)) /\ (udp.status = "wait" => LinkOK(Connected(udp)))
  BY <1>1 DEF TypeOK, LinkOK, NoLink, Connected
<1>5. stale'.tcp <= trouble' + 1
  BY <1>1, <1>2
<1>6. ASSUME NEW u, LinkOK(u), u.status = "none", u.sent = udp.sent, UdpIdle(u, toTcp),
             UNCHANGED <<backlog, toUdp>>
      PROVE  InTime'
  <2>1. /\ toTcp' = toTcp /\ udp'.sent = udp.sent /\ udp'.status \in {"none", "wait"}
        /\ udp'.status = "wait" => udp'.heard = stale.udp
    BY <1>6, IdleWithoutLink
  <2>2. \A c \in Conn : Idle(c)'
    BY <1>1, <1>6, <2>1 DEF Idle, Empty
  <2>3. udp'.sent > KeepaliveInterval + stale'.udp
    BY <1>1, <1>2, <2>1
  <2>4. udp'.status = "wait" => udp'.heard <= 1 + stale'.udp
    BY <1>2, <2>1
  <2>5. NotYetUp'
    BY <1>1, <1>2, <1>6, <2>1, <2>2, <2>3, <2>4 DEF NotYetUp
  <2> QED BY <1>5, <2>5 DEF InTime
<1>7. ASSUME udp.status = "wait", UdpIdle(udp, toTcp), UNCHANGED <<backlog, toUdp>>
      PROVE  InTime'
  <2>1. KeepaliveDue(udp)
    BY <1>1, <1>2 DEF KeepaliveDue
  <2>2. toTcp' = toTcp /\ udp' = [NoLink(udp) EXCEPT !.status = "crashed", !.sent = 0, !.tried = 0]
    BY <1>7, <2>1 DEF UdpIdle
  <2>3. udp'.status = "crashed"
    BY <2>2 DEF NoLink, TypeOK
  <2>4. \A c \in Conn : Idle(c)'
    BY <1>1, <1>7, <2>2 DEF Idle, Empty
  <2>5. NotYetUp'
    BY <1>1, <1>2, <1>7, <2>3, <2>4 DEF NotYetUp
  <2> QED BY <1>5, <2>5 DEF InTime
<1>8. ASSUME udp.status = "wait", UdpIdle(Connected(udp), toTcp),
             backlog' = Append(backlog, udp.link), UNCHANGED toUdp
      PROVE  InTime'
  <2>1. KeepaliveDue(Connected(udp)) /\ Connected(udp).status = "up"
        /\ Connected(udp).link = udp.link /\ udp.link \in Conn
    BY <1>1, <1>2, <1>8 DEF KeepaliveDue, Connected, TypeOK
  <2>2. toTcp' = Put(toTcp, udp.link) /\ udp' = [Connected(udp) EXCEPT !.sent = stale.udp]
    BY <1>8, <2>1 DEF UdpIdle
  <2>3. /\ udp'.status = "up" /\ udp'.link = udp.link /\ udp'.sent = stale.udp
        /\ udp'.heard = udp.heard
    BY <2>2 DEF Connected, TypeOK
  <2>4. /\ \A c \in Conn \ {udp.link} : Idle(c)'
        /\ ~toTcp'[udp.link].end /\ ~toUdp'[udp.link].end /\ toTcp'[udp.link].frames
    BY <1>1, <1>8, <2>1, <2>2 DEF Idle, Empty, Put, TypeOK
  <2>5. backlog' = <<udp.link>>
    BY <1>1, <1>8
  <2>6. OneConnection'
    BY <1>2, <2>3, <2>4, <2>5 DEF OneConnection
  <2>7. UdpAges' /\ TcpAges'
    BY <1>1, <1>2, <1>8, <2>3, <2>4 DEF UdpAges, TcpAges
  <2> QED BY <1>5, <2>6, <2>7 DEF InTime
<1>9. NoLink(udp).status = "none" /\ NoLink(udp).sent = udp.sent
  BY DEF NoLink, TypeOK
<1>10. \/ UdpIdle(udp, toTcp) /\ UNCHANGED <<backlog, toUdp>>
       \/ /\ udp.status = "wait" /\ UdpIdle(Connected(udp), toTcp)
          /\ backlog' = Append(backlog, udp.link) /\ UNCHANGED toUdp
       \/ UdpIdle(NoLink(udp), toTcp) /\ UNCHANGED <<backlog, toUdp>>
  BY <1>1 DEF UdpPass
<1>11. InTime'
  BY <1>1, <1>4, <1>6, <1>7, <1>8, <1>9, <1>10
<1> QED BY <1>3, <1>11

\* A pass of the UDP side keeps a link that has heard something in time.
LEMMA QuietUp ==
  ASSUME TypeOK, InTime, OneConnection, UdpAges, TcpAges, trouble < Tolerance, UdpPass
  PROVE  InTime' /\ Endures
<1> USE TunnelAssumption
<1> DEFINE l == udp.link
<1>1. /\ udp.status = "up" /\ l \in Conn /\ toTcp \in [Conn -> Wire] /\ toUdp \in [Conn -> Wire]
      /\ udp.heard \in Nat /\ udp.sent \in Nat /\ trouble \in Nat /\ stale.udp \in {0, 1}
      /\ stale.tcp \in Nat
  BY DEF OneConnection, TypeOK
<1>2. /\ UNCHANGED <<chans, trouble, backlog>> /\ stale'.udp = 0 /\ stale'.tcp = stale.tcp
  BY <1>1 DEF UdpPass, TypeOK
<1>3. PICK u : /\ u \in {udp, Heard(udp)} /\ UdpIdle(u, toTcp)
               /\ \/ u = udp /\ toUdp' = toUdp
                  \/ u = Heard(udp) /\ toUdp' = Clear(toUdp, l)
  BY <1>1 DEF UdpPass
<1>4. ~toUdp[l].end /\ ~toTcp[l].end /\ \A c \in Conn \ {l} : Idle(c)
  BY DEF OneConnection
<1>5. /\ u \in [link : Conn \cup {None}, status : {"wait", "up", "none", "crashed"},
                heard : Nat, sent : Nat, tried : Nat]
      /\ u.status = "up" /\ u.link = l /\ u.sent = udp.sent
      /\ u.heard <= KeepaliveInterval + 2 + trouble
      /\ toTcp[l].frames \/ toUdp'[l].frames \/ u.heard <= u.sent
  <2>1. CASE u = udp /\ toUdp' = toUdp
    BY <1>1, <2>1 DEF UdpAges, TypeOK
  <2>2. CASE u = Heard(udp) /\ toUdp' = Clear(toUdp, l)
    <3>1. CASE toUdp[l].frames
      <4>1. u = [udp EXCEPT !.heard = stale.udp]
        BY <1>4, <2>2, <3>1 DEF Heard
      <4>2. u.heard = stale.udp /\ u.sent = udp.sent /\ u.status = "up" /\ u.link = l
        BY <1>1, <4>1 DEF TypeOK
      <4>3. u \in [link : Conn \cup {None}, status : {"wait", "up", "none", "crashed"},
                   heard : Nat, sent : Nat, tried : Nat]
        <5>1. stale.udp \in Nat
          BY <1>1
        <5>2. udp \in [link : Conn \cup {None}, status : {"wait", "up", "none", "crashed"},
                       heard : Nat, sent : Nat, tried : Nat]
          BY DEF TypeOK
        <5> QED BY ONLY <4>1, <5>1, <5>2
      <4>4. stale.udp <= udp.sent /\ stale.udp <= KeepaliveInterval + 2 + trouble
        BY <1>1 DEF UdpAges
      <4> QED BY <4>2, <4>3, <4>4
    <3>2. CASE ~toUdp[l].frames
      <4>1. u = udp
        BY <1>4, <2>2, <3>2 DEF Heard
      <4> QED BY <1>1, <3>2, <4>1 DEF UdpAges, TypeOK
    <3> QED BY <3>1, <3>2
  <2> QED BY <1>3, <2>1, <2>2
<1>6. /\ ~toUdp'[l].end
      /\ \A c \in Conn \ {l} : toUdp'[c] = Empty
  <2>1. \A c \in Conn \ {l} : toUdp[c] = Empty
    BY <1>4 DEF Idle
  <2>2. CASE toUdp' = toUdp
    BY <1>4, <2>1, <2>2
  <2>3. CASE toUdp' = Clear(toUdp, l)
    <3>1. toUdp'[l] = Empty /\ \A c \in Conn \ {l} : toUdp'[c] = toUdp[c]
      BY <1>1, <2>3 DEF Clear
    <3> QED BY <2>1, <3>1 DEF Empty
  <2> QED BY <1>3, <2>2, <2>3
<1>7. ~LinkSilent(u)
  BY <1>1, <1>5 DEF LinkSilent, Tolerance
<1>8. \/ /\ udp' = [u EXCEPT !.sent = stale.udp] /\ toTcp' = Put(toTcp, l)
      \/ udp' = u /\ toTcp' = toTcp /\ ~KeepaliveDue(u)
  BY <1>3, <1>5, <1>7 DEF UdpIdle
<1>9. /\ udp'.status = "up" /\ udp'.link = l /\ udp'.heard = u.heard
      /\ \/ udp'.sent = stale.udp /\ toTcp' = Put(toTcp, l)
         \/ udp'.sent = udp.sent /\ toTcp' = toTcp /\ ~KeepaliveDue(u)
  BY <1>5, <1>8
<1>10. /\ ~toTcp'[l].end /\ \A c \in Conn \ {l} : toTcp'[c] = Empty
       /\ toTcp'[l].frames \/ toTcp' = toTcp
  BY <1>1, <1>4, <1>9 DEF Put, Idle, Wire
<1>11. OneConnection'
  BY <1>2, <1>6, <1>9, <1>10 DEF OneConnection, Idle
<1>12. UdpAges'
  <2>1. udp'.sent \in Nat /\ udp'.sent <= KeepaliveInterval + 1
    BY <1>1, <1>5, <1>9 DEF KeepaliveDue
  <2>2. udp'.heard <= KeepaliveInterval + 2 + trouble'
    BY <1>2, <1>5, <1>9
  <2>3. toTcp'[l].frames \/ toUdp'[l].frames \/ udp'.heard <= udp'.sent
    BY <1>1, <1>5, <1>9, <1>10 DEF Put, Wire
  <2> QED BY <1>2, <1>9, <2>1, <2>2, <2>3 DEF UdpAges
<1>13. TcpAges'
  <2>1. toTcp'[l].frames \/ (toTcp' = toTcp /\ udp'.sent = udp.sent)
    BY <1>1, <1>9, <1>10 DEF Put, Wire
  <2> QED BY <1>2, <1>9, <2>1 DEF TcpAges
<1>14. Endures
  BY <1>2, <1>9 DEF Endures, TypeOK
<1>15. stale'.tcp <= trouble' + 1
  BY <1>2 DEF InTime
<1> QED BY <1>11, <1>12, <1>13, <1>14, <1>15 DEF InTime
\* The one channel there is, if there is one, is the link's.
LEMMA LinkChannel ==
  ASSUME TypeOK, OneConnection, NEW i \in DOMAIN chans
  PROVE  i = 1 /\ Len(chans) = 1 /\ chans[i].conn = udp.link /\ backlog = <<>>
<1>1. DOMAIN chans = 1..Len(chans) /\ chans # <<>>
  BY DEF TypeOK
<1>2. backlog = <<>> /\ Len(chans) = 1 /\ chans[1].conn = udp.link
  BY <1>1 DEF OneConnection
<1>3. i = 1
  BY <1>1, <1>2
<1> QED BY <1>2, <1>3

\* The TCP side accepts the one connection there is, with a time as old as it
\* was held up, and gives no channel up.
LEMMA QuietTcp ==
  ASSUME TypeOK, InTime, OneConnection, UdpAges, TcpAges, trouble < Tolerance,
         \/ TcpAccepts \/ TcpIdle
         \/ \E c \in Conn : TcpHears(c) \/ TcpForwards(c) \/ TcpEnds(c)
  PROVE  InTime' /\ Endures
<1> USE TunnelAssumption
<1> DEFINE l == udp.link
<1>1. /\ udp.status = "up" /\ l \in Conn /\ toTcp \in [Conn -> Wire] /\ toUdp \in [Conn -> Wire]
      /\ udp.heard \in Nat /\ udp.sent \in Nat /\ trouble \in Nat /\ stale.udp \in {0, 1}
      /\ stale.tcp \in Nat /\ stale.tcp <= trouble + 1 /\ stale.udp <= udp.sent
      /\ Len(chans) \in Nat /\ DOMAIN chans = 1..Len(chans)
  BY DEF OneConnection, TypeOK, InTime, UdpAges
<1>2. ~toUdp[l].end /\ ~toTcp[l].end /\ \A c \in Conn \ {l} : Idle(c)
  BY DEF OneConnection
<1>3. UNCHANGED <<udp, trouble>>
  BY DEF TcpAccepts, TcpIdle, TcpHears, TcpForwards, TcpEnds
<1>4. ASSUME TcpAccepts PROVE InTime' /\ Endures
  <2>1. chans = <<>> /\ backlog = <<l>> /\ UNCHANGED <<toTcp, toUdp, stale>>
    BY <1>1, <1>4, LinkChannel DEF TcpAccepts, OneConnection
  <2>2. chans' = <<[conn |-> l, heard |-> stale.tcp]>> /\ backlog' = <<>>
    BY <1>4, <2>1 DEF TcpAccepts, Stored
  <2>3. OneConnection'
    BY <1>3, <2>1, <2>2 DEF OneConnection, Idle
  <2>4. UdpAges'
    BY <1>3, <2>1 DEF UdpAges
  <2>5. TcpAges'
    BY <1>1, <1>3, <2>2 DEF TcpAges
  <2>6. Endures
    BY <1>3, <2>1, <2>2 DEF Endures
  <2> QED BY <1>1, <1>3, <2>1, <2>3, <2>4, <2>5, <2>6 DEF InTime
<1>5. ASSUME TcpIdle PROVE InTime' /\ Endures
  <2>1. chans # <<>> => ~(TailChannel.heard - stale.tcp > KeepaliveTimeout)
    <3>1. chans # <<>> => Len(chans) \in DOMAIN chans
      BY <1>1 DEF TypeOK
    <3>2. chans # <<>> => /\ TailChannel.heard <= KeepaliveInterval + 3 + trouble
                          /\ TailChannel.heard \in Nat
      <4>1. chans # <<>> => chans[Len(chans)] \in Channel
        BY <3>1 DEF TypeOK
      <4> QED BY <3>1, <4>1 DEF TcpAges, TailChannel, Channel
    <3> QED BY <1>1, <3>2 DEF Tolerance
  <2>2. /\ UNCHANGED <<chans, backlog, toTcp, toUdp>> /\ stale'.tcp = 0
        /\ stale'.udp = stale.udp
    BY <1>5, <2>1 DEF TcpIdle, TypeOK
  <2>3. OneConnection' /\ UdpAges' /\ TcpAges' /\ Endures
    BY <1>1, <1>3, <2>2 DEF OneConnection, UdpAges, TcpAges, Endures, Idle
  <2> QED BY <1>1, <1>3, <2>2, <2>3 DEF InTime
<1>6. ASSUME NEW c \in Conn, TcpHears(c) PROVE InTime' /\ Endures
  <2>1. PICK i \in DOMAIN chans : chans[i].conn = c
    BY <1>6 DEF TcpHears, Accepted
  <2>2. c = l /\ Len(chans) = 1 /\ chans[1].conn = l /\ backlog = <<>>
    BY <2>1, LinkChannel
  <2>3. /\ UNCHANGED <<backlog, stale>>
        /\ toTcp' = [toTcp EXCEPT ![l].frames = FALSE] /\ toUdp' = Put(toUdp, l)
    BY <1>6, <2>2 DEF TcpHears
  <2>4. /\ DOMAIN chans' = DOMAIN chans
        /\ chans'[1] = [chans[1] EXCEPT !.heard = stale.tcp] /\ chans[1] \in Channel
    <3>1. chans' = Stamped(c)
      BY <1>6 DEF TcpHears
    <3>2. 1 \in DOMAIN chans
      BY <1>1, <2>2
    <3>3. chans[1] \in Channel
      BY <3>2 DEF TypeOK
    <3> QED BY <2>2, <3>1, <3>2, <3>3 DEF Stamped
  <2>5. chans'[1].conn = l /\ chans'[1].heard = stale.tcp
    BY <2>2, <2>4 DEF Channel
  <2>6. Len(chans') = 1
    BY <1>1, <2>2, <2>4, TypeTcp, <1>6 DEF TypeOK
  <2>7. /\ ~toTcp'[l].end /\ ~toUdp'[l].end /\ toUdp'[l].frames
        /\ \A d \in Conn \ {l} : Idle(d)'
    BY <1>1, <1>2, <2>3 DEF Put, Idle, Wire
  <2>8. OneConnection'
    BY <1>1, <1>3, <2>2, <2>3, <2>5, <2>6, <2>7 DEF OneConnection
  <2>9. UdpAges'
    BY <1>3, <2>3, <2>7 DEF UdpAges
  <2>10. TcpAges'
    <3>1. DOMAIN chans' = {1}
      <4>1. DOMAIN chans = 1..1
        BY <1>1, <2>2
      <4> QED BY <2>4, <4>1
    <3> QED BY <1>1, <1>3, <2>5, <3>1 DEF TcpAges
  <2>11. Endures
    BY <1>3, <2>2, <2>6 DEF Endures
  <2> QED BY <1>1, <1>3, <2>3, <2>8, <2>9, <2>10, <2>11 DEF InTime
<1>7. ASSUME NEW c \in Conn, TcpForwards(c) PROVE InTime' /\ Endures
  <2>1. c = l
    BY <1>7, LinkChannel DEF TcpForwards, Accepted
  <2>2. UNCHANGED <<chans, backlog, stale, toTcp>> /\ toUdp' = Put(toUdp, l)
    BY <1>7, <2>1 DEF TcpForwards
  <2>3. ~toUdp'[l].end /\ \A d \in Conn \ {l} : Idle(d)'
    BY <1>1, <1>2, <2>2 DEF Put, Idle, Wire
  <2>4. toUdp'[l].frames
    BY <1>1, <2>2 DEF Put, Wire
  <2>5. OneConnection'
    BY <1>2, <1>3, <2>2, <2>3 DEF OneConnection
  <2>6. UdpAges' /\ TcpAges' /\ Endures
    BY <1>1, <1>3, <2>2, <2>4 DEF UdpAges, TcpAges, Endures
  <2> QED BY <1>1, <1>3, <2>2, <2>5, <2>6 DEF InTime
<1>8. ASSUME NEW c \in Conn, TcpEnds(c) PROVE FALSE
  <2>1. c = l
    BY <1>8, LinkChannel DEF TcpEnds
  <2> QED BY <1>2, <1>8, <2>1 DEF TcpEnds
<1> QED BY <1>4, <1>5, <1>6, <1>7, <1>8

\* Before a connection is up nothing reaches the TCP side.
LEMMA QuietTcpFirst ==
  ASSUME TypeOK, InTime, NotYetUp,
         \/ TcpAccepts \/ TcpIdle
         \/ \E c \in Conn : TcpHears(c) \/ TcpForwards(c) \/ TcpEnds(c)
  PROVE  InTime' /\ Endures
<1>1. chans = <<>> /\ backlog = <<>> /\ stale.tcp <= trouble + 1
      /\ stale.tcp \in Nat /\ stale.udp \in Nat /\ trouble \in Nat
  BY DEF NotYetUp, InTime, TypeOK
<1>2. \A c \in Conn : ~Accepted(c)
  BY <1>1 DEF Accepted
<1>3. TcpIdle
  BY <1>1, <1>2 DEF TcpAccepts, TcpHears, TcpForwards, TcpEnds
<1>4. /\ UNCHANGED <<udp, chans, backlog, toTcp, toUdp, trouble>>
      /\ stale'.tcp = 0 /\ stale'.udp = stale.udp
  BY <1>1, <1>3 DEF TcpIdle, TypeOK
<1>5. NotYetUp' /\ Endures
  BY <1>1, <1>4 DEF NotYetUp, Endures, Idle
<1> QED BY <1>1, <1>4, <1>5 DEF InTime

\* No kernel resets or forgets the live link.
LEMMA QuietKernels ==
  ASSUME TypeOK, InTime,
         Trouble \/ \E c \in Conn : ResetByUdpHost(c) \/ ResetByTcpHost(c) \/ Forget(c)
  PROVE  InTime' /\ Endures
<1>1. ASSUME NEW c \in Conn, ResetByUdpHost(c) \/ ResetByTcpHost(c) \/ Forget(c) PROVE FALSE
  <2>1. ~Idle(c)
    BY <1>1 DEF ResetByUdpHost, ResetByTcpHost, Forget, Idle
  <2>2. OneConnection /\ c = udp.link
    BY <2>1 DEF InTime, NotYetUp, OneConnection
  <2>3. Known(c)
    <3>1. CASE chans = <<>> /\ backlog = <<udp.link>>
      BY <2>2, <3>1 DEF Known
    <3>2. CASE Len(chans) = 1 /\ chans[1].conn = udp.link
      <4>1. 1 \in DOMAIN chans
        BY <3>2 DEF TypeOK
      <4> QED BY <2>2, <3>2, <4>1 DEF Known, Accepted
    <3> QED BY <2>2, <3>1, <3>2 DEF OneConnection
  <2> QED BY <1>1, <2>2, <2>3 DEF ResetByUdpHost, ResetByTcpHost, Forget
<1>2. UNCHANGED <<udp, chans, backlog, toTcp, toUdp, stale, trouble>>
  BY <1>1 DEF Trouble
<1>3. InTime'
  BY <1>2 DEF InTime, NotYetUp, OneConnection, UdpAges, TcpAges, Idle
<1>4. Endures
  BY <1>2 DEF Endures, TypeOK
<1> QED BY <1>3, <1>4
\* An age within its limit grows by one.
LEMMA OlderBound ==
  ASSUME NEW age \in Nat, NEW now \in Nat, NEW limit \in Nat
  PROVE  /\ Older(age, now, limit) <= age + 1
         /\ age <= now + limit => Older(age, now, limit) = age + 1
  BY DEF Older

\* A second ages everything alike; one without trouble finds nothing under
\* way, and one with trouble counts.
LEMMA QuietTick ==
  ASSUME TypeOK, InTime, trouble < Tolerance, trouble' < Tolerance, Tick
  PROVE  InTime' /\ Endures
<1> USE TunnelAssumption
<1>1. /\ udp.heard \in Nat /\ udp.sent \in Nat /\ trouble \in Nat /\ stale.udp = 0
      /\ stale.tcp \in Nat /\ stale.tcp <= trouble + 1 /\ stale.tcp <= KeepaliveTimeout
      /\ Len(chans) \in Nat /\ DOMAIN chans = 1..Len(chans)
      /\ \A i \in DOMAIN chans : chans[i] \in Channel
  <2>1. /\ udp.heard \in Nat /\ udp.sent \in Nat /\ trouble \in Nat /\ stale.tcp \in Nat
        /\ Len(chans) \in Nat /\ DOMAIN chans = 1..Len(chans)
        /\ \A i \in DOMAIN chans : chans[i] \in Channel
    BY DEF TypeOK
  <2>2. stale.udp = 0 /\ stale.tcp <= trouble + 1
    BY DEF InTime, Tick
  <2>3. stale.tcp <= KeepaliveTimeout
    BY <2>1, <2>2 DEF Tolerance
  <2> QED BY <2>1, <2>2, <2>3
<1>2. /\ UNCHANGED <<backlog, toTcp, toUdp>>
      /\ stale'.tcp = stale.tcp + 1
      /\ stale'.udp = IF udp.status = "crashed" THEN 0 ELSE 1
      /\ chans' = [i \in DOMAIN chans |->
                     [chans[i] EXCEPT !.heard = Older(@, stale.tcp + 1, KeepaliveTimeout)]]
  BY <1>1 DEF Tick
<1>3. \/ /\ net /\ ~held /\ trouble' = trouble /\ stale.tcp = 0
         /\ \A c \in Conn : Idle(c)
      \/ trouble' = trouble + 1
  BY <1>1 DEF Tick, Idle
<1>4. stale'.tcp <= trouble' + 1
  BY <1>1, <1>2, <1>3
<1>5. Len(chans') = Len(chans) /\ DOMAIN chans' = DOMAIN chans
  BY <1>1, <1>2
<1>6. udp'.status = udp.status /\ udp'.link = udp.link
  BY DEF Tick, TypeOK
<1>7. Endures
  BY <1>1, <1>5, <1>6 DEF Endures
<1>8. udp.status # "crashed" => /\ udp'.sent = Older(udp.sent, 1, KeepaliveInterval)
                                /\ udp.status # "none" =>
                                     udp'.heard = Older(udp.heard, 1, KeepaliveTimeout)
  BY DEF Tick, TypeOK
<1>9. /\ Older(udp.heard, 1, KeepaliveTimeout) \in Nat
      /\ Older(udp.heard, 1, KeepaliveTimeout) <= udp.heard + 1
      /\ udp.sent <= KeepaliveInterval + 1 =>
            Older(udp.sent, 1, KeepaliveInterval) = udp.sent + 1
  <2>1. \A age, limit \in Nat :
          /\ Older(age, 1, limit) \in Nat /\ Older(age, 1, limit) <= age + 1
          /\ age <= limit + 1 => Older(age, 1, limit) = age + 1
    BY DEF Older
  <2> QED BY <1>1, <2>1
<1>10. ASSUME NotYetUp PROVE NotYetUp'
  <2>1. chans' = <<>>
    BY <1>2, <1>10 DEF NotYetUp
  <2>2. udp'.status # "crashed" => udp'.sent > KeepaliveInterval + stale'.udp
    BY <1>1, <1>2, <1>6, <1>8, <1>10 DEF NotYetUp, Older
  <2>3. udp'.status = "wait" => udp'.heard <= 1 + stale'.udp
    BY <1>1, <1>2, <1>6, <1>8, <1>10, <1>9 DEF NotYetUp
  <2> QED BY <1>2, <1>6, <1>10, <2>1, <2>2, <2>3 DEF NotYetUp, Idle
<1>11. ASSUME OneConnection, UdpAges, TcpAges PROVE OneConnection' /\ UdpAges' /\ TcpAges'
  <2>1. udp.status = "up" /\ udp.link \in Conn
    BY <1>11 DEF OneConnection, TypeOK
  <2>2. \A i \in DOMAIN chans : chans'[i].conn = chans[i].conn
    BY <1>1, <1>2 DEF Channel
  <2>3. chans = <<>> => chans' = <<>>
    BY <1>2
  <2>4. Len(chans) = 1 /\ chans[1].conn = udp.link =>
          Len(chans') = 1 /\ chans'[1].conn = udp'.link
    BY <1>1, <1>5, <1>6, <2>2
  <2>5. OneConnection'
    BY <1>2, <1>6, <1>11, <2>1, <2>3, <2>4 DEF OneConnection, Idle
  <2>6. /\ udp.sent <= KeepaliveInterval + 1 /\ udp'.sent = udp.sent + 1
        /\ udp'.heard <= udp.heard + 1
    <3>1. udp.sent <= KeepaliveInterval + 1
      BY <1>1, <1>11 DEF UdpAges
    <3> QED BY <1>8, <1>9, <2>1, <3>1
  <2>7. /\ toTcp[udp.link].frames \/ toUdp[udp.link].frames \/ udp.heard <= udp.sent
        /\ udp.heard <= KeepaliveInterval + 2 + trouble
    BY <1>11 DEF UdpAges
  <2>8. (\A c \in Conn : Idle(c)) => ~toTcp[udp.link].frames /\ ~toUdp[udp.link].frames
    BY <2>1 DEF Idle, Empty
  <2>9. udp'.heard \in Nat /\ stale'.udp = 1
    BY <1>2, <1>8, <1>9, <2>1
  <2>10. toTcp'[udp'.link].frames \/ toUdp'[udp'.link].frames \/ udp'.heard <= udp'.sent
    <3>1. udp.heard <= udp.sent => udp'.heard <= udp'.sent
      BY <1>1, <2>6, <2>9
    <3> QED BY <1>2, <1>6, <2>7, <3>1
  <2>11. udp'.heard <= KeepaliveInterval + 2 + trouble'
    <3>1. CASE trouble' = trouble + 1
      BY <1>1, <2>6, <2>7, <2>9, <3>1
    <3>2. CASE trouble' = trouble /\ \A c \in Conn : Idle(c)
      <4>1. udp.heard <= udp.sent
        BY <2>7, <2>8, <3>2
      <4> QED BY <1>1, <2>6, <2>9, <3>2, <4>1
    <3> QED BY <1>3, <3>1, <3>2
  <2>12. UdpAges'
    <3>1. stale'.udp <= udp'.sent /\ udp'.sent <= KeepaliveInterval + 1 + stale'.udp
      BY <1>1, <2>6, <2>9
    <3> QED BY <2>10, <2>11, <3>1 DEF UdpAges
  <2>13. ASSUME NEW i \in DOMAIN chans
         PROVE  /\ toTcp[udp.link].frames \/ chans'[i].heard <= udp'.sent + trouble' + 1
                /\ chans'[i].heard <= KeepaliveInterval + 3 + trouble'
    <3>1. /\ chans'[i].heard = Older(chans[i].heard, stale.tcp + 1, KeepaliveTimeout)
          /\ chans[i].heard \in Nat
      BY <1>1, <1>2 DEF Channel
    <3>2. chans'[i].heard <= chans[i].heard + 1 /\ chans'[i].heard \in Nat
      <4>1. PICK age \in Nat : age = chans[i].heard
        BY <3>1
      <4>2. PICK now \in Nat : now = stale.tcp + 1
        BY <1>1
      <4>3. /\ Older(age, now, KeepaliveTimeout) \in Nat
            /\ Older(age, now, KeepaliveTimeout) <= age + 1
        BY OlderType, OlderBound
      <4>4. chans'[i].heard = Older(age, now, KeepaliveTimeout)
        BY <3>1, <4>1, <4>2
      <4> QED BY ONLY <4>1, <4>3, <4>4
    <3>3. /\ toTcp[udp.link].frames \/ chans[i].heard <= udp.sent + trouble + 1
          /\ chans[i].heard <= KeepaliveInterval + 3 + trouble
      BY <1>11 DEF TcpAges
    <3>4. trouble' \in Nat /\ udp'.sent = udp.sent + 1 /\ udp'.sent <= KeepaliveInterval + 2
      BY <1>1, <1>3, <2>6
    <3>5. CASE trouble' = trouble + 1
      <4>1. chans'[i].heard <= KeepaliveInterval + 3 + trouble'
        <5>1. /\ trouble' = trouble + 1 /\ trouble \in Nat /\ KeepaliveInterval \in Nat
              /\ chans[i].heard \in Nat /\ chans[i].heard <= KeepaliveInterval + 3 + trouble
          BY <1>1, <3>1, <3>3, <3>5
        <5> QED BY ONLY <3>2, <5>1
      <4>2. chans[i].heard <= udp.sent + trouble + 1 =>
              chans'[i].heard <= udp'.sent + trouble' + 1
        <5>1. /\ trouble' = trouble + 1 /\ trouble \in Nat /\ udp'.sent = udp.sent + 1
              /\ udp.sent \in Nat /\ chans[i].heard \in Nat
          BY <1>1, <3>1, <3>4, <3>5
        <5> QED BY ONLY <3>2, <5>1
      <4> QED BY <3>3, <4>1, <4>2
    <3>6. CASE trouble' = trouble /\ \A c \in Conn : Idle(c)
      <4>1. chans[i].heard <= udp.sent + trouble + 1
        BY <2>8, <3>3, <3>6
      <4>2. chans'[i].heard <= udp'.sent + trouble' + 1
        <5>1. /\ trouble' = trouble /\ trouble \in Nat /\ udp'.sent = udp.sent + 1
              /\ udp.sent \in Nat /\ chans[i].heard \in Nat
          BY <1>1, <3>1, <3>4, <3>6
        <5> QED BY ONLY <3>2, <4>1, <5>1
      <4>3. chans'[i].heard <= KeepaliveInterval + 3 + trouble'
        <5>1. udp'.sent \in Nat /\ udp'.sent <= KeepaliveInterval + 2
          BY <1>1, <3>4
        <5>2. trouble' = trouble /\ trouble \in Nat /\ chans'[i].heard \in Nat
          BY <1>1, <3>2, <3>6
        <5>3. \A h, x, k, t \in Nat : h <= x + t + 1 /\ x <= k + 2 => h <= k + 3 + t
          OBVIOUS
        <5> QED BY <4>2, <5>1, <5>2, <5>3
      <4> QED BY <4>2, <4>3
    <3> QED BY <1>3, <3>5, <3>6
  <2>14. TcpAges'
    BY <1>2, <1>5, <1>6, <2>13 DEF TcpAges
  <2> QED BY <2>5, <2>12, <2>14
<1>12. InTime'
  BY <1>4, <1>10, <1>11 DEF InTime
<1> QED BY <1>7, <1>12

\* The trouble counted never gets less.
LEMMA TroubleGrows ==
  ASSUME TypeOK, Next, trouble' < Tolerance
  PROVE  trouble < Tolerance
<1>1. CASE Tick
  <2>1. Tolerance \in Int /\ trouble \in Nat
    BY TunnelAssumption DEF Tolerance, TypeOK
  <2>2. trouble' \in {trouble, trouble + 1}
    BY <1>1 DEF Tick
  <2>3. trouble' < Tolerance
    OBVIOUS
  <2> QED BY <2>1, <2>2, <2>3
<1>2. CASE ~Tick
  <2>1. trouble' = trouble
    BY <1>2 DEF Next, UdpPass, TcpAccepts, TcpIdle, Trouble, TcpHears, TcpForwards, TcpEnds,
                ResetByUdpHost, ResetByTcpHost, Forget
  <2> QED BY <2>1
<1> QED BY <1>1, <1>2

\* As long as the trouble is short, every step keeps the tunnel in time and
\* gives nothing up, but for the second that makes it long.
LEMMA QuietNext ==
  ASSUME TypeOK, QuietInv, Next
  PROVE  QuietInv' /\ (trouble < Tolerance => Endures)
<1>1. CASE ~(trouble < Tolerance)
  BY <1>1, TroubleGrows DEF QuietInv
<1>2. CASE trouble < Tolerance
  <2>1. InTime
    BY <1>2 DEF QuietInv
  <2>2. CASE UdpPass
    BY <1>2, <2>1, <2>2, QuietFirst, QuietUp DEF InTime, QuietInv
  <2>3. CASE \/ TcpAccepts \/ TcpIdle
             \/ \E c \in Conn : TcpHears(c) \/ TcpForwards(c) \/ TcpEnds(c)
    BY <1>2, <2>1, <2>3, QuietTcpFirst, QuietTcp DEF InTime, QuietInv
  <2>4. CASE Trouble \/ \E c \in Conn : ResetByUdpHost(c) \/ ResetByTcpHost(c) \/ Forget(c)
    BY <2>1, <2>4, QuietKernels DEF QuietInv
  <2>5. CASE Tick
    <3>1. Endures
      BY <2>5 DEF Tick, TypeOK, Endures
    <3> QED BY <1>2, <2>1, <2>5, <3>1, QuietTick DEF QuietInv
  <2> QED BY <2>2, <2>3, <2>4, <2>5 DEF Next
<1> QED BY <1>1, <1>2

\* While the network was down and the TCP side held up for less than
\* KeepaliveTimeout - KeepaliveInterval - 2 seconds in all, neither side gives
\* a connection up, for any intervals and any number of connections.
THEOREM TroubleIsEndured == Spec => EnduresTrouble
<1>1. TypeOK /\ QuietInv /\ UNCHANGED vars => QuietInv'
  BY DEF QuietInv, InTime, NotYetUp, OneConnection, UdpAges, TcpAges, Idle, vars
<1>2. TypeOK /\ QuietInv /\ [Next]_vars => QuietInv'
  BY <1>1, QuietNext
<1>3. TypeOK /\ QuietInv /\ [Next]_vars =>
        [trouble < Tolerance => /\ udp.status = "up" => udp'.status = "up"
                                /\ Len(chans') >= Len(chans)]_vars
  BY QuietNext DEF Endures
<1> QED BY <1>2, <1>3, TypeCorrect, QuietInit, PTL DEF Spec, EnduresTrouble

-----------------------------------------------------------------------------
(***************************************************************************)
(* The recovery.  Connections come to the TCP side in the order the UDP    *)
(* side opened them, so that the link is the youngest; what is older than  *)
(* the link and not about to end is half open, and nobody hears of it any  *)
(* more.  Its age grows by one with each second of calm, and from the time *)
(* it is over the limit one such channel is closed a second, from the      *)
(* tail.  The link is in time once a keepalive of the calm was answered, or *)
(* is given up before that and opened again, once and for all.             *)
(***************************************************************************)
\* The order of the connections at the TCP side.
Order ==
  /\ \A i, j \in DOMAIN chans : chans[i].conn = chans[j].conn => i = j
  /\ \A i, j \in DOMAIN backlog : backlog[i] = backlog[j] => i = j
  /\ \A i \in DOMAIN chans, j \in DOMAIN backlog : chans[i].conn # backlog[j]
  /\ udp.status = "wait" => ~Known(udp.link)
  /\ \A i \in DOMAIN chans : chans[i].conn = udp.link => i = 1 /\ backlog = <<>>
  /\ \A j \in DOMAIN backlog : backlog[j] = udp.link => j = Len(backlog)

\* A keepalive is sent in the second after it fell due.
SentInTime ==
  /\ stale.udp <= udp.sent
  /\ udp.status # "crashed" => udp.sent <= KeepaliveInterval + 2
  /\ udp.status = "up" => udp.sent <= KeepaliveInterval + 1 + stale.udp

\* An age that began before the calm, or that is as great as an age can get.
Old(age, limit) == age >= calm \/ age >= limit + 2

CalmWires ==
  /\ net /\ ~held /\ stale.tcp <= 1
  /\ \A c \in Conn : toUdp[c].end => ~Known(c)
  /\ udp.link \in Conn => ~toTcp[udp.link].end
  /\ udp.status = "wait" => toTcp[udp.link] = Empty /\ toUdp[udp.link] = Empty

\* A connection the UDP side has given up is about to end, or silent since
\* before the calm.
HalfOpen ==
  /\ \A i \in DOMAIN chans :
       chans[i].conn # udp.link /\ ~toTcp[chans[i].conn].end =>
         Old(chans[i].heard, KeepaliveTimeout) /\ ~toTcp[chans[i].conn].frames
  /\ \A j \in DOMAIN backlog : backlog[j] # udp.link => toTcp[backlog[j]].end

\* The last keepalive is under way, answered, or answered by a reset.
Answered ==
  /\ \/ toTcp[udp.link].frames \/ toUdp[udp.link].frames \/ toUdp[udp.link].end
     \/ udp.heard <= udp.sent
  /\ \/ toTcp[udp.link].frames
     \/ \A i \in DOMAIN chans : chans[i].conn = udp.link => chans[i].heard <= udp.sent + 1
  /\ toTcp[udp.link].frames \/ toUdp[udp.link].end \/ Known(udp.link)

\* Neither side gives the link up.
Safe ==
  /\ udp.heard <= KeepaliveInterval + 2 /\ Known(udp.link)
  /\ \A i \in DOMAIN chans : chans[i].conn = udp.link => chans[i].heard <= KeepaliveInterval + 3

\* Until the first keepalive of the calm the link may be older than the calm;
\* one that was opened in the calm is never given up.
LinkInTime ==
  /\ udp.status = "wait" => udp.heard <= 1 /\ udp.heard <= udp.sent
  /\ udp.status = "up" =>
       Answered \/ (Old(udp.sent, KeepaliveInterval) /\ Old(udp.tried, ReconnectInterval))
  /\ udp.status = "up" /\ (~Old(udp.tried, ReconnectInterval) \/ calm >= KeepaliveInterval + 3) =>
       Safe
  /\ udp.status = "none" => Old(udp.tried, ReconnectInterval)

\* The channels besides the link's, which is the first if it is there.
HeadIsLink == chans # <<>> /\ chans[1].conn = udp.link
Others == Len(chans) - (IF HeadIsLink THEN 1 ELSE 0)

\* From the second in which every half-open channel is over the limit: one is
\* closed in each, and the link is opened again as soon as there is room.
Late ==
  /\ \A i \in DOMAIN chans : chans[i].conn # udp.link => chans[i].heard >= KeepaliveTimeout + 2
  /\ backlog = <<>> \/ (udp.status = "up" /\ backlog = <<udp.link>>)
  /\ \A c \in Conn \ {udp.link} : ~toTcp[c].frames
  /\ Others = 0 \/ Others + calm + 1 <= Cardinality(Conn) + KeepaliveTimeout + 2 + stale.tcp
  /\ calm >= KeepaliveTimeout + 3 /\ udp.status = "none" =>
       stale.udp = 1 /\ calm = KeepaliveTimeout + 3 /\ \E c \in Conn : Unused(c)
  /\ calm >= KeepaliveTimeout + 4 => backlog = <<>> /\ udp.status \in {"up", "crashed"}

Recovering == CalmWires /\ HalfOpen /\ LinkInTime /\ (calm >= KeepaliveTimeout + 2 => Late)

CalmInv == calm >= 1 => Recovering

RecoveryInv == Order /\ SentInTime /\ CalmInv

\* The constants, as the provers take them.
LEMMA Numbers ==
  /\ KeepaliveInterval \in Nat /\ ReconnectInterval \in Nat /\ KeepaliveTimeout \in Nat
  /\ KeepaliveTimeout >= KeepaliveInterval + 3 /\ KeepaliveTimeout >= ReconnectInterval
  /\ IsFiniteSet(Conn) /\ Cardinality(Conn) \in Nat /\ Cardinality(Conn) >= 2
  /\ None \notin Conn
  /\ Recovery = KeepaliveTimeout + Cardinality(Conn) + 2
  BY TunnelAssumption, RecoveryAssumption, FS_CardinalityType DEF Recovery

\* Channels and connections that wait, as the provers take them.
LEMMA Places ==
  ASSUME TypeOK
  PROVE  /\ Len(chans) \in Nat /\ DOMAIN chans = 1..Len(chans)
         /\ Len(backlog) \in Nat /\ DOMAIN backlog = 1..Len(backlog)
         /\ \A i \in DOMAIN chans : chans[i].conn \in Conn /\ chans[i].heard \in Nat
         /\ \A j \in DOMAIN backlog : backlog[j] \in Conn
         /\ chans = <<>> <=> Len(chans) = 0
         /\ backlog = <<>> <=> Len(backlog) = 0
<1>1. chans \in Seq(Channel) /\ backlog \in Seq(Conn)
  BY DEF TypeOK
<1>2. \A i \in DOMAIN chans : chans[i] \in Channel
  BY <1>1
<1>3. \A x \in Channel : x.conn \in Conn /\ x.heard \in Nat
  BY DEF Channel
<1> QED BY <1>1, <1>2, <1>3

\* There are no more channels than connections, and as long as there are less
\* one of these is not accepted.
LEMMA RoomForOne ==
  ASSUME TypeOK, Order
  PROVE  /\ Len(chans) <= Cardinality(Conn)
         /\ Len(chans) < Cardinality(Conn) => \E c \in Conn : ~Accepted(c)
<1>1. IsFiniteSet(1..Len(chans)) /\ Cardinality(1..Len(chans)) = Len(chans) /\ Len(chans) \in Nat
  <2>1. PICK n \in Nat : n = Len(chans)
    BY Places
  <2>2. /\ IsFiniteSet(1..n)
        /\ Cardinality(1..n) = IF 1 > n THEN 0 ELSE n - 1 + 1
    BY FS_Interval
  <2> QED BY <2>1, <2>2
<1>2. ASSUME Len(chans) > Cardinality(Conn) PROVE FALSE
  <2> DEFINE f == [i \in 1..Len(chans) |-> chans[i].conn]
  <2>1. f \in [1..Len(chans) -> Conn]
    BY Places
  <2>2. \E i, j \in 1..Len(chans) : i # j /\ f[i] = f[j]
    <3> HIDE DEF f
    <3> QED BY <1>1, <1>2, <2>1, Numbers, FS_PigeonHole
  <2> QED BY <2>2, Places DEF Order
<1>3. ASSUME Len(chans) < Cardinality(Conn), \A c \in Conn : Accepted(c) PROVE FALSE
  <2> DEFINE g == [c \in Conn |-> CHOOSE i \in 1..Len(chans) : chans[i].conn = c]
  <2>1. \A c \in Conn : g[c] \in 1..Len(chans) /\ chans[g[c]].conn = c
    BY <1>3, Places DEF Accepted
  <2>2. g \in [Conn -> 1..Len(chans)]
    BY <2>1
  <2>3. \E c, d \in Conn : c # d /\ g[c] = g[d]
    <3> HIDE DEF g
    <3> QED BY <1>1, <1>3, <2>2, Numbers, FS_PigeonHole
  <2> QED BY <2>1, <2>3
<1> QED BY <1>1, <1>2, <1>3, Numbers

-----------------------------------------------------------------------------
(***************************************************************************)
(* What a pass of the UDP side may come to.                                *)
(***************************************************************************)
LinkGone ==
  \/ udp.status = "none"
  \/ udp.status = "up" /\ toUdp[udp.link].end
  \/ udp.status = "wait" /\ ~net

\* A link is opened, where there is none any more,
PassOpens(d) ==
  /\ LinkGone /\ Unused(d) /\ toTcp' = toTcp /\ backlog' = backlog
  /\ toUdp' = toUdp \/ (udp.status = "up" /\ toUdp' = Clear(toUdp, udp.link))
  /\ udp'.link = d /\ udp'.status = "wait" /\ udp'.sent = udp.sent
  /\ udp'.heard = stale.udp /\ udp'.tried = stale.udp

\* or not,
PassStaysAlone ==
  /\ LinkGone /\ toTcp' = toTcp /\ backlog' = backlog
  /\ toUdp' = toUdp \/ (udp.status = "up" /\ toUdp' = Clear(toUdp, udp.link))
  /\ udp'.link = None /\ udp'.status = "none" /\ udp'.sent = udp.sent /\ udp'.tried = udp.tried
  /\ udp.status = "none" => ~ReconnectDue(udp) \/ \A c \in Conn : ~Unused(c)

\* the link is given up for its silence,
PassGivesUp ==
  /\ udp.status \in {"wait", "up"} /\ LinkSilent(udp) /\ toUdp' = toUdp
  /\ backlog' = backlog \/ (udp.status = "wait" /\ backlog' = Append(backlog, udp.link))
  /\ toTcp' = End(toTcp, udp.link) \/ (udp.status = "wait" /\ ~net /\ toTcp' = toTcp)
  /\ udp'.link = None /\ udp'.status = "none" /\ udp'.sent = udp.sent /\ udp'.tried = udp.tried

\* or it is up, with a keepalive or without,
PassKeeps ==
  /\ \/ udp.status = "up" /\ backlog' = backlog
     \/ udp.status = "wait" /\ net /\ backlog' = Append(backlog, udp.link)
  /\ \/ udp'.heard = udp.heard /\ toUdp' = toUdp
     \/ /\ udp.status = "up" /\ toUdp[udp.link].frames /\ ~toUdp[udp.link].end
        /\ udp'.heard = stale.udp /\ toUdp' = Clear(toUdp, udp.link)
  /\ \/ udp'.sent = stale.udp /\ toTcp' = Put(toTcp, udp.link)
     \/ udp'.sent = udp.sent /\ ~KeepaliveDue(udp) /\ toTcp' = toTcp
  /\ udp'.link = udp.link /\ udp'.status = "up" /\ udp'.tried = udp.tried

\* or waits for an answer that a network which is down will not bring,
PassWaits ==
  udp.status = "wait" /\ ~net /\ UNCHANGED <<udp, backlog, toTcp, toUdp>>

\* or the process dies of a keepalive.
PassDies ==
  /\ udp.status = "wait" /\ ~net /\ UNCHANGED <<backlog, toTcp, toUdp>>
  /\ udp'.link = None /\ udp'.status = "crashed" /\ udp'.sent = 0

\* service_idle_cb goes one of these ways.
LEMMA UdpIdleForms ==
  ASSUME TypeOK, NEW u, LinkOK(u), NEW w, UdpIdle(u, w)
  PROVE  \/ /\ udp' = u /\ toTcp' = w
            /\ u.status = "none" => ~ReconnectDue(u) \/ \A c \in Conn : ~Unused(c)
            /\ u.status \in {"wait", "up"} => ~KeepaliveDue(u)
         \/ /\ u.status = "none" /\ toTcp' = w
            /\ \E d \in Conn : /\ Unused(d) /\ udp'.link = d /\ udp'.status = "wait"
                               /\ udp'.sent = u.sent
                               /\ udp'.heard = stale.udp /\ udp'.tried = stale.udp
         \/ /\ u.status = "wait" /\ toTcp' = w
            /\ udp'.link = None /\ udp'.status = "crashed" /\ udp'.sent = 0
         \/ /\ u.status = "up" /\ toTcp' = Put(w, u.link)
            /\ udp' = [u EXCEPT !.sent = stale.udp]
         \/ /\ u.status \in {"wait", "up"} /\ LinkSilent(u) /\ udp' = NoLink(u)
            /\ toTcp' = IF u.status = "up" THEN End(w, u.link) ELSE w
<1> DEFINE d == CHOOSE c \in Conn : Unused(c)
<1>1. CASE u.status = "none" /\ ReconnectDue(u) /\ \E c \in Conn : Unused(c)
  <2>1. d \in Conn /\ Unused(d)
    BY <1>1
  <2>2. toTcp' = w /\ udp' = [u EXCEPT !.link = d, !.status = "wait",
                                       !.heard = stale.udp, !.tried = stale.udp]
    BY <1>1 DEF UdpIdle
  <2> HIDE DEF d
  <2>3. /\ udp'.link = d /\ udp'.status = "wait" /\ udp'.sent = u.sent
        /\ udp'.heard = stale.udp /\ udp'.tried = stale.udp
    BY <2>2 DEF LinkOK
  <2> QED BY <1>1, <2>1, <2>2, <2>3
<1>2. CASE u.status = "none" /\ ~(ReconnectDue(u) /\ \E c \in Conn : Unused(c))
  BY <1>2 DEF UdpIdle
<1>3. CASE u.status = "wait" /\ KeepaliveDue(u)
  <2>1. toTcp' = w /\ udp' = [NoLink(u) EXCEPT !.status = "crashed", !.sent = 0, !.tried = 0]
    BY <1>3 DEF UdpIdle
  <2> QED BY <1>3, <2>1 DEF LinkOK, NoLink
<1>4. CASE u.status = "up" /\ KeepaliveDue(u)
  BY <1>4 DEF UdpIdle
<1>5. CASE u.status \in {"wait", "up"} /\ ~KeepaliveDue(u)
  BY <1>5 DEF UdpIdle
<1> QED BY <1>1, <1>2, <1>3, <1>4, <1>5 DEF LinkOK

\* A pass goes one of these ways.
LEMMA PassForms ==
  ASSUME TypeOK, UdpPass
  PROVE  /\ UNCHANGED <<chans, held, net, calm>> /\ stale'.udp = 0 /\ stale'.tcp = stale.tcp
         /\ \/ PassStaysAlone \/ PassGivesUp \/ PassKeeps \/ PassWaits \/ PassDies
            \/ \E d \in Conn : PassOpens(d)
<1>1. /\ udp \in [link : Conn \cup {None}, status : {"wait", "up", "none"},
                  heard : Nat, sent : Nat, tried : Nat]
      /\ LinkOK(udp) /\ toTcp \in [Conn -> Wire] /\ toUdp \in [Conn -> Wire]
      /\ stale.udp \in {0, 1}
  BY DEF TypeOK, LinkOK, UdpPass
<1>2. UNCHANGED <<chans, held, net, calm>> /\ stale'.udp = 0 /\ stale'.tcp = stale.tcp
  BY DEF UdpPass, TypeOK
<1>3. /\ LinkOK(NoLink(udp)) /\ NoLink(udp).link = None /\ NoLink(udp).status = "none"
      /\ NoLink(udp).sent = udp.sent /\ NoLink(udp).tried = udp.tried
  BY <1>1, TunnelAssumption DEF LinkOK, NoLink
<1>4. ASSUME UdpIdle(udp, toTcp), UNCHANGED <<backlog, toUdp>>, udp.status = "wait" => ~net
      PROVE  \/ PassStaysAlone \/ PassGivesUp \/ PassKeeps \/ PassWaits \/ PassDies
             \/ \E d \in Conn : PassOpens(d)
  <2>1. CASE udp.status = "none"
    <3>1. \/ udp' = udp /\ (~ReconnectDue(udp) \/ \A c \in Conn : ~Unused(c))
          \/ \E d \in Conn : /\ Unused(d) /\ udp'.link = d /\ udp'.status = "wait"
                             /\ udp'.sent = udp.sent
                             /\ udp'.heard = stale.udp /\ udp'.tried = stale.udp
      BY <1>1, <1>4, <2>1, UdpIdleForms
    <3>2. udp.link = None /\ toTcp' = toTcp
      BY <1>1, <1>4, <2>1, UdpIdleForms DEF LinkOK
    <3> QED BY <1>4, <2>1, <3>1, <3>2 DEF PassStaysAlone, PassOpens, LinkGone
  <2>2. CASE udp.status = "wait"
    <3>1. \/ udp' = udp
          \/ udp'.link = None /\ udp'.status = "crashed" /\ udp'.sent = 0
          \/ LinkSilent(udp) /\ udp' = NoLink(udp)
      BY <1>1, <1>4, <2>2, UdpIdleForms
    <3>2. toTcp' = toTcp
      BY <1>1, <1>4, <2>2, UdpIdleForms
    <3> QED BY <1>3, <1>4, <2>2, <3>1, <3>2 DEF PassWaits, PassDies, PassGivesUp
  <2>3. CASE udp.status = "up"
    <3>1. \/ udp' = udp /\ toTcp' = toTcp /\ ~KeepaliveDue(udp)
          \/ udp' = [udp EXCEPT !.sent = stale.udp] /\ toTcp' = Put(toTcp, udp.link)
          \/ LinkSilent(udp) /\ udp' = NoLink(udp) /\ toTcp' = End(toTcp, udp.link)
      BY <1>1, <1>4, <2>3, UdpIdleForms
    <3>2. CASE LinkSilent(udp) /\ udp' = NoLink(udp) /\ toTcp' = End(toTcp, udp.link)
      BY <1>3, <1>4, <2>3, <3>2 DEF PassGivesUp
    <3>3. CASE udp' = udp /\ toTcp' = toTcp /\ ~KeepaliveDue(udp)
      BY <1>4, <2>3, <3>3 DEF PassKeeps
    <3>4. CASE udp' = [udp EXCEPT !.sent = stale.udp] /\ toTcp' = Put(toTcp, udp.link)
      <4>1. /\ udp'.sent = stale.udp /\ udp'.link = udp.link /\ udp'.status = "up"
            /\ udp'.tried = udp.tried /\ udp'.heard = udp.heard
        BY <1>1, <2>3, <3>4
      <4> QED BY <1>4, <2>3, <3>4, <4>1 DEF PassKeeps
    <3> QED BY <3>1, <3>2, <3>3, <3>4
  <2> QED BY <1>1, <2>1, <2>2, <2>3
<1>5. ASSUME udp.status = "wait", net, UdpIdle(Connected(udp), toTcp),
             backlog' = Append(backlog, udp.link), UNCHANGED toUdp
      PROVE  PassGivesUp \/ PassKeeps
  <2> DEFINE u == Connected(udp)
  <2>1. /\ LinkOK(u) /\ u.status = "up" /\ u.link = udp.link /\ u.sent = udp.sent
        /\ u.tried = udp.tried /\ u.heard = udp.heard
        /\ u \in [link : Conn \cup {None}, status : {"wait", "up", "none"},
                  heard : Nat, sent : Nat, tried : Nat]
    BY <1>1, <1>5 DEF LinkOK, Connected
  <2>2. /\ NoLink(u).link = None /\ NoLink(u).status = "none"
        /\ NoLink(u).sent = udp.sent /\ NoLink(u).tried = udp.tried
    BY <2>1 DEF NoLink
  <2>3. KeepaliveDue(u) = KeepaliveDue(udp) /\ LinkSilent(u) = LinkSilent(udp)
    BY <2>1 DEF KeepaliveDue, LinkSilent
  <2> HIDE DEF u
  <2>4. \/ udp' = u /\ toTcp' = toTcp /\ ~KeepaliveDue(u)
        \/ udp' = [u EXCEPT !.sent = stale.udp] /\ toTcp' = Put(toTcp, u.link)
        \/ LinkSilent(u) /\ udp' = NoLink(u) /\ toTcp' = End(toTcp, u.link)
    <3>1. UdpIdle(u, toTcp)
      BY <1>5 DEF u
    <3> QED BY <2>1, <3>1, UdpIdleForms
  <2>5. CASE LinkSilent(u) /\ udp' = NoLink(u) /\ toTcp' = End(toTcp, u.link)
    BY <1>5, <2>1, <2>2, <2>3, <2>5 DEF PassGivesUp
  <2>6. CASE udp' = u /\ toTcp' = toTcp /\ ~KeepaliveDue(u)
    BY <1>5, <2>1, <2>3, <2>6 DEF PassKeeps
  <2>7. CASE udp' = [u EXCEPT !.sent = stale.udp] /\ toTcp' = Put(toTcp, u.link)
    <3>1. /\ udp'.sent = stale.udp /\ udp'.link = udp.link /\ udp'.status = "up"
          /\ udp'.tried = udp.tried /\ udp'.heard = udp.heard
      BY <2>1, <2>7
    <3> QED BY <1>5, <2>1, <2>7, <3>1 DEF PassKeeps
  <2> QED BY <2>4, <2>5, <2>6, <2>7
<1>6. ASSUME LinkGone, UdpIdle(NoLink(udp), toTcp), backlog' = backlog, udp.status # "none",
             toUdp' = toUdp \/ (udp.status = "up" /\ toUdp' = Clear(toUdp, udp.link))
      PROVE  PassStaysAlone \/ \E d \in Conn : PassOpens(d)
  <2> DEFINE u == NoLink(udp)
  <2>1. u.status = "none" /\ LinkOK(u) /\ UdpIdle(u, toTcp)
    BY <1>3, <1>6
  <2> HIDE DEF u
  <2>2. /\ toTcp' = toTcp
        /\ \/ udp' = u
           \/ \E d \in Conn : /\ Unused(d) /\ udp'.link = d /\ udp'.status = "wait"
                              /\ udp'.sent = u.sent
                              /\ udp'.heard = stale.udp /\ udp'.tried = stale.udp
    BY <2>1, UdpIdleForms
  <2> QED BY <1>3, <1>6, <2>2 DEF PassStaysAlone, PassOpens, u
<1>7. ASSUME udp.status = "up", toUdp[udp.link] # Empty, UdpIdle(Heard(udp), toTcp),
             backlog' = backlog, toUdp' = Clear(toUdp, udp.link)
      PROVE  PassStaysAlone \/ PassKeeps \/ \E d \in Conn : PassOpens(d)
  <2>1. udp.link \in Conn /\ toUdp[udp.link] \in Wire
    BY <1>1, <1>7 DEF LinkOK
  <2>2. CASE toUdp[udp.link].end
    <3>1. Heard(udp) = NoLink(udp)
      BY <1>1, <2>2 DEF Heard, NoLink
    <3>2. LinkGone
      BY <1>7, <2>2 DEF LinkGone
    <3> QED BY <1>6, <1>7, <3>1, <3>2
  <2>3. CASE ~toUdp[udp.link].end
    <3>1. toUdp[udp.link].frames
      BY <1>7, <2>1, <2>3 DEF Empty, Wire
    <3> DEFINE u == Heard(udp)
    <3>2. u = [udp EXCEPT !.heard = stale.udp]
      BY <2>3, <3>1 DEF Heard
    <3>3. /\ LinkOK(u) /\ u.status = "up" /\ u.link = udp.link /\ u.sent = udp.sent
          /\ u.tried = udp.tried /\ u.heard = stale.udp
          /\ u \in [link : Conn \cup {None}, status : {"wait", "up", "none"},
                    heard : Nat, sent : Nat, tried : Nat]
      <4> HIDE DEF u
      <4>1. stale.udp \in Nat
        BY <1>1
      <4> QED BY <1>1, <1>7, <3>2, <4>1 DEF LinkOK
    <3>4. UdpIdle(u, toTcp)
      BY <1>7
    <3> HIDE DEF u
    <3>5. KeepaliveDue(u) = KeepaliveDue(udp) /\ ~LinkSilent(u)
      BY <1>1, <3>3, TunnelAssumption DEF KeepaliveDue, LinkSilent
    <3>6. \/ udp' = u /\ toTcp' = toTcp /\ ~KeepaliveDue(u)
          \/ udp' = [u EXCEPT !.sent = stale.udp] /\ toTcp' = Put(toTcp, u.link)
      BY <3>3, <3>4, <3>5, UdpIdleForms
    <3>7. CASE udp' = u /\ toTcp' = toTcp /\ ~KeepaliveDue(u)
      BY <1>7, <2>3, <3>1, <3>3, <3>5, <3>7 DEF PassKeeps
    <3>8. CASE udp' = [u EXCEPT !.sent = stale.udp] /\ toTcp' = Put(toTcp, u.link)
      <4>1. /\ udp'.sent = stale.udp /\ udp'.link = udp.link /\ udp'.status = "up"
            /\ udp'.tried = udp.tried /\ udp'.heard = stale.udp
        BY <3>3, <3>8
      <4> QED BY <1>7, <2>3, <3>1, <3>3, <3>8, <4>1 DEF PassKeeps
    <3> QED BY <3>6, <3>7, <3>8
  <2> QED BY <2>2, <2>3
<1>8. \/ UdpIdle(udp, toTcp) /\ UNCHANGED <<backlog, toUdp>> /\ (udp.status = "wait" => ~net)
      \/ /\ udp.status = "wait" /\ net /\ UdpIdle(Connected(udp), toTcp)
         /\ backlog' = Append(backlog, udp.link) /\ UNCHANGED toUdp
      \/ /\ udp.status = "wait" /\ ~net /\ UdpIdle(NoLink(udp), toTcp)
         /\ UNCHANGED <<backlog, toUdp>>
      \/ /\ udp.status = "up" /\ toUdp[udp.link] # Empty /\ UdpIdle(Heard(udp), toTcp)
         /\ toUdp' = Clear(toUdp, udp.link) /\ UNCHANGED backlog
  BY DEF UdpPass
<1>9. CASE /\ udp.status = "wait" /\ ~net /\ UdpIdle(NoLink(udp), toTcp)
           /\ UNCHANGED <<backlog, toUdp>>
  BY <1>2, <1>6, <1>9 DEF LinkGone
<1>10. CASE UdpIdle(udp, toTcp) /\ UNCHANGED <<backlog, toUdp>> /\ (udp.status = "wait" => ~net)
  BY <1>2, <1>4, <1>10
<1>11. CASE /\ udp.status = "wait" /\ net /\ UdpIdle(Connected(udp), toTcp)
            /\ backlog' = Append(backlog, udp.link) /\ UNCHANGED toUdp
  BY <1>2, <1>5, <1>11
<1>12. CASE /\ udp.status = "up" /\ toUdp[udp.link] # Empty /\ UdpIdle(Heard(udp), toTcp)
            /\ toUdp' = Clear(toUdp, udp.link) /\ UNCHANGED backlog
  BY <1>2, <1>7, <1>12
<1>13. \/ PassStaysAlone \/ PassGivesUp \/ PassKeeps \/ PassWaits \/ PassDies
       \/ \E d \in Conn : PassOpens(d)
  BY <1>8, <1>9, <1>10, <1>11, <1>12
<1> QED BY <1>2, <1>13

-----------------------------------------------------------------------------
(***************************************************************************)
(* The order of the connections.                                           *)
(***************************************************************************)
\* Whether the link is known, after a step.
LEMMA KnownLink ==
  \A c : c = udp'.link => (Known(udp.link)' <=> Known(c)')
  BY DEF Known, Accepted

\* It does not depend on the ages.
LEMMA SameOrder ==
  ASSUME TypeOK, Order, DOMAIN chans' = DOMAIN chans,
         \A i \in DOMAIN chans : chans'[i].conn = chans[i].conn,
         backlog' = backlog, udp'.link = udp.link, udp'.status = udp.status
  PROVE  Order' /\ \A c : (Known(c)' <=> Known(c)) /\ (Accepted(c)' <=> Accepted(c))
<1>1. \A c : Accepted(c)' <=> Accepted(c)
  BY DEF Accepted
<1>2. \A c : Known(c)' <=> Known(c)
  BY <1>1 DEF Known
<1> QED BY <1>1, <1>2 DEF Order

\* A channel that is closed leaves the others in their order.
LEMMA WithoutOrder ==
  ASSUME TypeOK, Order, NEW i \in DOMAIN chans, chans' = Without(i),
         backlog' = backlog, udp' = udp
  PROVE  /\ Order' /\ Len(chans') = Len(chans) - 1 /\ DOMAIN chans' = 1..(Len(chans) - 1)
         /\ \A k \in DOMAIN chans' : \E j \in DOMAIN chans : j # i /\ chans'[k] = chans[j]
         /\ \A c : Known(c)' <=> Known(c) /\ c # chans[i].conn
         /\ chans[i].conn # udp.link => (HeadIsLink' <=> HeadIsLink)
<1> DEFINE from(k) == IF k < i THEN k ELSE k + 1
<1>1. /\ Len(chans) \in Nat /\ i \in 1..Len(chans) /\ DOMAIN chans = 1..Len(chans)
      /\ chans \in Seq(Channel)
  BY Places DEF TypeOK
<1>2. /\ Len(chans') = Len(chans) - 1 /\ DOMAIN chans' = 1..(Len(chans) - 1)
      /\ \A k \in 1..(Len(chans) - 1) : chans'[k] = chans[from(k)]
  <2> DEFINE front == SubSeq(chans, 1, i - 1)
             back == SubSeq(chans, i + 1, Len(chans))
  <2>1. front \in Seq(Channel) /\ back \in Seq(Channel)
    BY <1>1
  <2>2. /\ Len(front) = i - 1 /\ \A k \in 1..(i - 1) : front[k] = chans[k]
        /\ Len(back) = Len(chans) - i /\ \A k \in 1..(Len(chans) - i) : back[k] = chans[i + k]
    <3>1. Len(front) = i - 1
      BY <1>1
    <3>2. \A k \in 1..(i - 1) : front[k] = chans[k]
      BY <1>1
    <3>3. Len(back) = Len(chans) - i
      BY <1>1
    <3>4. \A k \in 1..(Len(chans) - i) : back[k] = chans[i + k]
      BY <1>1
    <3> QED BY <3>1, <3>2, <3>3, <3>4
  <2>3. chans' = front \o back
    BY DEF Without
  <2> HIDE DEF front, back
  <2>4. Len(chans') = Len(chans) - 1 /\ DOMAIN chans' = 1..(Len(chans) - 1)
    <3>1. chans' \in Seq(Channel) /\ Len(chans') = Len(front) + Len(back)
      BY <2>1, <2>3
    <3>2. DOMAIN chans' = 1..Len(chans')
      BY <3>1
    <3>3. Len(chans') = Len(chans) - 1
      BY <1>1, <2>2, <3>1
    <3> QED BY <3>2, <3>3
  <2>5. ASSUME NEW k \in 1..(Len(chans) - 1) PROVE chans'[k] = chans[from(k)]
    <3>1. CASE k < i
      <4>1. k \in 1..(i - 1) /\ k \in 1..Len(front)
        BY <1>1, <2>2, <3>1
      <4>2. chans'[k] = front[k]
        BY <2>1, <2>3, <4>1
      <4> QED BY <2>2, <3>1, <4>1, <4>2
    <3>2. CASE k >= i
      <4>1. k - (i - 1) \in 1..(Len(chans) - i) /\ chans'[k] = back[k - (i - 1)]
        BY <1>1, <2>1, <2>2, <2>3, <3>2
      <4>2. back[k - (i - 1)] = chans[i + (k - (i - 1))]
        BY <2>2, <4>1
      <4>3. i + (k - (i - 1)) = k + 1 /\ ~(k < i)
        BY <1>1, <3>2
      <4> QED BY <4>1, <4>2, <4>3
    <3> QED BY <1>1, <3>1, <3>2
  <2> QED BY <2>4, <2>5
<1>3. /\ \A k \in 1..(Len(chans) - 1) : from(k) \in 1..Len(chans) /\ from(k) # i
      /\ \A j, k \in 1..(Len(chans) - 1) : from(j) = from(k) => j = k
      /\ \A k \in 1..(Len(chans) - 1) : from(k) = 1 => k = 1
      /\ \A j \in 1..Len(chans) : j # i => \E k \in 1..(Len(chans) - 1) : from(k) = j
  <2>1. ASSUME NEW j \in 1..Len(chans), j # i PROVE \E k \in 1..(Len(chans) - 1) : from(k) = j
    <3>1. CASE j < i
      <4>1. j \in 1..(Len(chans) - 1) /\ from(j) = j
        BY <1>1, <3>1
      <4> QED BY <4>1
    <3>2. CASE j > i
      <4>1. j - 1 \in 1..(Len(chans) - 1) /\ from(j - 1) = j
        BY <1>1, <3>2
      <4> QED BY <4>1
    <3> QED BY <1>1, <2>1, <3>1, <3>2
  <2>2. \A k \in 1..(Len(chans) - 1) : from(k) \in 1..Len(chans) /\ from(k) # i
    BY <1>1
  <2>3. \A j, k \in 1..(Len(chans) - 1) : from(j) = from(k) => j = k
    BY <1>1
  <2>4. \A k \in 1..(Len(chans) - 1) : from(k) = 1 => k = 1
    BY <1>1
  <2> QED BY <2>1, <2>2, <2>3, <2>4
<1> HIDE DEF from
<1>4. \A k \in DOMAIN chans' : \E j \in DOMAIN chans : j # i /\ chans'[k] = chans[j]
  BY <1>1, <1>2, <1>3
<1>5. \A c : Accepted(c)' <=> Accepted(c) /\ c # chans[i].conn
  <2>1. \A c : Accepted(c)' => Accepted(c) /\ c # chans[i].conn
    BY <1>4 DEF Accepted, Order
  <2>2. ASSUME NEW c, Accepted(c), c # chans[i].conn PROVE Accepted(c)'
    <3>1. PICK j \in DOMAIN chans : chans[j].conn = c
      BY <2>2 DEF Accepted
    <3>2. PICK k \in 1..(Len(chans) - 1) : from(k) = j
      BY <1>1, <1>3, <2>2, <3>1
    <3> QED BY <1>2, <3>1, <3>2 DEF Accepted
  <2> QED BY <2>1, <2>2
<1>6. \A c : Known(c)' <=> Known(c) /\ c # chans[i].conn
  BY <1>5 DEF Known, Order
<1>7. Order'
  <2>1. ASSUME NEW j \in DOMAIN chans', NEW k \in DOMAIN chans', chans'[j].conn = chans'[k].conn
        PROVE  j = k
    <3>1. /\ j \in 1..(Len(chans) - 1) /\ chans'[j] = chans[from(j)] /\ from(j) \in DOMAIN chans
          /\ k \in 1..(Len(chans) - 1) /\ chans'[k] = chans[from(k)] /\ from(k) \in DOMAIN chans
      BY <1>1, <1>2, <1>3
    <3>2. from(j) = from(k)
      BY <2>1, <3>1 DEF Order
    <3> QED BY <1>3, <3>1, <3>2
  <2>2. \A j \in DOMAIN chans', k \in DOMAIN backlog' : chans'[j].conn # backlog'[k]
    BY <1>4 DEF Order
  <2>3. (udp.status = "wait" => ~Known(udp.link))'
    BY <1>6, KnownLink DEF Order
  <2>4. ASSUME NEW k \in DOMAIN chans', chans'[k].conn = udp.link
        PROVE  k = 1 /\ backlog' = <<>>
    <3>1. k \in 1..(Len(chans) - 1) /\ chans'[k] = chans[from(k)] /\ from(k) \in DOMAIN chans
      BY <1>1, <1>2, <1>3
    <3>2. from(k) = 1 /\ backlog = <<>>
      BY <2>4, <3>1 DEF Order
    <3> QED BY <1>3, <3>1, <3>2
  <2> QED BY <2>1, <2>2, <2>3, <2>4 DEF Order
<1>8. ASSUME chans[i].conn # udp.link PROVE HeadIsLink' <=> HeadIsLink
  <2>1. ASSUME HeadIsLink PROVE HeadIsLink'
    <3>1. i # 1 /\ Len(chans) > 1
      BY <1>1, <1>8, <2>1 DEF HeadIsLink
    <3>2. from(1) = 1 /\ 1 \in 1..(Len(chans) - 1)
      BY <1>1, <3>1 DEF from
    <3> QED BY <1>2, <2>1, <3>2 DEF HeadIsLink
  <2>2. ASSUME HeadIsLink' PROVE HeadIsLink
    <3>1. 1 \in 1..(Len(chans) - 1)
      BY <1>1, <1>2, <2>2 DEF HeadIsLink
    <3>2. chans[from(1)].conn = udp.link /\ from(1) \in DOMAIN chans
      BY <1>1, <1>2, <1>3, <2>2, <3>1 DEF HeadIsLink
    <3>3. from(1) = 1
      BY <3>2 DEF Order
    <3> QED BY <1>1, <3>2, <3>3 DEF HeadIsLink
  <2> QED BY <2>1, <2>2
<1> QED BY <1>2, <1>4, <1>6, <1>7, <1>8

\* A connection that is accepted is the youngest channel.
LEMMA AcceptOrder ==
  ASSUME TypeOK, Order, TcpAccepts
  PROVE  /\ Order' /\ backlog # <<>> /\ Head(backlog) = backlog[1] /\ 1 \in DOMAIN backlog
         /\ Len(chans') = Len(chans) + 1 /\ DOMAIN chans' = 1..(Len(chans) + 1)
         /\ chans'[1].conn = backlog[1] /\ chans'[1].heard = stale.tcp
         /\ \A k \in DOMAIN chans' : k = 1 \/ (k - 1 \in DOMAIN chans /\ chans'[k] = chans[k - 1])
         /\ \A j \in DOMAIN backlog' : j + 1 \in DOMAIN backlog /\ backlog'[j] = backlog[j + 1]
         /\ Len(backlog') = Len(backlog) - 1
         /\ \A c : Known(c)' <=> Known(c)
<1>1. /\ Len(chans) \in Nat /\ DOMAIN chans = 1..Len(chans) /\ chans \in Seq(Channel)
      /\ Len(backlog) \in Nat /\ DOMAIN backlog = 1..Len(backlog) /\ backlog \in Seq(Conn)
      /\ backlog # <<>> /\ stale.tcp \in Nat /\ udp' = udp
  BY Places DEF TypeOK, TcpAccepts
<1>2. /\ Head(backlog) = backlog[1] /\ 1 \in DOMAIN backlog /\ Len(backlog') = Len(backlog) - 1
      /\ DOMAIN backlog' = 1..(Len(backlog) - 1)
      /\ \A j \in DOMAIN backlog' : j + 1 \in DOMAIN backlog /\ backlog'[j] = backlog[j + 1]
  BY <1>1 DEF TcpAccepts
<1>3. /\ Len(chans') = Len(chans) + 1 /\ DOMAIN chans' = 1..(Len(chans) + 1)
      /\ chans'[1] = [conn |-> backlog[1], heard |-> stale.tcp]
      /\ \A k \in 1..Len(chans) : chans'[k + 1] = chans[k]
  <2> DEFINE x == [conn |-> backlog[1], heard |-> stale.tcp]
  <2>1. x \in Channel
    BY <1>1, <1>2 DEF Channel
  <2>2. chans' = <<x>> \o chans
    BY <1>2 DEF TcpAccepts, Stored
  <2> HIDE DEF x
  <2>3. /\ Len(chans') = Len(chans) + 1 /\ DOMAIN chans' = 1..(Len(chans) + 1)
        /\ chans'[1] = x
        /\ \A k \in 1..Len(chans) : chans'[k + 1] = chans[k]
    BY <1>1, <2>1, <2>2
  <2> QED BY <2>3 DEF x
<1>4. chans'[1].conn = backlog[1] /\ chans'[1].heard = stale.tcp
  BY <1>3
<1>5. \A k \in DOMAIN chans' : k = 1 \/ (k - 1 \in DOMAIN chans /\ chans'[k] = chans[k - 1])
  <2> SUFFICES ASSUME NEW k \in 2..(Len(chans) + 1)
               PROVE  k - 1 \in DOMAIN chans /\ chans'[k] = chans[k - 1]
    BY <1>1, <1>3
  <2>1. k - 1 \in 1..Len(chans) /\ (k - 1) + 1 = k
    BY <1>1
  <2> QED BY <1>1, <1>3, <2>1
<1>6. \A j \in DOMAIN backlog : j = 1 \/ (j - 1 \in DOMAIN backlog' /\ backlog[j] = backlog'[j - 1])
  <2> SUFFICES ASSUME NEW j \in 2..Len(backlog)
               PROVE  j - 1 \in DOMAIN backlog' /\ backlog[j] = backlog'[j - 1]
    BY <1>1
  <2>1. j - 1 \in DOMAIN backlog' /\ (j - 1) + 1 = j
    BY <1>1, <1>2
  <2> QED BY <1>2, <2>1
<1>7. ASSUME NEW c PROVE Known(c)' <=> Known(c)
  <2>1. ASSUME Known(c) PROVE Known(c)'
    <3>1. CASE \E k \in DOMAIN chans : chans[k].conn = c
      <4>1. PICK k \in DOMAIN chans : chans[k].conn = c
        BY <3>1
      <4>2. k + 1 \in DOMAIN chans' /\ chans'[k + 1] = chans[k]
        BY <1>1, <1>3
      <4> QED BY <4>1, <4>2 DEF Known, Accepted
    <3>2. CASE \E j \in DOMAIN backlog : backlog[j] = c
      <4>1. 1 \in DOMAIN chans'
        BY <1>1, <1>3
      <4> QED BY <1>4, <1>6, <3>2, <4>1 DEF Known, Accepted
    <3> QED BY <2>1, <3>1, <3>2 DEF Known, Accepted
  <2>2. ASSUME Known(c)' PROVE Known(c)
    <3>1. CASE \E k \in DOMAIN chans' : chans'[k].conn = c
      BY <1>2, <1>4, <1>5, <3>1 DEF Known, Accepted
    <3>2. CASE \E j \in DOMAIN backlog' : backlog'[j] = c
      BY <1>2, <3>2 DEF Known
    <3> QED BY <2>2, <3>1, <3>2 DEF Known, Accepted
  <2> QED BY <2>1, <2>2
<1>8. Order'
  <2>1. \A j, k \in DOMAIN chans' : chans'[j].conn = chans'[k].conn => j = k
    <3> SUFFICES ASSUME NEW j \in DOMAIN chans', NEW k \in DOMAIN chans',
                        chans'[j].conn = chans'[k].conn
                 PROVE  j = k
      OBVIOUS
    <3>1. j \in Nat /\ k \in Nat
      BY <1>1, <1>3
    <3>2. \A m \in DOMAIN chans : chans[m].conn # backlog[1]
      BY <1>2 DEF Order
    <3>3. j = 1 <=> k = 1
      BY <1>4, <1>5, <3>2
    <3>4. CASE j # 1 /\ k # 1
      <4>1. j - 1 = k - 1
        BY <1>5, <3>4 DEF Order
      <4> QED BY <3>1, <4>1
    <3> QED BY <3>3, <3>4
  <2>2. \A i, j \in DOMAIN backlog' : backlog'[i] = backlog'[j] => i = j
    <3> SUFFICES ASSUME NEW i \in DOMAIN backlog', NEW j \in DOMAIN backlog',
                        backlog'[i] = backlog'[j]
                 PROVE  i = j
      OBVIOUS
    <3>1. i + 1 = j + 1 /\ i \in Nat /\ j \in Nat
      BY <1>1, <1>2 DEF Order
    <3> QED BY <3>1
  <2>3. \A i \in DOMAIN chans', j \in DOMAIN backlog' : chans'[i].conn # backlog'[j]
    <3> SUFFICES ASSUME NEW i \in DOMAIN chans', NEW j \in DOMAIN backlog',
                        chans'[i].conn = backlog'[j]
                 PROVE  FALSE
      OBVIOUS
    <3>1. j + 1 \in DOMAIN backlog /\ backlog'[j] = backlog[j + 1] /\ j \in Nat /\ j # 0
      BY <1>1, <1>2
    <3>2. CASE i = 1
      <4>1. 1 = j + 1
        BY <1>2, <1>4, <3>1, <3>2 DEF Order
      <4> QED BY <3>1, <4>1
    <3>3. CASE i # 1
      BY <1>5, <3>1, <3>3 DEF Order
    <3> QED BY <3>2, <3>3
  <2>4. (udp.status = "wait" => ~Known(udp.link))'
    BY <1>1, <1>7, KnownLink DEF Order
  <2>5. \A i \in DOMAIN chans' : chans'[i].conn = udp'.link => i = 1 /\ backlog' = <<>>
    <3> SUFFICES ASSUME NEW i \in DOMAIN chans', chans'[i].conn = udp.link
                 PROVE  i = 1 /\ backlog' = <<>>
      BY <1>1
    <3>1. i = 1
      BY <1>1, <1>5 DEF Order
    <3>2. 1 = Len(backlog)
      BY <1>2, <1>4, <3>1 DEF Order
    <3>3. backlog' = <<>>
      BY <1>1, <3>2 DEF TcpAccepts
    <3> QED BY <3>1, <3>3
  <2>6. \A j \in DOMAIN backlog' : backlog'[j] = udp'.link => j = Len(backlog')
    <3> SUFFICES ASSUME NEW j \in DOMAIN backlog', backlog'[j] = udp.link
                 PROVE  j = Len(backlog')
      BY <1>1
    <3>1. j + 1 = Len(backlog) /\ j \in Nat
      BY <1>1, <1>2 DEF Order
    <3> QED BY <1>1, <1>2, <3>1
  <2> QED BY <2>1, <2>2, <2>3, <2>4, <2>5, <2>6 DEF Order
<1> QED BY <1>1, <1>2, <1>3, <1>4, <1>5, <1>7, <1>8

-----------------------------------------------------------------------------
(***************************************************************************)
(* The steps in the calm.                                                  *)
(***************************************************************************)
\* The ages and the wires, as the provers take them.
LEMMA Ages ==
  ASSUME TypeOK
  PROVE  /\ udp.heard \in Nat /\ udp.sent \in Nat /\ udp.tried \in Nat
         /\ stale.tcp \in Nat /\ stale.udp \in {0, 1} /\ calm \in Nat
         /\ udp.link \in Conn \cup {None}
         /\ udp.status \in {"wait", "up", "none", "crashed"}
         /\ udp.status \in {"wait", "up"} <=> udp.link \in Conn
         /\ toTcp \in [Conn -> Wire] /\ toUdp \in [Conn -> Wire]
  BY DEF TypeOK

\* The UDP host resets a connection that is not the link.
LEMMA CalmResetByUdpHost ==
  ASSUME TypeOK, Order, Recovering, NEW c \in Conn, ResetByUdpHost(c)
  PROVE  Recovering'
<1>1. /\ UNCHANGED <<udp, chans, backlog, held, stale, net, calm>> /\ c # udp.link
      /\ toUdp[c] # Empty /\ toUdp' = Clear(toUdp, c)
      /\ toTcp' = toTcp \/ toTcp' = End(toTcp, c)
  BY DEF ResetByUdpHost
<1>2. \A d : Known(d)' <=> Known(d)
  BY <1>1 DEF Known, Accepted
<1>3. \A d \in Conn : /\ toTcp'[d].frames <=> toTcp[d].frames
                      /\ toTcp[d].end => toTcp'[d].end
                      /\ toUdp'[d].end => toUdp[d].end
                      /\ d # c => toTcp'[d] = toTcp[d] /\ toUdp'[d] = toUdp[d]
  BY <1>1, Ages DEF Put, End, Clear, Empty, Wire
<1>4. udp.link \in Conn => toTcp'[udp.link] = toTcp[udp.link] /\ toUdp'[udp.link] = toUdp[udp.link]
  BY <1>1, <1>3
<1>5. CalmWires'
  BY <1>1, <1>2, <1>3, <1>4, Ages DEF Recovering, CalmWires
<1>6. HalfOpen'
  BY <1>1, <1>3, Places DEF Recovering, HalfOpen, Old
<1>7. LinkInTime'
  <2>1. udp.status = "up" => (Answered' <=> Answered) /\ (Safe' <=> Safe)
    BY <1>1, <1>2, <1>4, KnownLink, Ages DEF Answered, Safe
  <2> QED BY <1>1, <2>1 DEF Recovering, LinkInTime, Old
<1>8. Late => Late'
  <2>1. \A d \in Conn : Unused(d) => Unused(d)'
    BY <1>1, <1>2, <1>3 DEF Unused
  <2>2. Others' = Others
    BY <1>1 DEF Others, HeadIsLink
  <2> QED BY <1>1, <1>3, <2>1, <2>2 DEF Late
<1> QED BY <1>1, <1>5, <1>6, <1>7, <1>8 DEF Recovering

\* The TCP host resets a connection it does not know; if that was the link, it
\* was not yet safe.
LEMMA CalmResetByTcpHost ==
  ASSUME TypeOK, Order, Recovering, NEW c \in Conn, ResetByTcpHost(c)
  PROVE  Recovering'
<1>1. /\ UNCHANGED <<udp, chans, backlog, held, stale, net, calm>> /\ ~Known(c)
      /\ toTcp[c] # Empty /\ toTcp' = Clear(toTcp, c)
      /\ IF c = udp.link THEN toUdp' = End(toUdp, c) ELSE toUdp' = toUdp
  BY DEF ResetByTcpHost
<1>2. \A d : Known(d)' <=> Known(d)
  BY <1>1 DEF Known, Accepted
<1>3. \A d \in Conn : /\ toTcp'[d].frames => toTcp[d].frames
                      /\ toTcp'[d].end => toTcp[d].end
                      /\ toUdp'[d].end => toUdp[d].end \/ (d = c /\ c = udp.link)
                      /\ toUdp'[d].frames <=> toUdp[d].frames
                      /\ d # c => toTcp'[d] = toTcp[d] /\ toUdp'[d] = toUdp[d]
  BY <1>1, Ages DEF Put, End, Clear, Empty, Wire
<1>4. /\ \A i \in DOMAIN chans : chans[i].conn # c
      /\ \A j \in DOMAIN backlog : backlog[j] # c
  BY <1>1 DEF Known, Accepted
<1>5. udp.status = "wait" => c # udp.link
  BY <1>1 DEF Recovering, CalmWires
<1>6. CalmWires'
  <2>1. \A d \in Conn : toUdp'[d].end => ~Known(d)
    BY <1>1, <1>3 DEF Recovering, CalmWires
  <2>2. udp.status = "wait" => toTcp'[udp.link] = Empty /\ toUdp'[udp.link] = Empty
    BY <1>3, <1>5, Ages DEF Recovering, CalmWires
  <2> QED BY <1>1, <1>2, <1>3, <2>1, <2>2 DEF Recovering, CalmWires
<1>7. HalfOpen'
  BY <1>1, <1>3, <1>4, Places DEF Recovering, HalfOpen, Old
<1>8. LinkInTime'
  <2>1. CASE udp.status = "up" /\ c # udp.link
    <3>1. (Answered' <=> Answered) /\ (Safe' <=> Safe)
      BY <1>1, <1>2, <1>3, <2>1, KnownLink, Ages DEF Answered, Safe
    <3> QED BY <1>1, <2>1, <3>1 DEF Recovering, LinkInTime, Old
  <2>2. CASE udp.status = "up" /\ c = udp.link
    <3>1. toUdp'[c].end
      BY <1>1, <2>2, Ages DEF End, Wire
    <3>2. Answered'
      BY <1>1, <1>4, <2>2, <3>1 DEF Answered
    <3>3. ~Safe
      BY <1>1, <2>2 DEF Safe
    <3> QED BY <1>1, <2>2, <3>2, <3>3 DEF Recovering, LinkInTime, Old
  <2>3. CASE udp.status # "up"
    BY <1>1, <2>3 DEF Recovering, LinkInTime, Old
  <2> QED BY <2>1, <2>2, <2>3
<1>9. Late => Late'
  <2>1. \A d \in Conn : Unused(d) => Unused(d)'
    BY <1>1, <1>2, <1>3 DEF Unused
  <2>2. Others' = Others
    BY <1>1 DEF Others, HeadIsLink
  <2> QED BY <1>1, <1>3, <2>1, <2>2 DEF Late
<1> QED BY <1>1, <1>6, <1>7, <1>8, <1>9 DEF Recovering

\* A datagram of the server goes to a channel.
LEMMA CalmForwards ==
  ASSUME TypeOK, Order, Recovering, NEW c \in Conn, TcpForwards(c)
  PROVE  Recovering'
<1>1. /\ UNCHANGED <<udp, chans, backlog, held, toTcp, stale, net, calm>> /\ Known(c)
      /\ toUdp' = Put(toUdp, c)
  BY DEF TcpForwards, Known
<1>2. \A d : Known(d)' <=> Known(d)
  BY <1>1 DEF Known, Accepted
<1>3. \A d \in Conn : /\ toUdp'[d].end <=> toUdp[d].end
                      /\ toUdp[d].frames => toUdp'[d].frames
                      /\ d # c => toUdp'[d] = toUdp[d]
  BY <1>1, Ages DEF Put, End, Clear, Empty, Wire
<1>4. CalmWires'
  <2>1. udp.status = "wait" => toUdp'[udp.link] = Empty
    BY <1>1, <1>3, Ages DEF Recovering, CalmWires, Order
  <2> QED BY <1>1, <1>2, <1>3, <2>1 DEF Recovering, CalmWires
<1>5. HalfOpen'
  BY <1>1 DEF Recovering, HalfOpen, Old
<1>6. LinkInTime'
  <2>1. udp.status = "up" => (Answered => Answered') /\ (Safe' <=> Safe)
    BY <1>1, <1>2, <1>3, KnownLink, Ages DEF Answered, Safe
  <2> QED BY <1>1, <2>1 DEF Recovering, LinkInTime, Old
<1>7. Late => Late'
  <2>1. \A d \in Conn : Unused(d) => Unused(d)'
    BY <1>1, <1>2, <1>3 DEF Unused
  <2>2. Others' = Others
    BY <1>1 DEF Others, HeadIsLink
  <2> QED BY <1>1, <2>1, <2>2 DEF Late
<1> QED BY <1>1, <1>4, <1>5, <1>6, <1>7 DEF Recovering

\* A frame is answered: on the link, or on a connection about to end.
LEMMA CalmHears ==
  ASSUME TypeOK, Order, Recovering, NEW c \in Conn, TcpHears(c)
  PROVE  Order' /\ Recovering'
<1>1. /\ UNCHANGED <<udp, backlog, held, stale, net, calm>> /\ Accepted(c) /\ Known(c)
      /\ toTcp[c].frames /\ chans' = Stamped(c)
      /\ toTcp' = [toTcp EXCEPT ![c].frames = FALSE] /\ toUdp' = Put(toUdp, c)
  BY DEF TcpHears, Known
<1>2. /\ DOMAIN chans' = DOMAIN chans
      /\ \A i \in DOMAIN chans : /\ chans'[i].conn = chans[i].conn
                                 /\ chans[i].conn = c => chans'[i].heard = stale.tcp
                                 /\ chans[i].conn # c => chans'[i] = chans[i]
  <2>1. \A i \in DOMAIN chans : chans[i] \in Channel
    BY DEF TypeOK
  <2> QED BY <1>1, <2>1 DEF Stamped, Channel
<1>3. Order' /\ \A d : Known(d)' <=> Known(d)
  BY <1>1, <1>2, SameOrder
<1>4. \A d \in Conn : /\ toTcp'[d].frames <=> toTcp[d].frames /\ d # c
                      /\ toTcp'[d].end <=> toTcp[d].end
                      /\ toUdp'[d].end <=> toUdp[d].end
                      /\ toUdp'[d].frames <=> toUdp[d].frames \/ d = c
                      /\ d # c => toTcp'[d] = toTcp[d] /\ toUdp'[d] = toUdp[d]
  BY <1>1, Ages DEF Put, End, Clear, Empty, Wire
<1>5. CalmWires'
  <2>1. udp.status = "wait" => c # udp.link
    BY <1>1 DEF Order
  <2>2. udp.status = "wait" => toTcp'[udp.link] = Empty /\ toUdp'[udp.link] = Empty
    BY <1>4, <2>1, Ages DEF Recovering, CalmWires
  <2> QED BY <1>1, <1>3, <1>4, <2>2 DEF Recovering, CalmWires
<1>6. HalfOpen'
  <2>1. ASSUME NEW i \in DOMAIN chans, chans[i].conn # udp.link, ~toTcp[chans[i].conn].end
        PROVE  chans'[i] = chans[i] /\ ~toTcp'[chans[i].conn].frames
    BY <1>1, <1>2, <1>4, <2>1, Places DEF Recovering, HalfOpen
  <2> QED BY <1>1, <1>2, <1>4, <2>1, Places DEF Recovering, HalfOpen, Old
<1>7. LinkInTime'
  <2>1. CASE udp.status = "up" /\ c # udp.link
    <3>1. \A i \in DOMAIN chans : chans[i].conn = udp.link => chans'[i] = chans[i]
      BY <1>2, <2>1
    <3>2. (Answered => Answered') /\ (Safe => Safe')
      BY <1>1, <1>2, <1>3, <1>4, <2>1, <3>1, KnownLink, Ages DEF Answered, Safe
    <3> QED BY <1>1, <2>1, <3>2 DEF Recovering, LinkInTime, Old
  <2>2. CASE udp.status = "up" /\ c = udp.link
    <3>1. toUdp'[c].frames /\ stale.tcp <= 1 /\ (Known(udp.link))'
      BY <1>1, <1>3, <1>4, <2>2, KnownLink DEF Recovering, CalmWires
    <3>2. stale.tcp <= udp.sent + 1 /\ stale.tcp <= KeepaliveInterval + 3
      BY <3>1, Ages, Numbers
    <3>3. \A i \in DOMAIN chans' :
            chans'[i].conn = udp.link =>
              chans'[i].heard <= udp.sent + 1 /\ chans'[i].heard <= KeepaliveInterval + 3
      BY <1>2, <2>2, <3>2
    <3>4. Answered'
      BY <1>1, <2>2, <3>1, <3>3 DEF Answered
    <3>5. Safe => Safe'
      BY <1>1, <3>1, <3>3 DEF Safe
    <3> QED BY <1>1, <2>2, <3>4, <3>5 DEF Recovering, LinkInTime, Old
  <2>3. CASE udp.status # "up"
    BY <1>1, <2>3 DEF Recovering, LinkInTime, Old
  <2> QED BY <2>1, <2>2, <2>3
<1>8. Late => Late'
  <2>1. \A d \in Conn : Unused(d) => Unused(d)'
    BY <1>1, <1>3, <1>4 DEF Unused
  <2>2. Others' = Others
    <3>1. Len(chans') = Len(chans) /\ (HeadIsLink' <=> HeadIsLink)
      <4>1. chans' \in Seq(Channel)
        BY TypeTcp DEF TypeOK
      <4>2. Len(chans') = Len(chans)
        BY <1>2, <4>1, Places
      <4>3. chans' = <<>> <=> chans = <<>>
        BY <4>1, <4>2, Places
      <4> QED BY <1>1, <1>2, <4>2, <4>3, Places DEF HeadIsLink
    <3> QED BY <3>1 DEF Others
  <2>3. ASSUME Late PROVE \A i \in DOMAIN chans : chans[i].conn # udp.link => chans'[i] = chans[i]
    BY <1>1, <1>2, <2>3 DEF Late
  <2> QED BY <1>1, <1>2, <1>4, <2>1, <2>2, <2>3 DEF Late
<1> QED BY <1>1, <1>3, <1>5, <1>6, <1>7, <1>8 DEF Recovering

\* A channel that is not the link's leaves one half-open channel less.
LEMMA FewerOthers ==
  ASSUME TypeOK, Order, NEW i \in DOMAIN chans, chans' = Without(i),
         backlog' = backlog, udp' = udp, chans[i].conn # udp.link
  PROVE  Others \in Nat /\ Others >= 1 /\ Others' = Others - 1
<1>1. /\ Len(chans) \in Nat /\ i \in 1..Len(chans) /\ Len(chans') = Len(chans) - 1
      /\ HeadIsLink' <=> HeadIsLink
  BY Places, WithoutOrder
<1>2. HeadIsLink => Len(chans) > 1
  BY <1>1 DEF HeadIsLink
<1> QED BY <1>1, <1>2 DEF Others

\* The end of a connection reaches the TCP side: not the end of the link.
LEMMA CalmEnds ==
  ASSUME TypeOK, Order, Recovering, NEW c \in Conn, TcpEnds(c)
  PROVE  Order' /\ Recovering'
<1>1. /\ UNCHANGED <<udp, backlog, held, stale, net, calm>> /\ toTcp[c].end
      /\ toTcp' = Clear(toTcp, c) /\ toUdp' = Clear(toUdp, c)
  BY DEF TcpEnds
<1>2. PICK i \in DOMAIN chans : chans[i].conn = c /\ chans' = Without(i)
  BY DEF TcpEnds
<1>3. c # udp.link
  BY <1>1 DEF Recovering, CalmWires
<1>4. /\ Order' /\ \A d : Known(d)' <=> Known(d) /\ d # c
      /\ \A k \in DOMAIN chans' : \E j \in DOMAIN chans : j # i /\ chans'[k] = chans[j]
  BY <1>1, <1>2, WithoutOrder
<1>5. \A k \in DOMAIN chans' : \E j \in DOMAIN chans : chans'[k] = chans[j] /\ chans[j].conn # c
  BY <1>2, <1>4 DEF Order
<1>6. \A d \in Conn : /\ toTcp'[d].end => toTcp[d].end
                      /\ toTcp'[d].frames => toTcp[d].frames
                      /\ toUdp'[d].end => toUdp[d].end
                      /\ d # c => toTcp'[d] = toTcp[d] /\ toUdp'[d] = toUdp[d]
                      /\ toTcp[d] = Empty => toTcp'[d] = Empty
                      /\ toUdp[d] = Empty => toUdp'[d] = Empty
  BY <1>1, Ages DEF Clear, Empty, Wire
<1>7. CalmWires'
  <2>1. udp.status = "wait" => toTcp'[udp.link] = Empty /\ toUdp'[udp.link] = Empty
    BY <1>3, <1>6, Ages DEF Recovering, CalmWires
  <2> QED BY <1>1, <1>4, <1>6, <2>1 DEF Recovering, CalmWires
<1>8. HalfOpen'
  <2>1. \A j \in DOMAIN backlog : backlog[j] # c
    BY <1>2 DEF Order
  <2>2. ASSUME NEW k \in DOMAIN chans', chans'[k].conn # udp.link, ~toTcp'[chans'[k].conn].end
        PROVE  Old(chans'[k].heard, KeepaliveTimeout) /\ ~toTcp'[chans'[k].conn].frames
    <3>1. PICK j \in DOMAIN chans : chans'[k] = chans[j] /\ chans[j].conn # c
      BY <1>5
    <3>2. toTcp'[chans[j].conn] = toTcp[chans[j].conn]
      BY <1>6, <3>1, Places
    <3> QED BY <2>2, <3>1, <3>2 DEF Recovering, HalfOpen
  <2>3. \A j \in DOMAIN backlog : toTcp'[backlog[j]] = toTcp[backlog[j]]
    BY <1>6, <2>1, Places
  <2> QED BY <1>1, <2>2, <2>3 DEF Recovering, HalfOpen, Old
<1>9. LinkInTime'
  <2>1. udp.status = "up" => (Answered => Answered') /\ (Safe => Safe')
    <3>1. udp.status = "up" => toTcp'[udp.link] = toTcp[udp.link] /\ toUdp'[udp.link] = toUdp[udp.link]
      BY <1>3, <1>6, Ages
    <3>2. Known(udp.link) => Known(udp.link)'
      BY <1>1, <1>3, <1>4, KnownLink
    <3> QED BY <1>1, <1>5, <3>1, <3>2 DEF Answered, Safe
  <2> QED BY <1>1, <2>1 DEF Recovering, LinkInTime, Old
<1>10. Late => Late'
  <2>1. \A d \in Conn : Unused(d) => Unused(d)'
    BY <1>1, <1>4, <1>6 DEF Unused
  <2>2. Others \in Nat /\ Others >= 1 /\ Others' = Others - 1
    BY <1>1, <1>2, <1>3, FewerOthers
  <2>3. ASSUME Late
        PROVE  Others' = 0 \/ Others' + calm + 1 <= Cardinality(Conn) + KeepaliveTimeout + 2 + stale.tcp
    <3>1. Others + calm + 1 <= Cardinality(Conn) + KeepaliveTimeout + 2 + stale.tcp
      BY <2>2, <2>3 DEF Late
    <3> HIDE DEF Others
    <3> QED BY <2>2, <3>1, Numbers, Ages
  <2> QED BY <1>1, <1>5, <1>6, <2>1, <2>3 DEF Late
<1> QED BY <1>1, <1>4, <1>7, <1>8, <1>9, <1>10 DEF Recovering

\* service_idle_cb looks at the tail of the table.  The channel it closes is
\* the link's only before the first keepalive of the calm; and when nothing is
\* closed late in the calm there is nothing half open left.
LEMMA CalmTcpIdle ==
  ASSUME TypeOK, Order, Recovering, TcpIdle
  PROVE  Order' /\ Recovering'
<1>1. /\ UNCHANGED <<udp, backlog, held, toTcp, net, calm>>
      /\ stale'.tcp = 0 /\ stale'.udp = stale.udp
  BY DEF TcpIdle, TypeOK
<1> DEFINE i == Len(chans)
           c == TailChannel.conn
           closes == chans # <<>> /\ TailChannel.heard - stale.tcp > KeepaliveTimeout
<1>2. chans # <<>> => /\ i \in DOMAIN chans /\ c = chans[i].conn /\ c \in Conn
                      /\ TailChannel.heard = chans[i].heard /\ chans[i].heard \in Nat
  BY Places DEF TailChannel
<1>3. ASSUME ~closes PROVE Order' /\ Recovering'
  <2>1. UNCHANGED <<chans, toUdp>>
    BY <1>3 DEF TcpIdle
  <2>2. Order' /\ \A d : (Known(d)' <=> Known(d))
    BY <1>1, <2>1, SameOrder
  <2>3. CalmWires' /\ HalfOpen'
    BY <1>1, <2>1, <2>2 DEF Recovering, CalmWires, HalfOpen, Old
  <2>4. LinkInTime'
    <3>1. (Answered => Answered') /\ (Safe => Safe')
      BY <1>1, <2>1, <2>2, KnownLink DEF Answered, Safe
    <3> QED BY <1>1, <3>1 DEF Recovering, LinkInTime, Old
  <2>5. ASSUME Late PROVE Late'
    <3>1. \A d \in Conn : Unused(d) => Unused(d)'
      BY <1>1, <2>1, <2>2 DEF Unused
    <3>2. Others' = Others
      BY <1>1, <2>1 DEF Others, HeadIsLink
    <3>3. Others = 0
      <4>1. CASE chans = <<>>
        BY <4>1, Places DEF Others, HeadIsLink
      <4>2. CASE chans # <<>>
        <5>1. stale.tcp \in Nat /\ stale.tcp <= 1
          BY Ages DEF Recovering, CalmWires
        <5>2. chans[i].conn = udp.link
          <6>1. SUFFICES ASSUME chans[i].conn # udp.link PROVE FALSE
            OBVIOUS
          <6>2. chans[i].heard >= KeepaliveTimeout + 2 /\ chans[i].heard \in Nat
            BY <1>2, <2>5, <4>2, <6>1 DEF Late
          <6>3. ~(chans[i].heard - stale.tcp > KeepaliveTimeout)
            BY <1>2, <1>3, <4>2
          <6> QED BY <5>1, <6>2, <6>3, Numbers
        <5>3. i = 1
          BY <1>2, <4>2, <5>2 DEF Order
        <5> QED BY <4>2, <5>2, <5>3 DEF Others, HeadIsLink
      <4> QED BY <4>1, <4>2
    <3> HIDE DEF Others
    <3> QED BY <1>1, <2>1, <2>5, <3>1, <3>2, <3>3 DEF Late
  <2> QED BY <1>1, <2>2, <2>3, <2>4, <2>5 DEF Recovering
<1>4. ASSUME closes PROVE Order' /\ Recovering'
  <2>1. /\ chans' = Without(i) /\ toUdp' = End(toUdp, c)
        /\ i \in DOMAIN chans /\ c = chans[i].conn /\ c \in Conn
        /\ chans[i].heard \in Nat /\ chans[i].heard - stale.tcp > KeepaliveTimeout
    BY <1>2, <1>4 DEF TcpIdle
  <2> HIDE DEF i, c, closes
  <2>2. /\ Order' /\ \A d : Known(d)' <=> Known(d) /\ d # c
        /\ \A k \in DOMAIN chans' : \E j \in DOMAIN chans : j # i /\ chans'[k] = chans[j]
    BY <1>1, <2>1, WithoutOrder
  <2>3. \A k \in DOMAIN chans' : \E j \in DOMAIN chans : chans'[k] = chans[j] /\ chans[j].conn # c
    BY <2>1, <2>2 DEF Order
  <2>4. \A d \in Conn : /\ toUdp'[d].end <=> toUdp[d].end \/ d = c
                        /\ toUdp'[d].frames <=> toUdp[d].frames
                        /\ d # c => toUdp'[d] = toUdp[d]
    BY <2>1, Ages DEF End, Wire
  <2>5. Accepted(c) /\ Known(c)
    BY <2>1 DEF Accepted, Known
  <2>6. CalmWires'
    <3>1. udp.status = "wait" => toUdp'[udp.link] = Empty
      <4>1. udp.status = "wait" => udp.link # c
        BY <2>5 DEF Order
      <4> QED BY <2>4, <4>1, Ages DEF Recovering, CalmWires
    <3>2. stale'.tcp <= 1
      BY <1>1
    <3> QED BY <1>1, <2>2, <2>4, <3>1, <3>2 DEF Recovering, CalmWires
  <2>7. HalfOpen'
    BY <1>1, <2>3 DEF Recovering, HalfOpen, Old
  <2>8. CASE c = udp.link
    <3>1. udp.status = "up"
      BY <2>1, <2>5, <2>8, Ages DEF Order
    <3>2. ~Safe
      <4>1. chans[i].heard > KeepaliveInterval + 3
        BY <2>1, Numbers, Ages
      <4>2. ~(chans[i].heard <= KeepaliveInterval + 3)
        BY <2>1, <4>1, Numbers
      <4> QED BY <2>1, <2>8, <4>2 DEF Safe
    <3>3. Old(udp.tried, ReconnectInterval) /\ ~(calm >= KeepaliveInterval + 3)
      BY <3>1, <3>2 DEF Recovering, LinkInTime
    <3>4. Answered'
      <4>1. \A k \in DOMAIN chans' : chans'[k].conn # udp.link
        BY <2>3, <2>8
      <4>2. toUdp'[udp.link].end
        BY <2>1, <2>4, <2>8
      <4> QED BY <1>1, <4>1, <4>2 DEF Answered
    <3>5. LinkInTime'
      BY <1>1, <3>1, <3>3, <3>4 DEF Recovering, LinkInTime, Old
    <3>6. ~(calm >= KeepaliveTimeout + 2)
      BY <3>3, Numbers, Ages
    <3> QED BY <1>1, <2>2, <2>6, <2>7, <3>5, <3>6 DEF Recovering
  <2>9. CASE c # udp.link
    <3>1. LinkInTime'
      <4>1. udp.status = "up" => toUdp'[udp.link] = toUdp[udp.link]
        BY <2>4, <2>9, Ages
      <4>2. Known(udp.link) => Known(udp.link)'
        BY <1>1, <2>2, <2>9, KnownLink
      <4>3. udp.status = "up" => (Answered => Answered') /\ (Safe => Safe')
        BY <1>1, <2>3, <4>1, <4>2 DEF Answered, Safe
      <4> QED BY <1>1, <4>3 DEF Recovering, LinkInTime, Old
    <3>2. ASSUME Late PROVE Late'
      <4>1. \A d \in Conn : Unused(d) => Unused(d)'
        BY <1>1, <2>2, <2>4, <2>5 DEF Unused
      <4>2. Others \in Nat /\ Others >= 1 /\ Others' = Others - 1
        BY <1>1, <2>1, <2>9, FewerOthers
      <4>3. Others' = 0 \/ Others' + calm + 1 <= Cardinality(Conn) + KeepaliveTimeout + 2 + stale'.tcp
        <5>1. Others + calm + 1 <= Cardinality(Conn) + KeepaliveTimeout + 2 + stale.tcp
          BY <3>2, <4>2 DEF Late
        <5>2. stale.tcp <= 1
          BY DEF Recovering, CalmWires
        <5> HIDE DEF Others
        <5> QED BY <1>1, <4>2, <5>1, <5>2, Numbers, Ages
      <4> QED BY <1>1, <2>3, <3>2, <4>1, <4>3 DEF Late
    <3> QED BY <1>1, <2>2, <2>6, <2>7, <3>1, <3>2 DEF Recovering
  <2> QED BY <2>8, <2>9
<1> QED BY <1>3, <1>4

\* A connection is accepted: the link, or one that is about to end.
LEMMA CalmAccepts ==
  ASSUME TypeOK, Order, SentInTime, Recovering, TcpAccepts
  PROVE  Order' /\ Recovering'
<1>1. UNCHANGED <<udp, held, toTcp, toUdp, stale, net, calm>>
  BY DEF TcpAccepts
<1>2. /\ Order' /\ 1 \in DOMAIN backlog /\ DOMAIN chans' = 1..(Len(chans) + 1)
      /\ Len(chans') = Len(chans) + 1 /\ chans'[1].conn = backlog[1] /\ chans'[1].heard = stale.tcp
      /\ \A k \in DOMAIN chans' : k = 1 \/ (k - 1 \in DOMAIN chans /\ chans'[k] = chans[k - 1])
      /\ \A j \in DOMAIN backlog' : j + 1 \in DOMAIN backlog /\ backlog'[j] = backlog[j + 1]
      /\ Len(backlog') = Len(backlog) - 1 /\ backlog # <<>>
      /\ \A d : Known(d)' <=> Known(d)
  BY AcceptOrder
<1>3. stale.tcp <= 1 /\ stale.tcp \in Nat
  BY Ages DEF Recovering, CalmWires
<1>4. CalmWires'
  BY <1>1, <1>2 DEF Recovering, CalmWires
<1>5. HalfOpen'
  <2>1. ASSUME NEW k \in DOMAIN chans', chans'[k].conn # udp.link, ~toTcp[chans'[k].conn].end
        PROVE  Old(chans'[k].heard, KeepaliveTimeout) /\ ~toTcp[chans'[k].conn].frames
    <3>1. k # 1
      BY <1>2, <2>1 DEF Recovering, HalfOpen
    <3> QED BY <1>2, <2>1, <3>1 DEF Recovering, HalfOpen
  <2>2. \A j \in DOMAIN backlog' : backlog'[j] # udp.link => toTcp[backlog'[j]].end
    BY <1>2 DEF Recovering, HalfOpen
  <2> QED BY <1>1, <2>1, <2>2 DEF HalfOpen, Old
<1>6. LinkInTime'
  <2>1. Known(udp.link)' <=> Known(udp.link)
    BY <1>1, <1>2, KnownLink
  <2>2. Answered => Answered'
    <3>1. stale.tcp <= udp.sent + 1
      BY <1>3, Ages
    <3> QED BY <1>1, <1>2, <2>1, <3>1 DEF Answered
  <2>3. Safe => Safe'
    <3>1. stale.tcp <= KeepaliveInterval + 3
      BY <1>3, Numbers
    <3> QED BY <1>1, <1>2, <2>1, <3>1 DEF Safe
  <2> QED BY <1>1, <2>2, <2>3 DEF Recovering, LinkInTime, Old
<1>7. ASSUME Late PROVE Late'
  <2>1. udp.status = "up" /\ backlog = <<udp.link>> /\ ~(calm >= KeepaliveTimeout + 4)
    BY <1>2, <1>7 DEF Late
  <2>2. backlog' = <<>> /\ chans'[1].conn = udp.link
    BY <1>2, <2>1 DEF TcpAccepts
  <2>3. Others' = Len(chans) /\ Others = Len(chans)
    <3>1. \A k \in DOMAIN chans : chans[k].conn # udp.link
      BY <1>2, <2>1 DEF Order
    <3>2. ~HeadIsLink
      BY <3>1, Places DEF HeadIsLink
    <3>3. HeadIsLink'
      BY <1>1, <1>2, <2>2 DEF HeadIsLink
    <3> QED BY <1>2, <3>2, <3>3, Places DEF Others
  <2> HIDE DEF Others
  <2> QED BY <1>1, <1>2, <1>7, <2>1, <2>2, <2>3 DEF Late
<1> QED BY <1>1, <1>2, <1>4, <1>5, <1>6, <1>7 DEF Recovering

\* A link that comes up is the last to wait for accept().
LEMMA AppendOrder ==
  ASSUME TypeOK, Order, udp.status = "wait", UNCHANGED chans, backlog' = Append(backlog, udp.link)
  PROVE  /\ Len(backlog') = Len(backlog) + 1 /\ DOMAIN backlog' = 1..(Len(backlog) + 1)
         /\ backlog'[Len(backlog) + 1] = udp.link
         /\ \A j \in DOMAIN backlog' :
              j = Len(backlog) + 1 \/ (j \in DOMAIN backlog /\ backlog'[j] = backlog[j])
         /\ \A i, j \in DOMAIN backlog' : backlog'[i] = backlog'[j] => i = j
         /\ \A i \in DOMAIN chans, j \in DOMAIN backlog' : chans[i].conn # backlog'[j]
         /\ \A d : Known(d)' <=> Known(d) \/ d = udp.link
<1>1. /\ Len(backlog) \in Nat /\ DOMAIN backlog = 1..Len(backlog) /\ backlog \in Seq(Conn)
      /\ udp.link \in Conn
  BY Places, Ages DEF TypeOK
<1>2. /\ Len(backlog') = Len(backlog) + 1 /\ DOMAIN backlog' = 1..(Len(backlog) + 1)
      /\ backlog'[Len(backlog) + 1] = udp.link
      /\ \A j \in DOMAIN backlog : j \in DOMAIN backlog' /\ backlog'[j] = backlog[j]
  BY <1>1
<1>3. \A j \in DOMAIN backlog' :
        j = Len(backlog) + 1 \/ (j \in DOMAIN backlog /\ backlog'[j] = backlog[j])
  BY <1>1, <1>2
<1>4. /\ \A i \in DOMAIN chans : chans[i].conn # udp.link
      /\ \A j \in DOMAIN backlog : backlog[j] # udp.link
  BY DEF Order, Known, Accepted
<1>5. \A i, j \in DOMAIN backlog' : backlog'[i] = backlog'[j] => i = j
  BY <1>2, <1>3, <1>4 DEF Order
<1>6. \A i \in DOMAIN chans, j \in DOMAIN backlog' : chans[i].conn # backlog'[j]
  BY <1>2, <1>3, <1>4 DEF Order
<1>7. \A d : Known(d)' <=> Known(d) \/ d = udp.link
  <2>1. Len(backlog) + 1 \in DOMAIN backlog'
    BY <1>1, <1>2
  <2> QED BY <1>2, <1>3, <2>1 DEF Known, Accepted
<1> QED BY <1>2, <1>3, <1>5, <1>6, <1>7

\* What is known after a pass of the UDP side.
LEMMA PassKnown ==
  ASSUME TypeOK, Order, UNCHANGED chans,
         backlog' = backlog \/ (udp.status = "wait" /\ backlog' = Append(backlog, udp.link))
  PROVE  \A d : Known(d)' <=> Known(d) \/ (d = udp.link /\ backlog' # backlog)
<1>1. CASE backlog' = backlog
  BY <1>1 DEF Known, Accepted
<1>2. CASE backlog' # backlog
  BY <1>2, AppendOrder
<1> QED BY <1>1, <1>2

\* A pass of the UDP side keeps the order: it opens nothing that is known, and
\* what comes up is the last to wait.
LEMMA PassOrder ==
  ASSUME TypeOK, Order, UdpPass
  PROVE  Order'
<1>1. UNCHANGED chans
  BY DEF UdpPass
<1> DEFINE appended == udp.status = "wait" /\ backlog' = Append(backlog, udp.link)
<1>2. ASSUME backlog' = backlog \/ appended
      PROVE  /\ \A i, j \in DOMAIN chans' : chans'[i].conn = chans'[j].conn => i = j
             /\ \A i, j \in DOMAIN backlog' : backlog'[i] = backlog'[j] => i = j
             /\ \A i \in DOMAIN chans', j \in DOMAIN backlog' : chans'[i].conn # backlog'[j]
             /\ \A i \in DOMAIN chans' : chans'[i].conn \in Conn
             /\ \A j \in DOMAIN backlog' : backlog'[j] \in Conn
  <2>1. backlog' \in Seq(Conn)
    BY TypeUdpPass DEF TypeOK
  <2>2. /\ \A i, j \in DOMAIN backlog' : backlog'[i] = backlog'[j] => i = j
        /\ \A i \in DOMAIN chans, j \in DOMAIN backlog' : chans[i].conn # backlog'[j]
    <3>1. CASE backlog' = backlog
      BY <3>1 DEF Order
    <3>2. CASE appended
      BY <1>1, <3>2, AppendOrder
    <3> QED BY <1>2, <3>1, <3>2
  <2> QED BY <1>1, <2>1, <2>2, Places DEF Order
<1>3. ASSUME backlog' = backlog \/ appended, udp'.link = None, udp'.status # "wait" PROVE Order'
  BY <1>2, <1>3, Numbers DEF Order
<1>4. CASE PassStaysAlone
  BY <1>3, <1>4 DEF PassStaysAlone
<1>5. CASE PassGivesUp
  BY <1>3, <1>5 DEF PassGivesUp
<1>6. CASE PassDies
  BY <1>3, <1>6 DEF PassDies
<1>7. CASE PassWaits
  BY <1>1, <1>7, SameOrder DEF PassWaits
<1>8. ASSUME NEW d \in Conn, PassOpens(d) PROVE Order'
  <2>1. backlog' = backlog /\ udp'.link = d /\ ~Known(d)
    BY <1>8 DEF PassOpens, Unused
  <2>2. ~Known(udp.link)'
    BY <1>1, <2>1, PassKnown, KnownLink
  <2>3. /\ \A i \in DOMAIN chans : chans[i].conn # d
        /\ \A j \in DOMAIN backlog : backlog[j] # d
    BY <2>1 DEF Known, Accepted
  <2> QED BY <1>1, <1>2, <2>1, <2>2, <2>3 DEF Order
<1>9. CASE PassKeeps
  <2>1. /\ udp'.link = udp.link /\ udp'.status = "up"
        /\ (udp.status = "up" /\ backlog' = backlog) \/ appended
    BY <1>9 DEF PassKeeps
  <2>2. CASE backlog' = backlog
    BY <1>1, <1>2, <2>1, <2>2 DEF Order
  <2>3. CASE appended
    <3>1. \A i \in DOMAIN chans : chans[i].conn # udp.link
      BY <2>3 DEF Order, Known, Accepted
    <3>2. \A j \in DOMAIN backlog' : backlog'[j] = udp.link => j = Len(backlog')
      BY <1>1, <2>3, AppendOrder DEF Order, Known
    <3> QED BY <1>1, <1>2, <2>1, <2>3, <3>1, <3>2 DEF Order
  <2> QED BY <2>1, <2>2, <2>3
<1> QED BY <1>4, <1>5, <1>6, <1>7, <1>8, <1>9, PassForms

\* It sends a keepalive that is due.
LEMMA PassSends ==
  ASSUME TypeOK, SentInTime, UdpPass
  PROVE  SentInTime'
<1>1. /\ stale'.udp = 0 /\ udp.sent \in Nat /\ stale.udp \in {0, 1} /\ KeepaliveInterval \in Nat
      /\ udp'.sent \in Nat
  BY PassForms, TypeUdpPass, Ages, Numbers DEF TypeOK
<1>2. udp.status # "crashed" /\ udp.sent <= KeepaliveInterval + 2
  BY DEF UdpPass, SentInTime
<1>3. CASE PassStaysAlone \/ PassGivesUp \/ PassDies \/ PassWaits \/ \E d \in Conn : PassOpens(d)
  BY <1>1, <1>2, <1>3 DEF SentInTime, PassStaysAlone, PassGivesUp, PassDies, PassWaits, PassOpens
<1>4. CASE PassKeeps
  <2>1. udp'.sent <= KeepaliveInterval + 1
    <3>1. CASE udp'.sent = stale.udp
      BY <1>1, <3>1
    <3>2. CASE udp'.sent = udp.sent /\ ~KeepaliveDue(udp)
      BY <1>1, <3>2 DEF KeepaliveDue
    <3> QED BY <1>4, <3>1, <3>2 DEF PassKeeps
  <2> QED BY <1>1, <2>1 DEF SentInTime
<1> QED BY <1>3, <1>4, PassForms

\* What a pass without a live link finds in the calm: no channel of the old
\* link, which was not safe; late in the calm it had none to lose.
LEMMA CalmLinkGone ==
  ASSUME TypeOK, Order, Recovering, LinkGone
  PROVE  /\ udp.status \in {"none", "up"} /\ Old(udp.tried, ReconnectInterval)
         /\ \A i \in DOMAIN chans : chans[i].conn # udp.link
         /\ \A j \in DOMAIN backlog : backlog[j] # udp.link
         /\ calm >= KeepaliveTimeout + 2 => udp.status = "none" /\ udp.link = None
<1>1. net
  BY DEF Recovering, CalmWires
<1>2. CASE udp.status = "none"
  <2>1. udp.link = None
    BY <1>2, Ages
  <2> QED BY <1>2, <2>1, Places, Numbers DEF Recovering, LinkInTime
<1>3. CASE udp.status = "up" /\ toUdp[udp.link].end
  <2>1. ~Known(udp.link)
    BY <1>3, Ages DEF Recovering, CalmWires
  <2>2. ~Safe
    BY <2>1 DEF Safe
  <2>3. Old(udp.tried, ReconnectInterval) /\ ~(calm >= KeepaliveInterval + 3)
    BY <1>3, <2>2 DEF Recovering, LinkInTime
  <2> QED BY <1>3, <2>1, <2>3, Numbers, Ages DEF Known, Accepted
<1> QED BY <1>1, <1>2, <1>3 DEF LinkGone

\* Without a link, or with one that is just opened, the wires and the half-open
\* channels are as before.
LEMMA CalmNewLink ==
  ASSUME TypeOK, Order, Recovering, LinkGone, UNCHANGED <<chans, backlog, held, net, calm, toTcp>>,
         stale'.tcp = stale.tcp,
         toUdp' = toUdp \/ (udp.status = "up" /\ toUdp' = Clear(toUdp, udp.link)),
         \/ udp'.link = None /\ udp'.status = "none"
         \/ udp'.link \in Conn /\ Unused(udp'.link) /\ udp'.status = "wait"
  PROVE  /\ CalmWires' /\ HalfOpen'
         /\ calm >= KeepaliveTimeout + 2 => Others' = Others /\ toUdp' = toUdp
         /\ \A d : Known(d)' <=> Known(d)
<1>1. \A d : Known(d)' <=> Known(d)
  BY DEF Known, Accepted
<1>2. \A d \in Conn : /\ toUdp'[d].end => toUdp[d].end
                      /\ toUdp[d] = Empty => toUdp'[d] = Empty
  <2>1. CASE toUdp' = toUdp
    BY <2>1
  <2>2. CASE udp.status = "up" /\ toUdp' = Clear(toUdp, udp.link)
    <3>1. udp.link \in Conn
      BY <2>2, Ages
    <3> QED BY <2>2, <3>1, Ages DEF Clear, Empty, Wire
  <2> QED BY <2>1, <2>2
<1>3. CalmWires'
  BY <1>1, <1>2, Numbers DEF Recovering, CalmWires, Unused, Empty
<1>4. HalfOpen'
  BY CalmLinkGone DEF Recovering, HalfOpen, Old
<1>5. ASSUME calm >= KeepaliveTimeout + 2 PROVE Others' = Others /\ toUdp' = toUdp
  <2>1. udp.status = "none" /\ \A i \in DOMAIN chans : chans[i].conn # udp.link
    BY <1>5, CalmLinkGone
  <2>2. \A i \in DOMAIN chans : chans[i].conn # udp'.link
    BY Places, Numbers DEF Unused, Known, Accepted
  <2>3. ~HeadIsLink /\ ~HeadIsLink'
    BY <2>1, <2>2, Places DEF HeadIsLink
  <2> QED BY <2>1, <2>3 DEF Others
<1> QED BY <1>1, <1>3, <1>4, <1>5

\* A link is opened in the calm: its timer starts with it.
LEMMA CalmOpens ==
  ASSUME TypeOK, Order, SentInTime, Recovering, UdpPass, NEW d \in Conn, PassOpens(d)
  PROVE  Recovering'
<1>1. /\ LinkGone /\ UNCHANGED <<chans, backlog, held, net, calm, toTcp>> /\ Unused(d)
      /\ stale'.tcp = stale.tcp /\ udp'.link = d /\ udp'.status = "wait"
      /\ toUdp' = toUdp \/ (udp.status = "up" /\ toUdp' = Clear(toUdp, udp.link))
      /\ udp'.heard = stale.udp /\ udp'.sent = udp.sent
  BY PassForms DEF PassOpens
<1>2. /\ CalmWires' /\ HalfOpen'
      /\ calm >= KeepaliveTimeout + 2 => Others' = Others /\ toUdp' = toUdp
      /\ \A e : Known(e)' <=> Known(e)
  BY <1>1, CalmNewLink
<1>3. LinkInTime'
  <2>1. stale.udp <= 1 /\ stale.udp <= udp.sent
    BY Ages DEF SentInTime
  <2> QED BY <1>1, <2>1 DEF LinkInTime
<1>4. ASSUME calm >= KeepaliveTimeout + 2, Late PROVE Late'
  <2>1. /\ udp.status = "none" /\ udp.link = None
        /\ \A i \in DOMAIN chans : chans[i].conn # udp.link
    BY <1>1, <1>4, CalmLinkGone
  <2>2. backlog = <<>> /\ ~(calm >= KeepaliveTimeout + 4)
    BY <1>4, <2>1 DEF Late
  <2>3. \A c \in Conn : ~toTcp[c].frames
    BY <1>4, <2>1, Numbers DEF Late
  <2> HIDE DEF Others
  <2> QED BY <1>1, <1>2, <1>4, <2>1, <2>2, <2>3 DEF Late
<1> QED BY <1>1, <1>2, <1>3, <1>4 DEF Recovering

\* Without a link the UDP side waits for the time to connect, which has come
\* late in the calm.
LEMMA CalmStaysAlone ==
  ASSUME TypeOK, Order, Recovering, UdpPass, PassStaysAlone
  PROVE  Recovering'
<1>1. /\ LinkGone /\ UNCHANGED <<chans, backlog, held, net, calm, toTcp>>
      /\ stale'.tcp = stale.tcp /\ udp'.link = None /\ udp'.status = "none"
      /\ toUdp' = toUdp \/ (udp.status = "up" /\ toUdp' = Clear(toUdp, udp.link))
      /\ udp'.tried = udp.tried
      /\ udp.status = "none" => ~ReconnectDue(udp) \/ \A c \in Conn : ~Unused(c)
  BY PassForms DEF PassStaysAlone
<1>2. /\ CalmWires' /\ HalfOpen'
      /\ calm >= KeepaliveTimeout + 2 => Others' = Others /\ toUdp' = toUdp
      /\ \A e : Known(e)' <=> Known(e)
  BY <1>1, CalmNewLink
<1>3. Old(udp.tried, ReconnectInterval)
  BY <1>1, CalmLinkGone
<1>4. LinkInTime'
  BY <1>1, <1>3 DEF LinkInTime, Old
<1>5. ASSUME calm >= KeepaliveTimeout + 2, Late PROVE Late'
  <2>1. /\ udp.status = "none" /\ udp.link = None
        /\ \A i \in DOMAIN chans : chans[i].conn # udp.link
    BY <1>1, <1>5, CalmLinkGone
  <2>2. backlog = <<>> /\ ~(calm >= KeepaliveTimeout + 4)
    BY <1>5, <2>1 DEF Late
  <2>3. ~(calm >= KeepaliveTimeout + 3)
    <3>1. SUFFICES ASSUME calm >= KeepaliveTimeout + 3 PROVE FALSE
      OBVIOUS
    <3>2. stale.udp = 1 /\ calm = KeepaliveTimeout + 3 /\ \E c \in Conn : Unused(c)
      BY <1>5, <2>1, <3>1 DEF Late
    <3>3. udp.tried >= ReconnectInterval + 2
      BY <1>3, <3>2, Numbers, Ages DEF Old
    <3>4. ReconnectDue(udp)
      BY <3>2, <3>3, Numbers, Ages DEF ReconnectDue
    <3> QED BY <1>1, <2>1, <3>2, <3>4
  <2> HIDE DEF Others
  <2> QED BY <1>1, <1>2, <1>5, <2>1, <2>2, <2>3 DEF Late
<1> QED BY <1>1, <1>2, <1>4, <1>5 DEF Recovering

\* The link is given up for its silence only early in the calm, if it is older.
LEMMA CalmGivesUp ==
  ASSUME TypeOK, Order, Recovering, UdpPass, PassGivesUp
  PROVE  Recovering'
<1>1. /\ UNCHANGED <<chans, held, net, calm>> /\ stale'.tcp = stale.tcp
      /\ udp.status \in {"wait", "up"} /\ LinkSilent(udp) /\ toUdp' = toUdp
      /\ udp'.link = None /\ udp'.status = "none" /\ udp'.tried = udp.tried
      /\ backlog' = backlog \/ udp.status = "wait"
      /\ toTcp' = End(toTcp, udp.link) \/ (udp.status = "wait" /\ ~net)
  BY PassForms DEF PassGivesUp
<1>2. udp.heard > KeepaliveInterval + 2 /\ udp.heard > 1
  BY <1>1, Numbers, Ages DEF LinkSilent
<1>3. udp.status = "up"
  BY <1>1, <1>2, Ages DEF Recovering, LinkInTime
<1>4. Old(udp.tried, ReconnectInterval) /\ ~(calm >= KeepaliveInterval + 3)
  <2>1. ~Safe
    BY <1>2, Numbers, Ages DEF Safe
  <2> QED BY <1>3, <2>1 DEF Recovering, LinkInTime
<1>5. toTcp' = End(toTcp, udp.link) /\ backlog' = backlog /\ udp.link \in Conn
  BY <1>1, <1>3, Ages
<1>6. \A d \in Conn : /\ toTcp'[d].end <=> toTcp[d].end \/ d = udp.link
                      /\ toTcp'[d].frames <=> toTcp[d].frames
  BY <1>5, Ages DEF End, Wire
<1>7. \A d : Known(d)' <=> Known(d)
  BY <1>1, <1>5 DEF Known, Accepted
<1>8. CalmWires'
  BY <1>1, <1>7, Numbers DEF Recovering, CalmWires
<1>9. HalfOpen'
  BY <1>1, <1>5, <1>6, Places DEF Recovering, HalfOpen, Old
<1>10. LinkInTime'
  BY <1>1, <1>4 DEF LinkInTime, Old
<1>11. ~(calm >= KeepaliveTimeout + 2)
  BY <1>4, Numbers, Ages
<1> QED BY <1>1, <1>8, <1>9, <1>10, <1>11 DEF Recovering

\* A link that comes up or stays up: a keepalive is under way, or what was
\* known of the last one still is.
LEMMA CalmKeeps ==
  ASSUME TypeOK, Order, SentInTime, Recovering, UdpPass, PassKeeps
  PROVE  Recovering'
<1>1. /\ UNCHANGED <<chans, held, net, calm>> /\ stale'.tcp = stale.tcp
      /\ udp'.link = udp.link /\ udp'.status = "up" /\ udp'.tried = udp.tried
      /\ udp.status \in {"wait", "up"} /\ udp.link \in Conn
  BY PassForms, Ages DEF PassKeeps
<1>2. \/ udp.status = "up" /\ backlog' = backlog
      \/ udp.status = "wait" /\ backlog' = Append(backlog, udp.link)
  BY DEF PassKeeps
<1>3. \/ udp'.heard = udp.heard /\ toUdp' = toUdp
      \/ /\ udp.status = "up" /\ ~toUdp[udp.link].end
         /\ udp'.heard = stale.udp /\ toUdp' = Clear(toUdp, udp.link)
  BY DEF PassKeeps
<1>4. \/ udp'.sent = stale.udp /\ toTcp' = Put(toTcp, udp.link)
      \/ udp'.sent = udp.sent /\ toTcp' = toTcp
  BY DEF PassKeeps
<1>5. /\ \A d : Known(d) => Known(d)'
      /\ \A d : Known(d)' => Known(d) \/ (d = udp.link /\ udp.status = "wait")
      /\ udp.status = "wait" => Known(udp.link)'
  BY <1>1, <1>2, PassKnown, AppendOrder, KnownLink
<1>6. \A d \in Conn : /\ toTcp'[d].end <=> toTcp[d].end
                      /\ toTcp[d].frames => toTcp'[d].frames
                      /\ d # udp.link => toTcp'[d] = toTcp[d] /\ toUdp'[d] = toUdp[d]
                      /\ toUdp'[d].end => toUdp[d].end
  BY <1>1, <1>3, <1>4, Ages DEF Put, Clear, Empty, Wire
<1>7. udp.status = "wait" => ~toUdp[udp.link].end
  BY DEF Recovering, CalmWires, Empty
<1>8. CalmWires'
  BY <1>1, <1>5, <1>6, <1>7 DEF Recovering, CalmWires
<1>9. \A j \in DOMAIN backlog' :
        backlog'[j] = udp.link \/ (j \in DOMAIN backlog /\ backlog'[j] = backlog[j])
  BY <1>1, <1>2, AppendOrder
<1>10. HalfOpen'
  BY <1>1, <1>6, <1>9, Places DEF Recovering, HalfOpen, Old
<1>11. udp.status = "wait" => \A i \in DOMAIN chans : chans[i].conn # udp.link
  BY DEF Order, Known, Accepted
<1>12. stale.udp <= 1 /\ stale.udp <= udp.sent /\ stale.udp \in Nat
  BY Ages DEF SentInTime
<1>13. Known(udp.link) => Known(udp.link)'
  BY <1>1, <1>5, KnownLink
<1>14. \/ Answered'
       \/ Old(udp.sent, KeepaliveInterval) /\ Old(udp.tried, ReconnectInterval) /\ udp'.sent = udp.sent
  <2>1. CASE udp'.sent = stale.udp /\ toTcp' = Put(toTcp, udp.link)
    <3>1. toTcp'[udp.link].frames
      BY <1>1, <2>1, Ages DEF Put, Wire
    <3> QED BY <1>1, <3>1 DEF Answered
  <2>2. CASE udp'.sent = udp.sent /\ toTcp' = toTcp
    <3>1. CASE udp.status = "wait"
      <4>1. udp'.heard = udp.heard /\ udp.heard <= udp.sent
        BY <1>3, <3>1 DEF Recovering, LinkInTime
      <4> QED BY <1>1, <1>5, <1>11, <2>2, <3>1, <4>1 DEF Answered
    <3>2. CASE udp.status = "up" /\ Answered
      <4>1. CASE udp'.heard = udp.heard /\ toUdp' = toUdp
        BY <1>1, <1>13, <2>2, <3>2, <4>1 DEF Answered
      <4>2. CASE ~toUdp[udp.link].end /\ udp'.heard = stale.udp
        BY <1>1, <1>12, <1>13, <2>2, <3>2, <4>2 DEF Answered
      <4> QED BY <1>3, <4>1, <4>2
    <3>3. CASE udp.status = "up" /\ ~Answered
      BY <2>2, <3>3 DEF Recovering, LinkInTime
    <3> QED BY <1>1, <3>1, <3>2, <3>3
  <2> QED BY <1>4, <2>1, <2>2
<1>15. (~Old(udp.tried, ReconnectInterval) \/ calm >= KeepaliveInterval + 3) => Safe'
  <2>1. CASE udp.status = "wait"
    <3>1. udp'.heard <= KeepaliveInterval + 2
      <4>1. udp'.heard = udp.heard /\ udp.heard <= 1
        BY <1>3, <2>1 DEF Recovering, LinkInTime
      <4> QED BY <4>1, Numbers, Ages
    <3> QED BY <1>1, <1>5, <1>11, <2>1, <3>1 DEF Safe
  <2>2. CASE udp.status = "up"
    <3>1. Safe => Safe'
      <4>1. Safe => udp'.heard <= KeepaliveInterval + 2
        BY <1>3, <1>12, Numbers, Ages DEF Safe
      <4> QED BY <1>1, <1>13, <4>1 DEF Safe
    <3> QED BY <2>2, <3>1 DEF Recovering, LinkInTime
  <2> QED BY <1>1, <2>1, <2>2
<1>16. LinkInTime'
  BY <1>1, <1>14, <1>15 DEF LinkInTime, Old
<1>17. ASSUME Late PROVE Late'
  <2>1. Others' = Others
    BY <1>1 DEF Others, HeadIsLink
  <2>2. backlog' = <<>> \/ backlog' = <<udp.link>>
    <3>1. udp.status = "wait" => backlog = <<>> /\ backlog' = Append(backlog, udp.link)
      BY <1>2, <1>17 DEF Late
    <3>2. Append(<<>>, udp.link) = <<udp.link>>
      OBVIOUS
    <3> QED BY <1>1, <1>2, <1>17, <3>1, <3>2 DEF Late
  <2>3. calm >= KeepaliveTimeout + 4 => backlog' = <<>>
    BY <1>2, <1>17 DEF Late
  <2> HIDE DEF Others
  <2> QED BY <1>1, <1>6, <1>17, <2>1, <2>2, <2>3 DEF Late
<1> QED BY <1>1, <1>8, <1>10, <1>16, <1>17 DEF Recovering

\* A pass of the UDP side in the calm.
LEMMA CalmPass ==
  ASSUME TypeOK, Order, SentInTime, Recovering, UdpPass
  PROVE  Recovering'
<1>1. ~PassWaits /\ ~PassDies
  BY DEF Recovering, CalmWires, PassWaits, PassDies
<1> QED BY <1>1, PassForms, CalmOpens, CalmStaysAlone, CalmGivesUp, CalmKeeps

\* In a second an age that is within its limit grows by one, and one that is
\* old stays old.
LEMMA OlderByOne ==
  \A age, limit \in Nat :
    /\ Older(age, 1, limit) \in Nat /\ Older(age, 1, limit) <= age + 1
    /\ Older(age, 1, limit) <= limit + 2 /\ Older(age, 1, limit) >= 1
    /\ age <= limit + 1 => Older(age, 1, limit) = age + 1
    /\ Older(age, 1, limit) >= age + 1 \/ Older(age, 1, limit) >= limit + 2
  BY DEF Older

\* A second, on the UDP side.
LEMMA TickUdp ==
  ASSUME TypeOK, Tick
  PROVE  /\ udp'.link = udp.link /\ udp'.status = udp.status /\ stale.udp = 0
         /\ udp.status = "crashed" => udp' = udp /\ stale'.udp = 0
         /\ udp.status # "crashed" =>
              /\ stale'.udp = 1
              /\ udp'.sent = Older(udp.sent, 1, KeepaliveInterval)
              /\ udp'.tried = Older(udp.tried, 1, ReconnectInterval)
         /\ udp.status \in {"wait", "up"} => udp'.heard = Older(udp.heard, 1, KeepaliveTimeout)
         /\ UNCHANGED <<backlog, held, toTcp, toUdp, net>>
  BY DEF Tick, TypeOK

\* A second does not touch the order.
LEMMA TickOrder ==
  ASSUME TypeOK, Order, Tick
  PROVE  /\ Order' /\ DOMAIN chans' = DOMAIN chans /\ Len(chans') = Len(chans)
         /\ \A i \in DOMAIN chans : chans'[i].conn = chans[i].conn
         /\ \A c : (Known(c)' <=> Known(c)) /\ (Accepted(c)' <=> Accepted(c))
         /\ HeadIsLink' <=> HeadIsLink
<1>1. /\ DOMAIN chans' = DOMAIN chans
      /\ \A i \in DOMAIN chans : chans'[i].conn = chans[i].conn
  <2>1. \A i \in DOMAIN chans : chans[i] \in Channel
    BY DEF TypeOK
  <2> QED BY <2>1 DEF Tick, Channel
<1>2. chans' \in Seq(Channel)
  BY TypeWorld DEF TypeOK
<1>3. Len(chans') = Len(chans) /\ (chans' = <<>> <=> chans = <<>>)
  BY <1>1, <1>2, Places
<1>4. HeadIsLink' <=> HeadIsLink
  BY <1>1, <1>3, TickUdp, Places DEF HeadIsLink
<1> QED BY <1>1, <1>3, <1>4, TickUdp, SameOrder

\* A second of the UDP side's clock.
LEMMA TickSends ==
  ASSUME TypeOK, SentInTime, Tick
  PROVE  SentInTime'
<1>1. CASE udp.status = "crashed"
  BY <1>1, TickUdp DEF SentInTime
<1>2. CASE udp.status # "crashed"
  <2>1. udp'.sent \in Nat /\ udp'.sent <= KeepaliveInterval + 2 /\ udp'.sent >= 1
    <3>1. udp'.sent = Older(udp.sent, 1, KeepaliveInterval) /\ udp.sent \in Nat
      BY <1>2, TickUdp, Ages
    <3> QED BY <3>1, OlderByOne, Numbers
  <2>2. stale'.udp = 1
    BY <1>2, TickUdp
  <2> QED BY <2>1, <2>2, Numbers DEF SentInTime
<1> QED BY <1>1, <1>2

\* A second of the calm finds nothing under way.
LEMMA TickInCalm ==
  ASSUME TypeOK, Tick, net, ~held
  PROVE  /\ backlog = <<>> /\ stale.tcp = 0 /\ stale'.tcp = 1 /\ udp.status # "wait"
         /\ \A c \in Conn : toTcp[c] = Empty /\ toUdp[c] = Empty
         /\ calm' \in Nat /\ calm' >= 1 /\ calm' <= calm + 1
         /\ calm' = calm \/ calm' = calm + 1
         /\ calm' = calm => calm = Recovery
         /\ \A i \in DOMAIN chans : chans'[i].heard = Older(chans[i].heard, 1, KeepaliveTimeout)
<1>1. /\ backlog = <<>> /\ stale.tcp = 0 /\ udp.status # "wait"
      /\ \A c \in Conn : toTcp[c] = Empty /\ toUdp[c] = Empty
  BY DEF Tick
<1>2. /\ stale'.tcp = 1
      /\ chans' = [i \in DOMAIN chans |->
                     [chans[i] EXCEPT !.heard = Older(@, 1, KeepaliveTimeout)]]
  BY <1>1, Numbers DEF Tick, TypeOK
<1>3. \A i \in DOMAIN chans : chans'[i].heard = Older(chans[i].heard, 1, KeepaliveTimeout)
  <2>1. \A i \in DOMAIN chans : chans[i] \in Channel
    BY DEF TypeOK
  <2> QED BY <1>2, <2>1 DEF Channel
<1>4. calm' = IF calm = Recovery THEN calm ELSE calm + 1
  BY DEF Tick
<1>5. calm \in Nat /\ Recovery >= 1
  BY Ages, Numbers
<1> QED BY <1>1, <1>2, <1>3, <1>4, <1>5

\* What was old before a second of calm is old after it.
LEMMA OldStaysOld ==
  ASSUME TypeOK, Tick, net, ~held
  PROVE  \A age, limit \in Nat :
           /\ Old(age, limit) \/ calm = 0 =>
                Older(age, 1, limit) >= calm' \/ Older(age, 1, limit) >= limit + 2
<1> SUFFICES ASSUME NEW age \in Nat, NEW limit \in Nat, Old(age, limit) \/ calm = 0
             PROVE  Older(age, 1, limit) >= calm' \/ Older(age, 1, limit) >= limit + 2
  OBVIOUS
<1> DEFINE o == Older(age, 1, limit)
<1>1. o \in Nat /\ o >= 1 /\ (o >= age + 1 \/ o >= limit + 2)
  BY OlderByOne
<1>2. calm' \in Nat /\ calm' <= calm + 1 /\ calm \in Nat
  BY TickInCalm, Ages
<1>3. age >= calm \/ age >= limit + 2 \/ calm = 0
  BY DEF Old
<1> HIDE DEF o
<1> QED
  <2> SUFFICES o >= calm' \/ o >= limit + 2
    BY DEF o
  <2> QED BY <1>1, <1>2, <1>3

\* Each second of calm brings the tunnel nearer to its recovery.
LEMMA TickCalm ==
  ASSUME TypeOK, Order, SentInTime, CalmInv, Tick, net, ~held
  PROVE  Recovering'
<1> USE Numbers
<1>1. /\ backlog' = <<>> /\ net' /\ ~held' /\ stale'.tcp = 1 /\ stale.tcp = 0 /\ stale.udp = 0
      /\ udp'.link = udp.link /\ udp'.status = udp.status /\ udp.status # "wait"
      /\ \A c \in Conn : toTcp'[c] = Empty /\ toUdp'[c] = Empty
      /\ \A c \in Conn : toTcp[c] = Empty /\ toUdp[c] = Empty
      /\ ~Empty.frames /\ ~Empty.end
      /\ backlog = <<>>
  BY TickInCalm, TickUdp DEF Empty
<1>2. /\ calm' \in Nat /\ calm' >= 1 /\ calm' <= calm + 1 /\ calm \in Nat
      /\ calm' = calm \/ calm' = calm + 1
      /\ calm' = calm => calm = Recovery
  BY TickInCalm, Ages
<1>3. /\ DOMAIN chans' = DOMAIN chans /\ Len(chans') = Len(chans)
      /\ \A i \in DOMAIN chans : chans'[i].conn = chans[i].conn /\ chans[i].conn \in Conn
      /\ \A c : (Known(c)' <=> Known(c)) /\ (Accepted(c)' <=> Accepted(c))
      /\ HeadIsLink' <=> HeadIsLink
  BY TickOrder, Places
<1>4. \A i \in DOMAIN chans :
        /\ chans[i].heard \in Nat /\ chans'[i].heard \in Nat
        /\ chans'[i].heard = Older(chans[i].heard, 1, KeepaliveTimeout)
        /\ chans'[i].heard <= chans[i].heard + 1
  <2>1. \A i \in DOMAIN chans :
          /\ chans[i].heard \in Nat
          /\ chans'[i].heard = Older(chans[i].heard, 1, KeepaliveTimeout)
    BY TickInCalm, Places
  <2> SUFFICES ASSUME NEW i \in DOMAIN chans
               PROVE  chans'[i].heard \in Nat /\ chans'[i].heard <= chans[i].heard + 1
    BY <2>1
  <2>2. PICK age \in Nat : age = chans[i].heard
    BY <2>1
  <2>3. chans'[i].heard = Older(age, 1, KeepaliveTimeout)
    BY <2>1, <2>2
  <2> QED BY <2>2, <2>3, OlderByOne
<1>5. CalmWires'
  BY <1>1 DEF CalmWires
<1>6. calm = 0 \/ Recovering
  BY <1>2 DEF CalmInv
<1>7. HalfOpen'
  <2> SUFFICES ASSUME NEW i \in DOMAIN chans, chans[i].conn # udp.link
               PROVE  Old(chans[i].heard, KeepaliveTimeout)'
    BY <1>1, <1>3 DEF HalfOpen
  <2>1. calm = 0 \/ Old(chans[i].heard, KeepaliveTimeout)
    BY <1>1, <1>3, <1>6 DEF Recovering, HalfOpen
  <2> QED BY <1>4, <2>1, OldStaysOld DEF Old
<1>8. ASSUME udp.status \in {"up", "none"}, calm = 0 \/ Old(udp.tried, ReconnectInterval)
      PROVE  Old(udp.tried, ReconnectInterval)'
  BY <1>8, OldStaysOld, TickUdp, Ages DEF Old
<1>9. ASSUME udp.status = "up", calm = 0 \/ Old(udp.sent, KeepaliveInterval)
      PROVE  Old(udp.sent, KeepaliveInterval)'
  BY <1>9, OldStaysOld, TickUdp, Ages DEF Old
<1>10. ASSUME udp.status = "up"
       PROVE  /\ udp.sent <= KeepaliveInterval + 1 /\ udp'.sent = udp.sent + 1
              /\ udp'.heard \in Nat /\ udp'.heard <= udp.heard + 1
              /\ udp.sent \in Nat /\ udp.heard \in Nat /\ udp.link \in Conn
  <2>1. udp.sent <= KeepaliveInterval + 1
    BY <1>1, <1>10, Ages DEF SentInTime
  <2>2. /\ udp'.sent = Older(udp.sent, 1, KeepaliveInterval) /\ udp.sent \in Nat
        /\ udp'.heard = Older(udp.heard, 1, KeepaliveTimeout) /\ udp.heard \in Nat
        /\ udp.link \in Conn
    BY <1>10, TickUdp, Ages
  <2>3. PICK s, h \in Nat : s = udp.sent /\ h = udp.heard
    BY <2>2
  <2>4. udp'.sent = Older(s, 1, KeepaliveInterval) /\ udp'.heard = Older(h, 1, KeepaliveTimeout)
    BY <2>2, <2>3
  <2>5. udp'.sent = s + 1 /\ udp'.heard \in Nat /\ udp'.heard <= h + 1
    <3>1. Older(h, 1, KeepaliveTimeout) \in Nat /\ Older(h, 1, KeepaliveTimeout) <= h + 1
      BY OlderByOne
    <3>2. Older(s, 1, KeepaliveInterval) = s + 1
      BY <2>1, <2>3, OlderByOne
    <3> QED BY <2>4, <3>1, <3>2
  <2> QED BY <2>1, <2>2, <2>3, <2>5
<1>11. ASSUME udp.status = "up", Answered PROVE Answered' /\ Safe'
  <2>1. /\ udp.heard <= udp.sent /\ Known(udp.link)
        /\ \A i \in DOMAIN chans : chans[i].conn = udp.link => chans[i].heard <= udp.sent + 1
    BY <1>1, <1>10, <1>11 DEF Answered
  <2>2. /\ udp'.heard <= udp'.sent /\ udp'.heard <= KeepaliveInterval + 2
        /\ udp'.sent <= KeepaliveInterval + 2 /\ udp'.sent \in Nat
    BY <1>10, <1>11, <2>1
  <2>3. Known(udp.link)'
    BY <1>1, <1>3, <2>1, KnownLink
  <2>4. \A i \in DOMAIN chans : chans[i].conn = udp.link =>
          chans'[i].heard <= udp'.sent + 1 /\ chans'[i].heard <= KeepaliveInterval + 3
    <3> SUFFICES ASSUME NEW i \in DOMAIN chans, chans[i].conn = udp.link
                 PROVE  chans'[i].heard <= udp'.sent + 1 /\ chans'[i].heard <= KeepaliveInterval + 3
      OBVIOUS
    <3>1. PICK h \in Nat : h = chans[i].heard
      BY <1>4
    <3>2. PICK g \in Nat : g = chans'[i].heard
      BY <1>4
    <3>3. h <= udp.sent + 1 /\ g <= h + 1
      BY <1>4, <2>1, <3>1, <3>2
    <3>4. udp'.sent = udp.sent + 1 /\ udp.sent \in Nat
      BY <1>10, <1>11
    <3>5. g <= udp'.sent + 1 /\ g <= KeepaliveInterval + 3
      BY ONLY <2>2, <3>3, <3>4, Numbers
    <3> QED BY <3>2, <3>5
  <2> QED BY <1>1, <1>3, <2>2, <2>3, <2>4 DEF Answered, Safe
<1>12. ASSUME udp.status = "up", ~Answered
       PROVE  /\ Old(udp.sent, KeepaliveInterval)' /\ Old(udp.tried, ReconnectInterval)'
              /\ ~(calm' >= KeepaliveInterval + 3)
  <2>1. calm = 0 \/ (Old(udp.sent, KeepaliveInterval) /\ Old(udp.tried, ReconnectInterval))
    BY <1>6, <1>12 DEF Recovering, LinkInTime
  <2>2. calm <= KeepaliveInterval + 1
    BY <1>2, <1>10, <1>12, <2>1 DEF Old
  <2>3. ~(calm' >= KeepaliveInterval + 3)
    BY <1>2, <2>2
  <2> QED BY <1>8, <1>9, <1>12, <2>1, <2>3
<1>13. udp.status = "none" => Old(udp.tried, ReconnectInterval)'
  BY <1>6, <1>8 DEF Recovering, LinkInTime
<1>14. LinkInTime'
  <2>1. CASE udp.status = "up" /\ Answered
    BY <1>1, <1>11, <2>1 DEF LinkInTime
  <2>2. CASE udp.status = "up" /\ ~Answered
    BY <1>1, <1>12, <2>2 DEF LinkInTime
  <2>3. CASE udp.status # "up"
    BY <1>1, <1>13, <2>3 DEF LinkInTime
  <2> QED BY <2>1, <2>2, <2>3
<1>15. ASSUME calm' >= KeepaliveTimeout + 2 PROVE Late'
  <2>1. /\ calm >= 1 /\ Recovering
        /\ calm = KeepaliveTimeout + 1 \/ (calm >= KeepaliveTimeout + 2 /\ Late)
    BY <1>2, <1>6, <1>15 DEF Recovering
  <2>2. \A i \in DOMAIN chans' : chans'[i].conn # udp.link => chans'[i].heard >= KeepaliveTimeout + 2
    <3> SUFFICES ASSUME NEW i \in DOMAIN chans, chans[i].conn # udp.link
                 PROVE  chans'[i].heard >= KeepaliveTimeout + 2
      BY <1>3
    <3>1. chans'[i].heard >= calm' \/ chans'[i].heard >= KeepaliveTimeout + 2
      BY <1>1, <1>3, <1>7 DEF HalfOpen, Old
    <3> QED BY <1>2, <1>4, <1>15, <3>1
  <2>3. Others' = Others /\ Others \in Nat /\ Others <= Len(chans)
        /\ (udp.link = None => Others = Len(chans))
    <3>1. HeadIsLink => Len(chans) >= 1 /\ udp.link # None
      BY Places DEF HeadIsLink
    <3>2. Len(chans) \in Nat /\ Len(chans') = Len(chans) /\ (HeadIsLink' <=> HeadIsLink)
      BY <1>3, Places
    <3> HIDE DEF HeadIsLink
    <3> QED BY <3>1, <3>2 DEF Others
  <2>4. Len(chans) <= Cardinality(Conn) /\ Len(chans) \in Nat
    BY RoomForOne, Places
  <2>5. Others = 0 \/ Others + calm' + 1 <= Cardinality(Conn) + KeepaliveTimeout + 3
    <3>1. CASE calm = KeepaliveTimeout + 1
      <4>1. calm' <= KeepaliveTimeout + 2
        BY <1>2, <3>1
      <4>2. Others <= Cardinality(Conn) /\ Others \in Nat
        BY <2>3, <2>4
      <4>3. calm' \in Nat
        BY <1>2
      <4> QED BY ONLY <4>1, <4>2, <4>3, Numbers
    <3>2. CASE Late
      <4>1. Others = 0 \/ Others + calm + 1 <= Cardinality(Conn) + KeepaliveTimeout + 2
        BY <1>1, <3>2 DEF Late
      <4>2. calm' <= calm + 1 /\ calm \in Nat /\ calm' \in Nat /\ Others \in Nat
        BY <1>2, <2>3
      <4>3. ASSUME Others + calm + 1 <= Cardinality(Conn) + KeepaliveTimeout + 2
            PROVE  Others + calm' + 1 <= Cardinality(Conn) + KeepaliveTimeout + 3
        BY ONLY <4>2, <4>3, Numbers
      <4> QED BY <4>1, <4>3
    <3> QED BY <2>1, <3>1, <3>2
  <2>6. ASSUME calm' >= KeepaliveTimeout + 3, udp.status = "none"
        PROVE  calm' = KeepaliveTimeout + 3 /\ stale'.udp = 1 /\ \E c \in Conn : Unused(c)'
    <3>1. calm >= KeepaliveTimeout + 2 /\ Late
      BY <1>2, <2>1, <2>6
    <3>2. ~(calm >= KeepaliveTimeout + 3)
      BY <1>1, <2>6, <3>1 DEF Late
    <3>3. calm = KeepaliveTimeout + 2 /\ calm' = KeepaliveTimeout + 3
      BY <1>2, <2>6, <3>1, <3>2
    <3>4. udp.link = None
      BY <2>6, Ages
    <3>5. Others = 0 \/ Others + calm + 1 <= Cardinality(Conn) + KeepaliveTimeout + 2
      BY <1>1, <3>1 DEF Late
    <3>6. Len(chans) < Cardinality(Conn)
      BY ONLY <2>3, <2>4, <3>3, <3>4, <3>5, Numbers
    <3>7. PICK c \in Conn : ~Accepted(c)
      BY <3>6, RoomForOne
    <3>8. ~Known(c)
      BY <1>1, <3>7 DEF Known
    <3>9. Unused(c)'
      BY <1>1, <1>3, <3>4, <3>8 DEF Unused
    <3>10. stale'.udp = 1
      BY <2>6, TickUdp
    <3> QED BY <3>3, <3>9, <3>10
  <2>7. ASSUME calm' >= KeepaliveTimeout + 4 PROVE udp.status \in {"up", "crashed"}
    <3>1. Late /\ calm >= KeepaliveTimeout + 3
      BY <1>2, <2>1, <2>7
    <3>2. udp.status # "none"
      BY <1>1, <3>1 DEF Late
    <3> QED BY <1>1, <3>2, Ages
  <2> HIDE DEF Others
  <2>8. \A c \in Conn : ~toTcp'[c].frames
    BY <1>1
  <2>9. Others' = 0 \/ Others' + calm' + 1 <= Cardinality(Conn) + KeepaliveTimeout + 2 + stale'.tcp
    BY <1>1, <1>2, <2>3, <2>5
  <2> QED BY <1>1, <2>2, <2>6, <2>7, <2>8, <2>9 DEF Late
<1> QED BY <1>5, <1>7, <1>14, <1>15 DEF Recovering

\* A second, in the calm or not.
LEMMA TickRecovers ==
  ASSUME TypeOK, RecoveryInv, Tick
  PROVE  RecoveryInv'
<1>1. CASE net /\ ~held
  BY <1>1, TickOrder, TickSends, TickCalm DEF RecoveryInv, CalmInv
<1>2. CASE ~(net /\ ~held)
  <2>1. calm' = calm /\ ~(calm >= 1)
    BY <1>2 DEF Tick, RecoveryInv, CalmInv, Recovering, CalmWires
  <2> QED BY <2>1, TickOrder, TickSends DEF RecoveryInv, CalmInv
<1> QED BY <1>1, <1>2

\* At first there is nothing to recover from.
LEMMA RecoveryInit == Init => RecoveryInv
<1> SUFFICES ASSUME Init PROVE RecoveryInv
  OBVIOUS
<1>1. chans = <<>> /\ backlog = <<>> /\ calm = 0 /\ stale.udp = 0
  BY DEF Init
<1>2. udp.sent = KeepaliveInterval + 1
  BY DEF Init
<1>3. \A c : ~Known(c)
  BY <1>1 DEF Known, Accepted
<1>4. Order
  BY <1>1, <1>3 DEF Order
<1>5. SentInTime
  BY <1>1, <1>2, Numbers DEF SentInTime
<1> QED BY <1>1, <1>4, <1>5 DEF RecoveryInv, CalmInv

\* What the kernels do, and the datagrams of the server, leave the order.
LEMMA KernelsOrder ==
  ASSUME TypeOK, Order, SentInTime,
         Trouble \/ \E c \in Conn : TcpForwards(c) \/ ResetByUdpHost(c) \/ ResetByTcpHost(c) \/ Forget(c)
  PROVE  Order' /\ SentInTime'
<1>1. UNCHANGED <<udp, chans, backlog, stale>>
  BY DEF Trouble, TcpForwards, ResetByUdpHost, ResetByTcpHost, Forget
<1> QED BY <1>1, SameOrder DEF SentInTime

\* Every other step leaves the calm as it is.
LEMMA StepRecovers ==
  ASSUME TypeOK, RecoveryInv, Next, ~Tick
  PROVE  RecoveryInv'
<1>1. Order /\ SentInTime
  BY DEF RecoveryInv
<1>2. calm >= 1 => Recovering
  BY DEF RecoveryInv, CalmInv
<1>3. CASE Trouble
  BY <1>1, <1>3, KernelsOrder DEF Trouble, RecoveryInv, CalmInv
<1>4. CASE UdpPass
  <2>1. calm' = calm
    BY <1>4 DEF UdpPass
  <2> QED BY <1>1, <1>2, <1>4, <2>1, PassOrder, PassSends, CalmPass DEF RecoveryInv, CalmInv
<1>5. CASE TcpAccepts
  <2>1. calm' = calm /\ udp' = udp /\ stale' = stale
    BY <1>5 DEF TcpAccepts
  <2> QED BY <1>1, <1>2, <1>5, <2>1, AcceptOrder, CalmAccepts DEF RecoveryInv, CalmInv, SentInTime
<1>6. CASE TcpIdle
  <2>1. calm' = calm /\ udp' = udp /\ backlog' = backlog /\ stale'.udp = stale.udp
    BY <1>6 DEF TcpIdle, TypeOK
  <2>2. Order'
    <3>1. CASE chans' = chans
      BY <1>1, <2>1, <3>1, SameOrder
    <3>2. CASE chans # <<>> /\ chans' = Without(Len(chans))
      <4>1. Len(chans) \in DOMAIN chans
        BY <3>2, Places
      <4> QED BY <1>1, <2>1, <3>2, <4>1, WithoutOrder
    <3> QED BY <1>6, <3>1, <3>2 DEF TcpIdle
  <2> QED BY <1>1, <1>2, <1>6, <2>1, <2>2, CalmTcpIdle DEF RecoveryInv, CalmInv, SentInTime
<1>7. ASSUME NEW c \in Conn, TcpHears(c) PROVE RecoveryInv'
  <2>1. calm' = calm /\ udp' = udp /\ backlog' = backlog /\ stale' = stale
    BY <1>7 DEF TcpHears
  <2>2. /\ DOMAIN chans' = DOMAIN chans
        /\ \A i \in DOMAIN chans : chans'[i].conn = chans[i].conn
    <3>1. \A i \in DOMAIN chans : chans[i] \in Channel
      BY DEF TypeOK
    <3> QED BY <1>7, <3>1 DEF TcpHears, Stamped, Channel
  <2>3. Order'
    BY <1>1, <2>1, <2>2, SameOrder
  <2> QED BY <1>1, <1>2, <1>7, <2>1, <2>3, CalmHears DEF RecoveryInv, CalmInv, SentInTime
<1>8. ASSUME NEW c \in Conn, TcpEnds(c) PROVE RecoveryInv'
  <2>1. calm' = calm /\ udp' = udp /\ backlog' = backlog /\ stale' = stale
    BY <1>8 DEF TcpEnds
  <2>2. Order'
    <3>1. PICK i \in DOMAIN chans : chans' = Without(i)
      BY <1>8 DEF TcpEnds
    <3> QED BY <1>1, <2>1, <3>1, WithoutOrder
  <2> QED BY <1>1, <1>2, <1>8, <2>1, <2>2, CalmEnds DEF RecoveryInv, CalmInv, SentInTime
<1>9. ASSUME NEW c \in Conn,
             TcpForwards(c) \/ ResetByUdpHost(c) \/ ResetByTcpHost(c) \/ Forget(c)
      PROVE  RecoveryInv'
  <2>1. calm' = calm /\ Order' /\ SentInTime'
    BY <1>1, <1>9, KernelsOrder DEF TcpForwards, ResetByUdpHost, ResetByTcpHost, Forget
  <2>2. calm >= 1 => ~Forget(c)
    BY <1>2 DEF Recovering, CalmWires, Forget
  <2> QED BY <1>1, <1>2, <1>9, <2>1, <2>2, CalmForwards, CalmResetByUdpHost, CalmResetByTcpHost
          DEF RecoveryInv, CalmInv
<1> QED BY <1>3, <1>4, <1>5, <1>6, <1>7, <1>8, <1>9 DEF Next

\* At the end of the recovery there is nothing half open left, and the link is
\* known to the TCP side.
LEMMA Recovered == TypeOK /\ RecoveryInv => RecoversInTime
<1> SUFFICES ASSUME TypeOK, RecoveryInv, calm = Recovery
             PROVE  /\ backlog = <<>>
                    /\ \/ udp.status = "crashed" /\ chans = <<>>
                       \/ udp.status = "up" /\ Len(chans) = 1 /\ chans[1].conn = udp.link
  BY DEF RecoversInTime
<1>1. calm >= KeepaliveTimeout + 4 /\ calm \in Nat /\ calm >= KeepaliveInterval + 3 /\ calm >= 1
      /\ calm = KeepaliveTimeout + Cardinality(Conn) + 2
  BY Numbers
<1>2. Order /\ Recovering /\ Late
  BY <1>1, Numbers DEF RecoveryInv, CalmInv, Recovering
<1>3. backlog = <<>> /\ udp.status \in {"up", "crashed"}
  BY <1>1, <1>2 DEF Late
<1>4. Others = 0
  <2>1. stale.tcp \in Nat /\ stale.tcp <= 1
    BY <1>2, Ages DEF Recovering, CalmWires
  <2>2. Others = 0 \/ Others + calm + 1 <= Cardinality(Conn) + KeepaliveTimeout + 2 + stale.tcp
    BY <1>2 DEF Late
  <2>3. Others \in Nat
    <3>1. HeadIsLink => Len(chans) >= 1
      BY Places DEF HeadIsLink
    <3> HIDE DEF HeadIsLink
    <3> QED BY <3>1, Places DEF Others
  <2> HIDE DEF Others
  <2> QED BY <1>1, <2>1, <2>2, <2>3, Numbers
<1>5. CASE udp.status = "crashed"
  <2>1. ~HeadIsLink
    BY <1>5, Ages, Places DEF HeadIsLink
  <2> QED BY <1>3, <1>4, <1>5, <2>1, Places DEF Others
<1>6. CASE udp.status = "up"
  <2>1. Known(udp.link)
    BY <1>1, <1>2, <1>6 DEF Recovering, LinkInTime, Safe
  <2>2. HeadIsLink
    <3>1. PICK i \in DOMAIN chans : chans[i].conn = udp.link
      BY <1>3, <2>1 DEF Known, Accepted
    <3> QED BY <1>2, <3>1, Places DEF Order, HeadIsLink
  <2> QED BY <1>3, <1>4, <1>6, <2>2, Places DEF Others, HeadIsLink
<1> QED BY <1>3, <1>5, <1>6

\* However the trouble went, with ends of connections lost, half-open channels
\* and attempts piled up, KeepaliveTimeout and as many seconds as there are
\* connections, and two, after it the tunnel is one connection and one channel
\* again, or its UDP side is dead and nothing of it is kept.
THEOREM TunnelRecovers == Spec => []RecoversInTime
<1>1. TypeOK /\ RecoveryInv /\ UNCHANGED vars => RecoveryInv'
  BY DEF RecoveryInv, Order, SentInTime, CalmInv, Recovering, CalmWires, HalfOpen, LinkInTime,
         Late, Old, Answered, Safe, Others, HeadIsLink, Unused, Known, Accepted, vars
<1>2. TypeOK /\ RecoveryInv /\ [Next]_vars => RecoveryInv'
  BY <1>1, TickRecovers, StepRecovers
<1> QED BY <1>2, TypeCorrect, RecoveryInit, Recovered, PTL DEF Spec
=============================================================================
