----------------------------- MODULE Connection -----------------------------
(***************************************************************************)
(* The two connections of a node to the backend (network.py): soc, on      *)
(* which chains and requests are sent and replies received, and            *)
(* state_sender.  The command loop connects, sends, and starts over when   *)
(* either fails; the listener thread reads soc and starts over when the    *)
(* backend says so.  Both threads assign the same attributes, without a    *)
(* lock.  A reply is one item; how messages are cut into packets is not    *)
(* modelled.  These are the threads of PendingChains, in the other part of *)
(* what they do: no state is shared between the two parts.                 *)
(***************************************************************************)
EXTENDS Integers, Sequences, FiniteSets

CONSTANTS
  Socket,        \* socket objects: the two attributes, one being read, one new
  None,          \* no socket
  MaxTroubles,   \* bound: refused or broken connections and timeout messages
  MaxWire        \* bound: messages on their way on one connection

Thread == {"listener", "command"}

ASSUME ConnectionAssumption ==
  /\ IsFiniteSet(Socket) /\ Cardinality(Socket) >= 4
  /\ None \notin Socket
  /\ MaxTroubles \in Nat /\ MaxWire \in Nat \ {0}

VARIABLES
  connected, soc, state_sender,   \* attributes of the node
  sock,       \* [Socket -> SocketState]
  reading,    \* the socket the listener waits on in recv
  pc,         \* where each thread is
  resets,     \* how often each thread will still call reset_sockets
  command,    \* what the command loop is doing: connect at the start, or send
  troubles
attributes == <<connected, soc, state_sender>>
threads == <<reading, pc, resets, command>>
connection == <<attributes, sock, threads, troubles>>

\* conn: not connected, connected to one of the two ports, ended by the other
\* side, or known to be ended.  asked: the backend owes a reply.
SocketState ==
  [conn : {"none", "main", "state", "ended", "reset"}, closed : BOOLEAN,
   asked : BOOLEAN, wire : Seq({"reply", "timeout"})]
New == [conn |-> "none", closed |-> FALSE, asked |-> FALSE, wire |-> <<>>]

Goto(t, step) == pc' = [pc EXCEPT ![t] = step]

\* a socket nobody refers to is closed by the interpreter
Referred == {soc, state_sender, reading}
Collected(s) == [x \in Socket |-> IF x \in Referred' THEN s[x] ELSE New]
Fresh == CHOOSE x \in Socket : x \notin Referred

InitConnection ==
  /\ connected = FALSE
  /\ soc = CHOOSE x \in Socket : TRUE
  /\ state_sender = CHOOSE x \in Socket : x # soc
  /\ sock = [x \in Socket |-> New]
  /\ reading = None
  /\ pc = [listener |-> "loop", command |-> "connectSoc"]
  /\ resets = [t \in Thread |-> 0]
  /\ command = "startup"
  /\ troubles = 0

-----------------------------------------------------------------------------
(* reset_sockets, called by either thread                                    *)

ResetSockets(t, times) ==
  /\ Goto(t, "reset")
  /\ resets' = [resets EXCEPT ![t] = times]

ResetConnected(t) ==
  /\ pc[t] = "reset"
  /\ connected' = FALSE
  /\ Goto(t, "close")
  /\ UNCHANGED <<soc, state_sender, sock, reading, resets, command, troubles>>

\* a connection stays up while the other thread waits in recv on its socket
CloseBoth(t) ==
  /\ pc[t] = "close"
  /\ sock' = [x \in Socket |->
       IF x \in {soc, state_sender}
       THEN IF x = reading THEN [sock[x] EXCEPT !.closed = TRUE] ELSE [New EXCEPT !.closed = TRUE]
       ELSE sock[x]]
  /\ Goto(t, "newSoc")
  /\ UNCHANGED <<attributes, reading, resets, command, troubles>>

\* mutant: the attribute is emptied, not assigned a new socket
NewSocEmpty(t) ==
  /\ pc[t] = "newSoc"
  /\ soc' = None
  /\ Goto(t, "newSender")
  /\ UNCHANGED <<connected, state_sender, reading, resets, command, troubles>>
  /\ sock' = Collected(sock)

NewSoc(t) ==
  /\ pc[t] = "newSoc"
  /\ soc' = Fresh
  /\ Goto(t, "newSender")
  /\ UNCHANGED <<connected, state_sender, reading, resets, command, troubles>>
  /\ sock' = Collected(sock)

\* a failed start_connection resets, raises, and its caller resets again
NewSender(t) ==
  /\ pc[t] = "newSender"
  /\ state_sender' = Fresh
  /\ resets' = [resets EXCEPT ![t] = @ - 1]
  /\ Goto(t, IF resets[t] > 1 THEN "reset"
             ELSE IF t = "listener" THEN "loop"
             ELSE IF command = "startup" THEN "crashed" ELSE "prompt")
  /\ UNCHANGED <<connected, soc, reading, command, troubles>>
  /\ sock' = Collected(sock)

Reset(t) == ResetConnected(t) \/ CloseBoth(t) \/ NewSoc(t) \/ NewSender(t)

-----------------------------------------------------------------------------
(* The command loop                                                          *)

StartCommand(kind) ==
  /\ pc["command"] = "prompt"
  /\ command' = kind
  /\ Goto("command", IF connected THEN "send" ELSE "connectSoc")
  /\ UNCHANGED <<attributes, sock, reading, resets, troubles>>

\* mutant: the sockets are left as they are
ConnectFailsNoReset ==
  /\ Goto("command", IF command = "startup" THEN "crashed" ELSE "prompt")
  /\ UNCHANGED resets

\* start_connection is called without a try at the start
ConnectFails == ResetSockets("command", IF command = "startup" THEN 1 ELSE 2)

Connect(s, port, next) ==
  /\ \/ /\ sock[s] = New
        /\ sock' = [sock EXCEPT ![s].conn = port]
        /\ Goto("command", next)
        /\ UNCHANGED <<resets, troubles>>
     \/ /\ sock[s] # New
        /\ ConnectFails
        /\ UNCHANGED <<sock, troubles>>
     \/ /\ troubles < MaxTroubles      \* refused, or no answer in five seconds
        /\ troubles' = troubles + 1
        /\ ConnectFails
        /\ UNCHANGED sock
  /\ UNCHANGED <<attributes, reading, command>>

ConnectSoc == pc["command"] = "connectSoc" /\ Connect(soc, "main", "connectSender")
ConnectSender ==
  pc["command"] = "connectSender" /\ Connect(state_sender, "state", "connected")

SetConnected ==
  /\ pc["command"] = "connected"
  /\ connected' = TRUE
  /\ Goto("command", IF command = "startup" THEN "prompt" ELSE "send")
  /\ UNCHANGED <<soc, state_sender, sock, reading, resets, command, troubles>>

\* sendall on a connection the other side has ended fails at the second try at last
SendFails(s) ==
  \/ /\ sock[s].conn \in {"none", "ended", "reset"} \/ sock[s].closed
     /\ ResetSockets("command", 1)
     /\ UNCHANGED sock
  \/ /\ sock[s].conn = "ended" /\ ~ sock[s].closed
     /\ sock' = [sock EXCEPT ![s].conn = "reset"]
     /\ Goto("command", "prompt")
     /\ UNCHANGED resets

SendState ==
  /\ pc["command"] = "send" /\ command = "state"
  /\ \/ /\ sock[state_sender].conn = "state" /\ ~ sock[state_sender].closed
        /\ Goto("command", "prompt")
        /\ UNCHANGED <<sock, resets>>
     \/ SendFails(state_sender)
  /\ UNCHANGED <<attributes, reading, command, troubles>>

SendRequest ==
  /\ pc["command"] = "send" /\ command = "request"
  /\ \/ /\ sock[soc].conn = "main" /\ ~ sock[soc].closed
        /\ sock' = [sock EXCEPT ![soc].asked = TRUE]
        /\ Goto("command", "prompt")
        /\ UNCHANGED resets
     \/ SendFails(soc)
  /\ UNCHANGED <<attributes, reading, command, troubles>>

CommandStep ==
  ConnectSoc \/ ConnectSender \/ SetConnected \/ SendState \/ SendRequest \/ Reset("command")

-----------------------------------------------------------------------------
(* The listener thread                                                       *)

\* without a connection the thread sleeps; on a socket that is closed or not
\* connected recv raises; either is tried again
ListenAgain ==
  /\ pc["listener"] = "loop"
  /\ ~ connected \/ sock[soc].conn = "none" \/ sock[soc].closed
  /\ UNCHANGED connection

Listen ==
  /\ pc["listener"] = "loop"
  /\ connected
  /\ sock[soc].conn # "none" /\ ~ sock[soc].closed
  /\ reading' = soc
  /\ Goto("listener", "recv")
  /\ UNCHANGED <<attributes, sock, resets, command, troubles>>

\* a closed socket is released when recv returns
RecvMessage ==
  /\ pc["listener"] = "recv"
  /\ sock[reading].wire # <<>>
  /\ IF Head(sock[reading].wire) = "timeout"
     THEN ResetSockets("listener", 1)
     ELSE Goto("listener", "loop") /\ UNCHANGED resets
  /\ reading' = None
  /\ UNCHANGED <<attributes, command, troubles>>
  /\ sock' = Collected([sock EXCEPT ![reading] =
       IF @.closed THEN [New EXCEPT !.closed = TRUE]
       ELSE [sock[reading] EXCEPT !.wire = Tail(@)]])

RecvNothing ==
  /\ pc["listener"] = "recv"
  /\ sock[reading].wire = <<>> /\ sock[reading].conn \in {"ended", "reset"}
  /\ reading' = None
  /\ Goto("listener", "loop")
  /\ UNCHANGED <<attributes, resets, command, troubles>>
  /\ sock' = Collected(sock)

ListenerStep == ListenAgain \/ Listen \/ RecvMessage \/ RecvNothing \/ Reset("listener")

-----------------------------------------------------------------------------
(* The backend                                                               *)

Deliver(s, message) ==
  /\ sock[s].conn = "main" /\ Len(sock[s].wire) < MaxWire
  /\ sock' = [sock EXCEPT ![s].wire = Append(@, message),
                          ![s].asked = IF message = "reply" THEN FALSE ELSE @]
Answer(s) ==
  /\ sock[s].asked
  /\ Deliver(s, "reply")
  /\ UNCHANGED <<attributes, threads, troubles>>

Timeout(s) ==
  /\ troubles < MaxTroubles
  /\ troubles' = troubles + 1
  /\ Deliver(s, "timeout")
  /\ UNCHANGED <<attributes, threads>>

Break(s) ==
  /\ troubles < MaxTroubles
  /\ troubles' = troubles + 1
  /\ sock[s].conn \in {"main", "state"}
  /\ sock' = [sock EXCEPT ![s].conn = "ended"]
  /\ UNCHANGED <<attributes, threads>>

ConnectionNext ==
  \/ \E kind \in {"state", "request"} : StartCommand(kind)
  \/ CommandStep \/ ListenerStep
  \/ \E s \in Socket : Answer(s) \/ Timeout(s) \/ Break(s)

\* Both threads are scheduled, and the user gives each kind of command again and again.
ConnectionFairness ==
  /\ WF_connection(CommandStep) /\ WF_connection(ListenerStep)
  /\ \A kind \in {"state", "request"} : SF_connection(StartCommand(kind))
ConnectionSpec == InitConnection /\ [][ConnectionNext]_connection /\ ConnectionFairness

-----------------------------------------------------------------------------
ConnectionTypeOK ==
  /\ connected \in BOOLEAN /\ soc \in Socket /\ state_sender \in Socket
  /\ sock \in [Socket -> SocketState]
  /\ reading \in Socket \cup {None}
  /\ pc["listener"] \in {"loop", "recv", "reset", "close", "newSoc", "newSender"}
  /\ pc["command"] \in {"prompt", "connectSoc", "connectSender", "connected", "send",
                        "reset", "close", "newSoc", "newSender", "crashed"}
  /\ resets \in [Thread -> 0 .. 2]
  /\ command \in {"startup", "state", "request"}
  /\ troubles \in 0 .. MaxTroubles

Usable ==
  /\ connected
  /\ sock[soc].conn = "main" /\ ~ sock[soc].closed
  /\ sock[state_sender].conn = "state" /\ ~ sock[state_sender].closed

\* However resets of the two threads overlap, and whatever breaks, the node is
\* connected again on both ports, unless it could not connect when it was started.
Recovers == []<>(Usable \/ pc["command"] = "crashed")
=============================================================================
