------------------------------ MODULE RemoteLink -----------------------------
(***************************************************************************)
(* The encrypted link of RemoteControlService to the relay server          *)
(* (src/main/remote-control/remote-control-service.ts): sessions and their *)
(* sockets, commands with their ledger, uploads.                           *)
(* A socket is numbered in the order of creation; 0 is none. The peer      *)
(* numbers its messages, sends a command again when it has no answer, and  *)
(* has one key; the relay loses what was sent to a closed socket.          *)
(***************************************************************************)
EXTENDS Naturals, FiniteSets, Sequences, SequencesExt

CONSTANTS
  Links,       \* calls of create()
  Commands,    \* commands of the peer, by messageId
  MaxUploads,  \* uploads at a time
  MaxSockets, MaxSends,  \* bounds on sockets and on messages of the peer
  NoLink,
  MaxQueue,    \* remoteSendQueueEntries
  TrustAsks, MaxTrusts,  \* requests for trust, and MAX_PENDING_TRUST_REQUESTS
  Lifetime, MaxDelay     \* the life of a session in ticks, and MAX_TIMER_DELAY_MS

ASSUME LinkAssumption ==
  /\ NoLink \notin Links
  /\ {MaxUploads, MaxSockets, MaxSends, MaxQueue, MaxTrusts, Lifetime, MaxDelay} \subseteq Nat

VARIABLES
  runtime,    \* this.runtime
  link,       \* the sessions
  socketOf,   \* the session of each socket that was opened
  open,       \* the sockets that are open
  inbox,      \* messages of the peer under way: command, socket, sequence
  sends,      \* sequence numbers used by the peer
  command     \* the ledger's operation, runs (history), whether it is an upload

linkVars == <<runtime, link, socketOf, open, inbox, sends, command>>

Ended == {"expired", "revoked"}
LinkTypeOK ==
  /\ runtime \in Links \cup {NoLink}
  /\ link \in [Links -> [status : {"new", "creating", "connecting", "connected", "reconnecting"} \cup Ended,
                         stopping : BOOLEAN, socket : 0..MaxSockets, cipher : BOOLEAN,
                         last : 0..MaxSends, timer : BOOLEAN, ledger : SUBSET Commands]]
  /\ DOMAIN socketOf = 1..Cardinality(DOMAIN socketOf) /\ open \subseteq DOMAIN socketOf
  /\ sends \in 0..MaxSends
  /\ command \in [Commands -> [at : {"new", "reserving", "running", "uploading", "done"}, runs : 0..MaxSends]]

LinkInit ==
  /\ runtime = NoLink /\ socketOf = <<>> /\ open = {} /\ inbox = {} /\ sends = 0
  /\ link = [l \in Links |-> [status |-> "new", stopping |-> FALSE, socket |-> 0, cipher |-> FALSE,
                              last |-> 0, timer |-> FALSE, ledger |-> {}]]
  /\ command = [c \in Commands |-> [at |-> "new", runs |-> 0]]

\* connect(), for a session that is current and not stopped.
Connected(links, l) == [links EXCEPT ![l].socket = Cardinality(DOMAIN socketOf) + 1, ![l].timer = FALSE]
NewSocket(l) ==
  LET n == Cardinality(DOMAIN socketOf) + 1 IN
  /\ n <= MaxSockets
  /\ socketOf' = [m \in 1..n |-> IF m = n THEN l ELSE socketOf[m]]
  /\ open' = open \cup {n}

\* clearRuntime: the session is stopped, its socket closed and its requests
\* and uploads forgotten.
Cleared(l) ==
  IF l = NoLink THEN link
  ELSE [link EXCEPT ![l].stopping = TRUE, ![l].timer = FALSE, ![l].ledger = {}]

\* Its commands and uploads no longer count.
Forgotten == [c \in Commands |-> IF command[c].at = "new" THEN command[c] ELSE [command[c] EXCEPT !.at = "done"]]

\* create() begins, unless a session is in use.
CreateLink(l) ==
  /\ link[l].status = "new"
  /\ runtime # NoLink => link[runtime].status \in Ended
  /\ link' = [Cleared(runtime) EXCEPT ![l].status = "creating"]
  /\ runtime' = NoLink
  /\ open' = IF runtime = NoLink THEN open ELSE open \ {link[runtime].socket}
  /\ command' = Forgotten
  /\ UNCHANGED <<socketOf, inbox, sends>>

\* The server has answered: the session becomes the current one and connects.
LinkCreated(l) ==
  /\ link[l].status = "creating"
  /\ runtime' = l
  /\ NewSocket(l)
  /\ link' = [Connected(link, l) EXCEPT ![l].status = "connecting"]
  /\ command' = Forgotten
  /\ UNCHANGED <<inbox, sends>>

\* The peer's key, with auth.accepted or as peer.key.updated, which starts
\* the numbering of its messages again.
PeerKey(l) ==
  /\ runtime = l /\ link[l].socket \in open
  /\ \E updated \in BOOLEAN :
       link' = [link EXCEPT ![l].cipher = TRUE, ![l].status = "connected", ![l].last = IF updated THEN 0 ELSE @]
  /\ UNCHANGED <<runtime, socketOf, open, inbox, sends, command>>

\* The peer sends a command that it has no answer to, over the open socket.
PeerSends(c) ==
  /\ runtime # NoLink /\ link[runtime].socket \in open /\ link[runtime].cipher
  /\ command[c].at # "done" /\ sends < MaxSends
  /\ sends' = sends + 1
  /\ inbox' = inbox \cup {[of |-> c, socket |-> link[runtime].socket, seq |-> sends + 1]}
  /\ UNCHANGED <<runtime, link, socketOf, open, command>>

Reservations == {c \in Commands : command[c].at = "reserving"}
Uploads == {c \in Commands : command[c].at = "uploading"}

\* runCommand: an upload reserves its place before it awaits its task; a
\* command may be refused at once.
Run(c) ==
  \E at \in {"running", "reserving", "done"} :
    /\ at = "reserving" => Cardinality(Uploads \cup Reservations) < MaxUploads
    /\ command' = [command EXCEPT ![c] = [at |-> at, runs |-> command[c].runs + 1]]

\* Faulty variant of RememberRequest: commands are remembered by their answers.
RememberAnswers(l, c) == link[l].ledger \cup {d \in Commands : command'[d].at = "done"}

\* A command enters the ledger as it starts.
RememberRequest(l, c) == link[l].ledger \cup {c}

\* receive(): messages of an older socket and of an older number are dropped;
\* a command that the ledger has is not run again, its answer is.
Receive(message) ==
  LET l == runtime  c == message.of IN
  /\ message \in inbox
  /\ inbox' = inbox \ {message}
  /\ IF l # NoLink /\ message.socket = link[l].socket /\ message.seq > link[l].last
     THEN /\ IF link[l].cipher /\ c \notin link[l].ledger
             THEN Run(c)
             ELSE UNCHANGED command
          /\ link' = [link EXCEPT ![l].last = message.seq,
                                  ![l].ledger = IF link[l].cipher THEN RememberRequest(l, c) ELSE @]
     ELSE UNCHANGED <<link, command>>
  /\ UNCHANGED <<runtime, socketOf, open, sends>>

\* The operation of a command, or of an upload's beginning, has ended; and an
\* upload is completed, aborted or expires.
CommandEnds(c) ==
  /\ \/ command[c].at = "running" /\ command' = [command EXCEPT ![c].at = "done"]
     \/ command[c].at = "reserving" /\ \E at \in {"uploading", "done"} : command' = [command EXCEPT ![c].at = at]
     \/ command[c].at = "uploading" /\ command' = [command EXCEPT ![c].at = "done"]
  /\ UNCHANGED <<runtime, link, socketOf, open, inbox, sends>>

\* A socket closes, the one of its session (no other is open: the socket before
\* it has closed): another follows after a delay, unless the session is over.
SocketClosed(n) ==
  LET l == socketOf[n] IN
  /\ n \in open /\ open' = open \ {n}
  /\ inbox' = {m \in inbox : m.socket # n}
  /\ LET gone == [link EXCEPT ![l].socket = 0, ![l].cipher = FALSE] IN
     IF link[l].stopping \/ runtime # l THEN link' = gone
     ELSE \/ \E how \in Ended : link' = [gone EXCEPT ![l].stopping = TRUE, ![l].status = how]
          \/ link' = [gone EXCEPT ![l].status = "reconnecting", ![l].timer = TRUE]
  /\ UNCHANGED <<runtime, socketOf, sends, command>>

Reconnect(l) ==
  /\ link[l].timer
  /\ IF link[l].stopping \/ runtime # l
     THEN link' = [link EXCEPT ![l].timer = FALSE] /\ UNCHANGED <<socketOf, open>>
     ELSE NewSocket(l) /\ link' = Connected(link, l)
  /\ UNCHANGED <<runtime, inbox, sends, command>>

\* revoke() and expire(): the session stops and its socket closes, and revoke()
\* clears the timer of a reconnection too; stop() forgets the session.
StopLink ==
  /\ runtime # NoLink /\ ~link[runtime].stopping
  /\ \E how \in Ended, forget \in BOOLEAN :
       /\ link' = [(IF forget THEN Cleared(runtime) ELSE link) EXCEPT
                     ![runtime].stopping = TRUE, ![runtime].status = how,
                     ![runtime].timer = how = "expired" /\ ~forget /\ link[runtime].timer]
       /\ runtime' = IF forget THEN NoLink ELSE runtime
       /\ command' = IF forget THEN Forgotten ELSE command
  /\ UNCHANGED <<socketOf, open, inbox, sends>>

LinkNext ==
  \/ \E l \in Links : CreateLink(l) \/ LinkCreated(l) \/ PeerKey(l) \/ Reconnect(l)
  \/ \E c \in Commands : PeerSends(c) \/ CommandEnds(c)
  \/ \E m \in inbox : Receive(m)
  \/ \E n \in open : SocketClosed(n)
  \/ StopLink

LinkSpec == LinkInit /\ [][LinkNext]_linkVars

-----------------------------------------------------------------------------
\* Commands are sent again over new sockets, messages arrive from old ones and
\* in any order: a session runs a command once as long as its ledger remembers
\* it, and the uploads never exceed their limit, those being started included.
RemoteCommandsOnce ==
  /\ \A c \in Commands : command[c].runs <= Cardinality({l \in Links : link[l].status # "new"})
  /\ Cardinality(Uploads \cup Reservations) <= MaxUploads

-----------------------------------------------------------------------------
(* What one session sends: the queue of outgoing messages, the requests for *)
(* trust a peer that connects is shown, and the timer of its end.          *)
VARIABLES
  sock,      \* its socket: number, open, with the cipher agreed
  outbox,    \* sendChain: messages that wait, in order
  entries,   \* sendQueueEntries
  sendNumber,  \* nextSequence
  arrived,   \* messages the socket has taken, in order
  owed,      \* reliable messages accepted for the current socket
  trusts,    \* pendingTrustRequests, in order
  life       \* ticks left, those of the running timer, and whether it has ended

sendVars == <<sock, outbox, entries, sendNumber, arrived, owed, trusts, life>>

Unnumbered == 0
NoSocket(n) == [number |-> n, open |-> FALSE, cipher |-> FALSE]

SendTypeOK ==
  /\ sock \in [number : 0..MaxSockets, open : BOOLEAN, cipher : BOOLEAN]
  /\ entries \in 0..MaxQueue /\ sendNumber \in 0..MaxSends
  /\ outbox \in Seq([socket : 1..MaxSockets, seq : 1..MaxSends]) /\ arrived \in Seq(1..MaxSends)
  /\ owed \subseteq 0..MaxSends /\ trusts \in Seq(TrustAsks)
  /\ life \in [left : 0..Lifetime, timer : 0..MaxDelay, over : BOOLEAN]

Least(m, n) == IF m < n THEN m ELSE n

SendInit ==
  /\ sock = NoSocket(0) /\ outbox = <<>> /\ entries = 0 /\ sendNumber = 0
  /\ arrived = <<>> /\ owed = {} /\ trusts = <<>>
  /\ life = [left |-> Lifetime, timer |-> Least(Lifetime, MaxDelay), over |-> FALSE]

IsConnected == sock.open /\ sock.cipher

\* A socket opens in the place of the closed one, and agrees on its cipher.
SocketOpens ==
  /\ ~sock.open /\ ~life.over /\ sock.number < MaxSockets
  /\ sock' = [number |-> sock.number + 1, open |-> TRUE, cipher |-> FALSE]
  /\ owed' = {}
  /\ UNCHANGED <<outbox, entries, sendNumber, arrived, trusts, life>>
KeyAgreed ==
  /\ sock.open /\ ~sock.cipher /\ ~life.over
  /\ sock' = [sock EXCEPT !.cipher = TRUE]
  /\ UNCHANGED <<outbox, entries, sendNumber, arrived, owed, trusts, life>>
SocketLost ==
  /\ sock.open /\ sock' = NoSocket(sock.number)
  /\ UNCHANGED <<outbox, entries, sendNumber, arrived, owed, trusts, life>>

\* Faulty variant of Overflow: a message that finds no room is left out.
OverflowDrops(reliable) == UNCHANGED sock

\* A message that must arrive and finds no room ends the connection.
Overflow(reliable) == IF reliable THEN sock' = NoSocket(sock.number) ELSE UNCHANGED sock

\* send(): events are sent at best effort, answers and approvals reliably.
SendMessage(reliable) ==
  /\ IsConnected
  /\ IF entries >= MaxQueue
     THEN /\ Overflow(reliable)
          /\ owed' = (IF reliable THEN owed \cup {Unnumbered} ELSE owed)
          /\ UNCHANGED <<outbox, entries, sendNumber>>
     ELSE /\ sendNumber < MaxSends /\ sendNumber' = sendNumber + 1
          /\ outbox' = Append(outbox, [socket |-> sock.number, seq |-> sendNumber + 1])
          /\ entries' = entries + 1
          /\ owed' = (IF reliable THEN owed \cup {sendNumber + 1} ELSE owed)
          /\ UNCHANGED sock
  /\ UNCHANGED <<arrived, trusts, life>>

\* The chain comes to a message: it leaves over the socket it was meant for,
\* or not at all; a socket that refuses it is ended.
SendNext ==
  /\ outbox # <<>>
  /\ outbox' = Tail(outbox) /\ entries' = entries - 1
  /\ IF IsConnected /\ ~life.over /\ Head(outbox).socket = sock.number
     THEN \/ arrived' = Append(arrived, Head(outbox).seq) /\ UNCHANGED sock
          \/ sock' = NoSocket(sock.number) /\ UNCHANGED arrived
     ELSE UNCHANGED <<arrived, sock>>
  /\ UNCHANGED <<sendNumber, owed, trusts, life>>

\* The map pendingTrustRequests without a key, which it has once at most.
WithoutTrust(a) ==
  IF a \in ToSet(trusts) THEN RemoveAt(trusts, CHOOSE i \in DOMAIN trusts : trusts[i] = a) ELSE trusts

\* trackTrustRequest: a request asked again is the newest; the oldest one
\* makes room; an answer, of the peer or of the window, takes it out.
TrustRequested(a) ==
  LET kept == Append(WithoutTrust(a), a) IN
  /\ ~life.over
  /\ trusts' = IF Len(kept) > MaxTrusts THEN Tail(kept) ELSE kept
  /\ UNCHANGED <<sock, outbox, entries, sendNumber, arrived, owed, life>>
TrustResolved(a) ==
  /\ a \in ToSet(trusts)
  /\ trusts' = WithoutTrust(a)
  /\ UNCHANGED <<sock, outbox, entries, sendNumber, arrived, owed, life>>

\* scheduleExpiry: a timer runs for MAX_TIMER_DELAY_MS at most, and is set
\* again until the session's time is over.
TimePasses ==
  /\ ~life.over
  /\ IF life.timer > 1 THEN life' = [life EXCEPT !.left = @ - 1, !.timer = @ - 1] /\ UNCHANGED sock
     ELSE IF life.left > 1
     THEN life' = [life EXCEPT !.left = @ - 1, !.timer = Least(life.left - 1, MaxDelay)] /\ UNCHANGED sock
     ELSE life' = [left |-> 0, timer |-> 0, over |-> TRUE] /\ sock' = NoSocket(sock.number)
  /\ UNCHANGED <<outbox, entries, sendNumber, arrived, owed, trusts>>

SendNextState ==
  \/ SocketOpens \/ KeyAgreed \/ SocketLost \/ SendNext \/ TimePasses
  \/ \E reliable \in BOOLEAN : SendMessage(reliable)
  \/ \E a \in TrustAsks : TrustRequested(a) \/ TrustResolved(a)

SendSpec == SendInit /\ [][SendNextState]_sendVars

-----------------------------------------------------------------------------
\* Over all the sockets of a session messages leave in the order of their
\* numbers, the queue stays within its limit and counts what waits, and while
\* the connection lasts no reliable message is passed over: it has left or it
\* waits, whatever overflowed, failed or was reconnected.
SendsInOrder ==
  /\ \A i, j \in DOMAIN arrived : i < j => arrived[i] < arrived[j]
  /\ entries = Len(outbox) /\ Len(trusts) <= MaxTrusts
  /\ IsConnected => owed \subseteq ToSet(arrived) \cup {m.seq : m \in ToSet(outbox)}
=============================================================================
