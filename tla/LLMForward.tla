----------------------------- MODULE LLMForward ------------------------------
(***************************************************************************)
(* The forward that carries a model's endpoint over the rack manager's SSH *)
(* connection (engine/tunnel.py, LLMForward).                              *)
(*                                                                         *)
(* start() connects, through a jump host if there is one, binds a local    *)
(* port and starts a thread that accepts.  Each connection accepted gets a *)
(* thread that opens a channel to the server and two that copy, one per    *)
(* direction; when both have ended it closes the channel and the socket.   *)
(* close() takes the listener and the SSH connections away under all of    *)
(* them.  A stream is the bytes of one direction of one connection.        *)
(***************************************************************************)
EXTENDS Naturals, Sequences, SequencesExt

CONSTANTS Conns, MaxBytes

(* What the constants must satisfy, assumed by Channels and Progress      *)
ForwardAssumption == MaxBytes \in Nat

Directions == {"up", "down"}
Streams == Conns \X Directions

VARIABLES
    starter,     \* where start() is
    keyFiles,    \* the hops whose private key is on disk
    hops,        \* the SSH connections that are open: _bastion_client, _client
    listening,   \* the listener is open
    stop,        \* close() was called
    acceptor,    \* the thread of _accept_loop
    handler,     \* the thread of _handle, per connection
    pump,        \* the thread of _pipe, per stream
    inbox,       \* bytes of a stream not read by its pump yet
    chunk,       \* bytes the pump has read and not written
    outbox,      \* bytes the pump has written and the receiver not read
    eof,         \* the streams whose receiver was told the end
    gone,        \* <<c, e>>: the ends of a connection that have closed or died
    died,        \* those of them that died, with what they had not sent yet
    sent, delivered, ended    \* as in Relay

owner == <<starter, keyFiles, hops, listening, stop, acceptor>>
copying == <<handler, pump, inbox, chunk, outbox, eof>>
ends == <<gone, died, sent, delivered, ended>>
vars == <<owner, copying, ends>>

Ends == {"client", "server"}
Sender(s) == IF s[2] = "up" THEN "client" ELSE "server"
Receiver(s) == IF s[2] = "up" THEN "server" ELSE "client"

HopUp == "console" \in hops

Init ==
    /\ starter = "idle"
    /\ keyFiles = {} /\ hops = {}
    /\ listening = FALSE /\ stop = FALSE
    /\ acceptor = "none"
    /\ handler = [c \in Conns |-> "none"]
    /\ pump = [s \in Streams |-> "none"]
    /\ inbox = [s \in Streams |-> <<>>]
    /\ chunk = [s \in Streams |-> <<>>]
    /\ outbox = [s \in Streams |-> <<>>]
    /\ eof = {}
    /\ gone = {} /\ died = {}
    /\ sent = [s \in Streams |-> <<>>]
    /\ delivered = [s \in Streams |-> <<>>]
    /\ ended = {}

-----------------------------------------------------------------------------
(* start(), one stage at a time.                                           *)

Stage(from, to) == starter = from /\ starter' = to

Begin ==
    /\ starter = "idle" /\ ~stop
    /\ starter' \in {"bastion-key", "key"}    \* with a jump host, and without
    /\ UNCHANGED <<keyFiles, hops, listening, stop, acceptor, copying, ends>>

(* The key of a hop is written to disk, or is missing from the store.       *)
LoadKey(hop, at, then) ==
    /\ starter = at
    /\ \/ starter' = then /\ keyFiles' = keyFiles \cup {hop}
       \/ starter' = "raised" /\ UNCHANGED keyFiles
    /\ UNCHANGED <<hops, listening, stop, acceptor, copying, ends>>

(* connect, and unlink the key whatever came of it.                         *)
ConnectHop(hop, at, then) ==
    /\ starter = at
    /\ \E connected \in BOOLEAN :
          /\ starter' = IF connected THEN then ELSE "raised"
          /\ hops' = IF connected THEN hops \cup {hop} ELSE hops
          /\ keyFiles' = keyFiles \ {hop}
    /\ UNCHANGED <<listening, stop, acceptor, copying, ends>>

OpenNested ==
    /\ Stage("nested", "key") \/ Stage("nested", "raised")
    /\ UNCHANGED <<keyFiles, hops, listening, stop, acceptor, copying, ends>>

(* The rack manager's password is looked up while its key is on disk.       *)
GetPassword ==
    /\ starter = "password"
    /\ \/ starter' = "connect"
       \/ starter' = "no-password"
    /\ UNCHANGED <<keyFiles, hops, listening, stop, acceptor, copying, ends>>

Bind ==
    /\ starter = "bind"
    /\ \/ /\ starter' = "started"
          /\ listening' = TRUE
          /\ acceptor' = "accepting"
          /\ UNCHANGED <<hops, stop>>
       \/ /\ starter' = "raised"
          /\ hops' = {}
          /\ stop' = TRUE
          /\ UNCHANGED <<listening, acceptor>>
    /\ UNCHANGED <<keyFiles, copying, ends>>

Start ==
    \/ Begin
    \/ LoadKey("bastion", "bastion-key", "bastion-connect")
    \/ ConnectHop("bastion", "bastion-connect", "nested")
    \/ OpenNested
    \/ LoadKey("console", "key", "password")
    \/ GetPassword
    \/ ConnectHop("console", "connect", "bind")
    \/ Bind

StartOver == starter \in {"idle", "started", "raised", "no-password"}

(* Whoever opened the forward closes it, once: after the run, or when       *)
(* start() has raised.                                                      *)
Close ==
    /\ StartOver /\ starter # "idle"
    /\ ~stop
    /\ stop' = TRUE
    /\ listening' = FALSE
    /\ hops' = {}
    /\ UNCHANGED <<starter, keyFiles, acceptor, copying, ends>>

(* The connection to the rack manager, or to the jump host, is lost.        *)
LoseHop ==
    /\ starter = "started" /\ HopUp
    /\ hops' = {}
    /\ UNCHANGED <<starter, keyFiles, listening, stop, acceptor, copying, ends>>

-----------------------------------------------------------------------------
(* The threads behind the listener.                                        *)

Dial(c) ==
    /\ listening /\ handler[c] = "none"
    /\ handler' = [handler EXCEPT ![c] = "backlog"]
    /\ UNCHANGED <<owner, pump, inbox, chunk, outbox, eof, ends>>

Accept(c) ==
    /\ acceptor = "accepting" /\ ~stop /\ listening
    /\ handler[c] = "backlog"
    /\ handler' = [handler EXCEPT ![c] = "opening"]
    /\ UNCHANGED <<owner, pump, inbox, chunk, outbox, eof, ends>>

(* The flag is seen, accept() fails on the closed listener, or _server is   *)
(* None by then, which ends the thread as well.                             *)
AcceptorEnds ==
    /\ acceptor = "accepting" /\ stop
    /\ acceptor' = "ended"
    /\ UNCHANGED <<starter, keyFiles, hops, listening, stop, copying, ends>>

(* A listener that is closed resets what it has not accepted.               *)
Reset(c) ==
    /\ handler[c] = "backlog" /\ ~listening
    /\ handler' = [handler EXCEPT ![c] = "closed"]
    /\ eof' = eof \cup {<<c, "down">>}
    /\ UNCHANGED <<owner, pump, inbox, chunk, outbox, ends>>

OpenChannel(c) ==
    /\ handler[c] = "opening"
    /\ \/ /\ HopUp
          /\ handler' = [handler EXCEPT ![c] = "piping"]
          /\ pump' = [s \in Streams |-> IF s[1] = c THEN "reading" ELSE pump[s]]
          /\ UNCHANGED eof
       \/ /\ handler' = [handler EXCEPT ![c] = "closed"]
          /\ eof' = eof \cup {<<c, "down">>}
          /\ UNCHANGED pump
    /\ UNCHANGED <<owner, inbox, chunk, outbox, ends>>

(* An end of a stream is out of reach: its process is gone, or for the      *)
(* server the hop is.                                                       *)
OutOfReach(s, e) == <<s[1], e>> \in gone \/ (e = "server" /\ ~HopUp)

Read(s) ==
    /\ pump[s] = "reading" /\ inbox[s] # <<>>
    /\ chunk' = [chunk EXCEPT ![s] = inbox[s]]
    /\ inbox' = [inbox EXCEPT ![s] = <<>>]
    /\ pump' = [pump EXCEPT ![s] = "writing"]
    /\ UNCHANGED <<owner, handler, outbox, eof, ends>>

(* The end of the stream, or an error in its place.                         *)
ReadEnd(s) ==
    /\ pump[s] = "reading"
    /\ \/ inbox[s] = <<>> /\ OutOfReach(s, Sender(s))
       \/ <<s[1], Sender(s)>> \in died
       \/ Sender(s) = "server" /\ ~HopUp
    /\ pump' = [pump EXCEPT ![s] = "finally"]
    /\ UNCHANGED <<owner, handler, inbox, chunk, outbox, eof, ends>>

(* sendall() writes the whole of what was read, or raises and drops it.     *)
WriteOut(s) ==
    /\ pump[s] = "writing"
    /\ \/ /\ ~OutOfReach(s, Receiver(s))
          /\ outbox' = [outbox EXCEPT ![s] = @ \o chunk[s]]
          /\ pump' = [pump EXCEPT ![s] = "reading"]
       \/ /\ OutOfReach(s, Receiver(s))
          /\ pump' = [pump EXCEPT ![s] = "finally"]
          /\ UNCHANGED outbox
    /\ chunk' = [chunk EXCEPT ![s] = <<>>]
    /\ UNCHANGED <<owner, handler, inbox, eof, ends>>

(* finally: dst.shutdown_write(), which a channel has and a socket has not. *)
TellsNobody(s) == FALSE

TellsTheEnd(s) == s[2] = "up"

ShutDown(s) ==
    /\ pump[s] = "finally"
    /\ pump' = [pump EXCEPT ![s] = "ended"]
    /\ eof' = IF TellsTheEnd(s) THEN eof \cup {s} ELSE eof
    /\ UNCHANGED <<owner, handler, inbox, chunk, outbox, ends>>

(* Both pumps are joined before the channel and the socket are closed.      *)
OneJoined(c) == \E d \in Directions : pump[<<c, d>>] = "ended"

Joined(c) == \A d \in Directions : pump[<<c, d>>] = "ended"

ClosePair(c) ==
    /\ handler[c] = "piping" /\ Joined(c)
    /\ handler' = [handler EXCEPT ![c] = "closed"]
    /\ eof' = eof \cup {<<c, d>> : d \in Directions}
    /\ pump' = [s \in Streams |-> IF s[1] = c THEN "ended" ELSE pump[s]]
    /\ UNCHANGED <<owner, inbox, chunk, outbox, ends>>

-----------------------------------------------------------------------------
(* The client on the local port, and the model's server.                   *)

Present(c, e) ==
    /\ <<c, e>> \notin gone
    /\ handler[c] \in IF e = "client" THEN {"backlog", "opening", "piping"} ELSE {"piping"}

Write(s) ==
    /\ Present(s[1], Sender(s)) /\ Len(sent[s]) < MaxBytes
    /\ Sender(s) = "client" \/ HopUp
    /\ sent' = [sent EXCEPT ![s] = Append(@, Len(@) + 1)]
    /\ inbox' = [inbox EXCEPT ![s] = Append(@, Len(sent[s]) + 1)]
    /\ UNCHANGED <<owner, handler, pump, chunk, outbox, eof, gone, died, delivered, ended>>

Leave(c, e) ==
    /\ Present(c, e)
    /\ gone' = gone \cup {<<c, e>>}
    /\ died' \in {died, died \cup {<<c, e>>}}
    /\ UNCHANGED <<owner, copying, sent, delivered, ended>>

Deliver(s) ==
    /\ outbox[s] # <<>> /\ <<s[1], Receiver(s)>> \notin gone
    /\ delivered' = [delivered EXCEPT ![s] = @ \o outbox[s]]
    /\ outbox' = [outbox EXCEPT ![s] = <<>>]
    /\ UNCHANGED <<owner, handler, pump, inbox, chunk, eof, gone, died, sent, ended>>

(* The receiver has read everything and is told the end; the server is told *)
(* by the loss of the hop too, whatever was on its way to it then.          *)
SeeEnd(s) ==
    /\ s \notin ended /\ <<s[1], Receiver(s)>> \notin gone
    /\ \/ s \in eof /\ outbox[s] = <<>>
       \/ s[2] = "up" /\ handler[s[1]] = "piping" /\ ~HopUp
    /\ ended' = ended \cup {s}
    /\ outbox' = [outbox EXCEPT ![s] = <<>>]
    /\ UNCHANGED <<owner, handler, pump, inbox, chunk, eof, gone, died, sent, delivered>>

(* An HTTP server closes the connection of a client that has hung up.       *)
ServerHangsUp(c) == <<c, "up">> \in ended /\ Leave(c, "server")

Threads ==
    \/ AcceptorEnds
    \/ \E c \in Conns : Accept(c) \/ Reset(c) \/ OpenChannel(c) \/ ClosePair(c)

Pump(s) == Read(s) \/ ReadEnd(s) \/ WriteOut(s) \/ ShutDown(s)

Next ==
    \/ Start \/ Close \/ LoseHop \/ Threads
    \/ \E s \in Streams : Pump(s) \/ Write(s) \/ Deliver(s) \/ SeeEnd(s)
    \/ \E c \in Conns, e \in Ends : Dial(c) \/ Leave(c, e)

Spec == Init /\ [][Next]_vars

(* The threads run and the ends read what reaches them; a server closes a   *)
(* connection whose client has hung up.  Nothing else is assumed of them.   *)
FairSpec ==
    /\ Spec
    /\ WF_vars(AcceptorEnds)
    /\ \A c \in Conns :
          /\ WF_vars(Accept(c)) /\ WF_vars(Reset(c)) /\ WF_vars(OpenChannel(c))
          /\ WF_vars(ClosePair(c)) /\ WF_vars(ServerHangsUp(c))
    /\ \A s \in Streams : WF_vars(Pump(s)) /\ WF_vars(Deliver(s)) /\ WF_vars(SeeEnd(s))

-----------------------------------------------------------------------------
(* The shape of the state; a pump holds bytes only between a read and the   *)
(* write of what was read (tunnel.py:263-276).                              *)
TypeOK ==
    /\ starter \in {"idle", "bastion-key", "bastion-connect", "nested", "key", "password",
                   "no-password", "connect", "bind", "started", "raised"}
    /\ keyFiles \subseteq {"bastion", "console"}
    /\ hops \subseteq {"bastion", "console"}
    /\ listening \in BOOLEAN /\ stop \in BOOLEAN
    /\ acceptor \in {"none", "accepting", "ended"}
    /\ handler \in [Conns -> {"none", "backlog", "opening", "piping", "closed"}]
    /\ pump \in [Streams -> {"none", "reading", "writing", "finally", "ended"}]
    /\ \A s \in Streams : pump[s] # "writing" => chunk[s] = <<>>
    /\ died \subseteq gone /\ gone \subseteq Conns \X Ends
    /\ eof \subseteq Streams /\ ended \subseteq Streams

(* A stream may lose its tail when its sender died, when its receiver left, *)
(* or when the hop -- or the listener, or the channel -- was not there.     *)
Lossy ==
    {s \in Streams :
        \/ <<s[1], Sender(s)>> \in died
        \/ <<s[1], Receiver(s)>> \in gone
        \/ handler[s[1]] # "none" /\ ~HopUp
        \/ handler[s[1]] = "closed" /\ pump[s] = "none"}

Finished == {s \in Streams : <<s[1], Sender(s)>> \in gone}

(* The forward is a relay: it neither reorders, invents nor cuts a stream,  *)
(* and tells an end only when there is one (tunnel.py:221-276).             *)
Promise == INSTANCE Relay WITH finished <- Finished, lossy <- Lossy
Relays == Promise!Spec

(* After start() no private key is left on disk, whatever leg failed, with  *)
(* one exception: the password is looked up between the key's write and the *)
(* try that unlinks it (tunnel.py:161-180).                                 *)
KeyLeftOnlyForPassword ==
    StartOver => keyFiles = IF starter = "no-password" THEN {"console"} ELSE {}

(* Once the forward is closed no SSH connection of it is open, also when    *)
(* start() had got half of them (tunnel.py:197-210).                        *)
ClosedMeansClosed == stop => hops = {} /\ ~listening

(* A client that hangs up is let go: its pair is closed in the end, on both *)
(* sides, whatever the other end and the hop do meanwhile (tunnel.py:       *)
(* 240-276).                                                                *)
HangUpClosesPair ==
    \A c \in Conns : <<c, "client">> \in gone ~> handler[c] = "closed"

-----------------------------------------------------------------------------
(* tunnel.py:270: peer died mid-stream; drop the pair.  A server that goes  *)
(* away, or a hop that is lost, ends the client's stream.                   *)
LostServerEndsStream ==
    \A c \in Conns :
        handler[c] = "piping" /\ (<<c, "server">> \in gone \/ ~HopUp)
            ~> <<c, "down">> \in ended \/ <<c, "client">> \in gone
=============================================================================
