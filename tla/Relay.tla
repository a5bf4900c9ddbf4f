-------------------------------- MODULE Relay --------------------------------
(***************************************************************************)
(* What the forward to the model (engine/tunnel.py) promises of each       *)
(* connection: two streams, one per direction.  What is delivered of a     *)
(* stream is a prefix of what was sent, in order; and the receiver is told *)
(* that the stream has ended only when it has all of it and the sender has *)
(* finished -- unless an end or the hop between them went away.            *)
(***************************************************************************)
EXTENDS Naturals, Sequences, SequencesExt

CONSTANTS Conns, MaxBytes

Directions == {"up", "down"}        \* client to server, server to client
Streams == Conns \X Directions

VARIABLES
    sent,        \* the bytes written to each stream
    finished,    \* the streams whose sender has finished
    lossy,       \* the streams an end of which went away
    delivered,   \* the bytes read from each stream
    ended        \* the streams whose receiver has seen the end

vars == <<sent, finished, lossy, delivered, ended>>

Init ==
    /\ sent = [s \in Streams |-> <<>>]
    /\ finished = {}
    /\ lossy = {}
    /\ delivered = [s \in Streams |-> <<>>]
    /\ ended = {}

Write(s) ==
    /\ s \notin finished /\ Len(sent[s]) < MaxBytes
    /\ sent' = [sent EXCEPT ![s] = Append(@, Len(@) + 1)]
    /\ UNCHANGED <<finished, lossy, delivered, ended>>

(* An end closes or dies: it finishes one stream, and may cost others.      *)
Leave ==
    /\ finished \subseteq finished' /\ finished' \subseteq Streams
    /\ lossy \subseteq lossy' /\ lossy' \subseteq Streams
    /\ UNCHANGED <<sent, delivered, ended>>

Deliver(s) ==
    /\ s \notin ended
    /\ \E n \in Len(delivered[s]) + 1 .. Len(sent[s]) :
           delivered' = [delivered EXCEPT ![s] = SubSeq(sent[s], 1, n)]
    /\ UNCHANGED <<sent, finished, lossy, ended>>

End(s) ==
    /\ s \notin ended
    /\ \/ s \in lossy
       \/ s \in finished /\ delivered[s] = sent[s]
    /\ ended' = ended \cup {s}
    /\ UNCHANGED <<sent, finished, lossy, delivered>>

Next == Leave \/ \E s \in Streams : Write(s) \/ Deliver(s) \/ End(s)

Spec == Init /\ [][Next]_vars
=============================================================================
