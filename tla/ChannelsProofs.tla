--------------------------- MODULE ChannelsProofs ----------------------------
(***************************************************************************)
(* Proofs about the channels a run and an operator work through.           *)
(*                                                                         *)
(* A session uses one channel at a time and a step of it moves no other,   *)
(* so each channel keeps an invariant of its own, shown over its own next- *)
(* state relation and carried to the session at the end of its section:    *)
(*                                                                         *)
(*   Redfish      no hop outlives the run it was made for;                 *)
(*   LLMForward   what arrived, what is on the way and what was sent are   *)
(*                one sequence in each direction, which makes the forward  *)
(*                implement the relay of ByteRelay, and what the threads   *)
(*                of a forward leave behind when it closes is nothing;     *)
(*   Streams      what the loop prints is never read back as its own       *)
(*                output, and a verify's lines reach no turn but one whose *)
(*                thread had the same ident;                               *)
(*   SingleTests  a result is of the test that has the number sent, and    *)
(*                that is the one asked for unless the script was launched *)
(*                again for it, as long as no read fell short;             *)
(*   LineEditor   the line is what was typed, whatever is struck ahead of  *)
(*                what is read.                                            *)
(*                                                                         *)
(* Console has ConsoleProofs.                                              *)
(***************************************************************************)
EXTENDS Channels, FiniteSetTheorems, SequenceTheorems, WellFoundedInduction, TLAPS

\* A step of the session is one of the channel in use, or moves no channel.
LEMMA OneChannelMoves ==
  [Next]_vars =>
    /\ UNCHANGED inUse \/ UNCHANGED vars
    /\ [Capture!Next]_streamVars /\ [Editor!Next]_editorVars
    /\ [Bmc!Next]_redfishVars /\ [Menu!Next]_menuVars /\ [Fwd!Next]_modelVars
BY DEF Next, StreamStep, EditorStep, SerialStep, RedfishStep, MenuStep,
   ModelStep, vars

-----------------------------------------------------------------------------
(* Redfish.                                                                *)

\* A hop that is open is the one the client has the port of.
HopInv ==
  /\ hops \in Nat
  /\ port # None => port = forward /\ open = {port}
  /\ port = None => open = {}
  /\ at = "ended" => open = {}

LEMMA HopStep == HopInv /\ [Bmc!Next]_redfishVars => HopInv'
<1> SUFFICES ASSUME HopInv, [Bmc!Next]_redfishVars PROVE HopInv'
  OBVIOUS
<1> USE DEF HopInv
<1>1. CASE Bmc!Build
  BY <1>1 DEF Bmc!Build, Bmc!client
<1>2. CASE Bmc!Fetch
  BY <1>2 DEF Bmc!Fetch, Bmc!client
<1>3. CASE Bmc!Direct
  BY <1>3 DEF Bmc!Direct, Bmc!Leave, Bmc!client
<1>4. CASE Bmc!StartHop
  <2>1. None \notin Nat /\ hops + 1 \in Nat
    BY PartsAssumption DEF Bmc!RedfishAssumption
  <2> QED
    BY <1>4, <2>1 DEF Bmc!StartHop, Bmc!Leave, Bmc!KnownPort
<1>5. CASE Bmc!Tunneled
  BY <1>5 DEF Bmc!Tunneled, Bmc!Leave, Bmc!client
<1>6. CASE Bmc!Close
  BY <1>6 DEF Bmc!Close
<1>7. CASE Bmc!CutOff
  BY <1>7 DEF Bmc!CutOff, Bmc!client
<1>8. CASE Bmc!Returned
  BY <1>8 DEF Bmc!Returned, Bmc!client
<1>9. CASE UNCHANGED redfishVars
  BY <1>9 DEF redfishVars
<1> QED
  BY <1>1, <1>2, <1>3, <1>4, <1>5, <1>6, <1>7, <1>8, <1>9 DEF Bmc!Next

\* A client without a port has no hop open, one with a port has one.
LEMMA HopOfTheRun == HopInv => Bmc!HopDiesWithTheRun
<1>1. Bmc!Cardinality({}) = 0 /\ Bmc!Cardinality({port}) = 1
  BY FS_EmptySet, FS_Singleton DEF Cardinality, Bmc!Cardinality, IsFiniteSet,
     Bmc!IsFiniteSet
<1> QED
  BY <1>1 DEF HopInv, Bmc!HopDiesWithTheRun

-----------------------------------------------------------------------------
(* LLMForward.                                                             *)

\* The keys on disk while start() is at a stage.
KeysAt(stage) ==
  IF stage = "bastion-connect" THEN {"bastion"}
  ELSE IF stage \in {"password", "connect", "no-password"} THEN {"console"}
  ELSE {}

\* Where start() is, what it has on disk and open, and who may close it.
OwnerInv ==
  /\ starter \in {"idle", "bastion-key", "bastion-connect", "nested", "key",
                  "password", "no-password", "connect", "bind", "started",
                  "raised"}
  /\ keyFiles = KeysAt(starter)
  /\ links \subseteq {"bastion", "console"}
  /\ stop \in BOOLEAN /\ listening \in BOOLEAN
  /\ acceptor \in {"none", "accepting", "ended"}
  /\ listening => starter = "started" /\ ~stop
  /\ stop => Fwd!StartOver /\ starter # "idle" /\ links = {}
  /\ Fwd!HopUp => starter \in {"bind", "started"}

LEMMA OwnerStep == OwnerInv /\ [Fwd!Next]_modelVars => OwnerInv'
<1> SUFFICES ASSUME OwnerInv, [Fwd!Next]_modelVars PROVE OwnerInv'
  OBVIOUS
<1> USE DEF OwnerInv, KeysAt, Fwd!StartOver, Fwd!HopUp
<1>1. CASE Fwd!Begin
  BY <1>1 DEF Fwd!Begin
<1>2. CASE Fwd!LoadKey("bastion", "bastion-key", "bastion-connect")
  BY <1>2 DEF Fwd!LoadKey
<1>3. CASE Fwd!ConnectHop("bastion", "bastion-connect", "nested")
  BY <1>3 DEF Fwd!ConnectHop
<1>4. CASE Fwd!OpenNested
  BY <1>4 DEF Fwd!OpenNested, Fwd!Stage
<1>5. CASE Fwd!LoadKey("console", "key", "password")
  BY <1>5 DEF Fwd!LoadKey
<1>6. CASE Fwd!GetPassword
  BY <1>6 DEF Fwd!GetPassword
<1>7. CASE Fwd!ConnectHop("console", "connect", "bind")
  BY <1>7 DEF Fwd!ConnectHop
<1>8. CASE Fwd!Bind
  <2>1. starter = "bind" /\ keyFiles' = keyFiles /\ keyFiles = KeysAt("bind")
    BY <1>8 DEF Fwd!Bind
  <2>2. KeysAt("bind") = {} /\ KeysAt("started") = {} /\ KeysAt("raised") = {}
    BY DEF KeysAt
  <2>3. ~stop /\ ~listening /\ links \subseteq {"bastion", "console"}
    BY <2>1
  <2> HIDE DEF KeysAt, OwnerInv
  <2>4. CASE /\ starter' = "started" /\ listening' = TRUE
             /\ acceptor' = "accepting" /\ UNCHANGED <<links, stop>>
    BY <2>1, <2>2, <2>3, <2>4 DEF OwnerInv
  <2>5. CASE /\ starter' = "raised" /\ links' = {} /\ stop' = TRUE
             /\ UNCHANGED <<listening, acceptor>>
    <3>1. acceptor \in {"none", "accepting", "ended"}
      BY DEF OwnerInv
    <3> QED
      BY <2>1, <2>2, <2>3, <2>5, <3>1 DEF OwnerInv
  <2> QED
    BY <1>8, <2>4, <2>5 DEF Fwd!Bind
<1>9. CASE Fwd!Close
  BY <1>9 DEF Fwd!Close
<1>10. CASE Fwd!LoseHop
  BY <1>10 DEF Fwd!LoseHop
<1>11. CASE Fwd!AcceptorEnds
  BY <1>11 DEF Fwd!AcceptorEnds
<1>12. CASE UNCHANGED Fwd!owner
  BY <1>12 DEF Fwd!owner
<1>13. Fwd!Start \/ Fwd!Close \/ Fwd!LoseHop \/ Fwd!AcceptorEnds
       \/ UNCHANGED Fwd!owner
  BY ZenonT(60) DEF Fwd!Next, Fwd!Threads, Fwd!Accept, Fwd!Reset, Fwd!OpenChannel,
     Fwd!ClosePair, Fwd!Pump, Fwd!Read, Fwd!ReadEnd, Fwd!WriteOut,
     Fwd!ShutDown, Fwd!Write, Fwd!Deliver, Fwd!SeeEnd, Fwd!Dial, Fwd!Leave,
     modelVars, Fwd!owner
<1> QED
  BY <1>1, <1>2, <1>3, <1>4, <1>5, <1>6, <1>7, <1>8, <1>9, <1>10, <1>11,
     <1>12, <1>13 DEF Fwd!Start

\* What is closed is closed, and what start() leaves on disk is one key.
LEMMA OwnerLeavesNothing ==
  OwnerInv => Fwd!ClosedMeansClosed /\ Fwd!KeyLeftOnlyForPassword
BY DEF OwnerInv, KeysAt, Fwd!ClosedMeansClosed, Fwd!KeyLeftOnlyForPassword,
   Fwd!StartOver

\* The threads of the forward, and what is behind the listener.
ThreadPlaces ==
  /\ handler \in [Conns -> {"none", "backlog", "opening", "piping", "closed"}]
  /\ pump \in [Fwd!Streams -> {"none", "reading", "writing", "finally", "ended"}]
  /\ eof \subseteq Fwd!Streams /\ ended \subseteq Fwd!Streams
  /\ gone \subseteq Conns \X Fwd!Ends /\ died \subseteq gone
  /\ \A c \in Conns : handler[c] # "none" => starter = "started"
  /\ \A c \in Conns, e \in Fwd!Ends : <<c, e>> \in gone => handler[c] # "none"

\* A stream and its connection: pumps run while the connection is piped, the
\* end is told when the pump has ended or there was none, and seen when told or
\* when the hop is down.
Wired(s) ==
  /\ handler[s[1]] \in {"none", "backlog", "opening"} => pump[s] = "none"
  /\ handler[s[1]] = "piping" => pump[s] # "none"
  /\ handler[s[1]] = "closed" => pump[s] \in {"none", "ended"}
  /\ s \in eof => pump[s] = "ended" \/ (pump[s] = "none" /\ handler[s[1]] = "closed")
  /\ s \in ended =>
       \/ s \in eof
       \/ s[2] = "up" /\ ~Fwd!HopUp /\ handler[s[1]] \in {"piping", "closed"}

ThreadsInv == ThreadPlaces /\ \A s \in Fwd!Streams : Wired(s)

\* A stream is of a connection, in one of two directions.
LEMMA StreamParts ==
  ASSUME NEW s \in Fwd!Streams
  PROVE  /\ s[1] \in Conns /\ s[2] \in {"up", "down"} /\ s = <<s[1], s[2]>>
         /\ Fwd!Sender(s) \in Fwd!Ends /\ Fwd!Receiver(s) \in Fwd!Ends
BY DEF Fwd!Streams, Fwd!Directions, Fwd!Sender, Fwd!Receiver, Fwd!Ends

\* Once start() is through, the hop can only go down.
LEMMA HopGoesDown ==
  ASSUME [Fwd!Next]_modelVars, starter = "started"
  PROVE  starter' = "started" /\ (Fwd!HopUp' => Fwd!HopUp)
BY DEF Fwd!Next, Fwd!Start, Fwd!Begin, Fwd!LoadKey, Fwd!ConnectHop,
   Fwd!OpenNested, Fwd!Stage, Fwd!GetPassword, Fwd!Bind, Fwd!Close,
   Fwd!LoseHop, Fwd!Threads, Fwd!AcceptorEnds, Fwd!Accept, Fwd!Reset,
   Fwd!OpenChannel, Fwd!ClosePair, Fwd!Pump, Fwd!Read, Fwd!ReadEnd,
   Fwd!WriteOut, Fwd!ShutDown, Fwd!Write, Fwd!Deliver, Fwd!SeeEnd, Fwd!Dial,
   Fwd!Leave, modelVars, Fwd!owner, Fwd!HopUp

\* The steps of the owner leave the connections alone.
OwnerMoves == UNCHANGED <<Fwd!copying, Fwd!ends>>

\* The steps of the forward, the owner's taken together.
LEMMA ForwardSteps ==
  ASSUME [Fwd!Next]_modelVars
  PROVE  \/ OwnerMoves
         \/ \E c \in Conns : Fwd!Accept(c) \/ Fwd!Reset(c) \/ Fwd!OpenChannel(c)
                             \/ Fwd!ClosePair(c) \/ Fwd!Dial(c)
         \/ \E s \in Fwd!Streams : Fwd!Read(s) \/ Fwd!ReadEnd(s) \/ Fwd!WriteOut(s)
                                   \/ Fwd!ShutDown(s) \/ Fwd!Write(s)
                                   \/ Fwd!Deliver(s) \/ Fwd!SeeEnd(s)
         \/ \E c \in Conns, e \in Fwd!Ends : Fwd!Leave(c, e)
<1>1. CASE Fwd!Start \/ Fwd!Close \/ Fwd!LoseHop \/ Fwd!AcceptorEnds
           \/ UNCHANGED modelVars
  BY <1>1 DEF Fwd!Start, Fwd!Begin, Fwd!LoadKey, Fwd!ConnectHop,
     Fwd!OpenNested, Fwd!Stage, Fwd!GetPassword, Fwd!Bind, Fwd!Close,
     Fwd!LoseHop, Fwd!AcceptorEnds, modelVars, OwnerMoves, Fwd!copying, Fwd!ends
<1> QED
  BY <1>1, Zenon DEF Fwd!Next, Fwd!Threads, Fwd!Pump

LEMMA ThreadPlacesStep ==
  ASSUME OwnerInv, ThreadsInv, [Fwd!Next]_modelVars
  PROVE  ThreadPlaces'
<1>0. /\ \A c \in Conns : handler[c] # "none" => starter' = "started"
      /\ ThreadPlaces
  BY HopGoesDown DEF ThreadPlaces, ThreadsInv
<1> USE <1>0 DEF ThreadPlaces
<1>1. CASE OwnerMoves
  BY <1>1 DEF OwnerMoves, Fwd!copying, Fwd!ends
<1>2. ASSUME NEW c \in Conns, Fwd!Accept(c) \/ Fwd!Reset(c) PROVE ThreadPlaces'
  BY <1>2 DEF Fwd!Accept, Fwd!Reset, Fwd!owner, Fwd!ends, Fwd!Streams,
     Fwd!Directions
<1>3. ASSUME NEW c \in Conns, Fwd!OpenChannel(c) PROVE ThreadPlaces'
  BY <1>3 DEF Fwd!OpenChannel, Fwd!owner, Fwd!ends, Fwd!Streams,
     Fwd!Directions
<1>4. ASSUME NEW c \in Conns, Fwd!ClosePair(c) PROVE ThreadPlaces'
  BY <1>4 DEF Fwd!ClosePair, Fwd!owner, Fwd!ends, Fwd!Streams,
     Fwd!Directions
<1>5. ASSUME NEW c \in Conns, Fwd!Dial(c) PROVE ThreadPlaces'
  BY <1>5 DEF Fwd!Dial, Fwd!owner, Fwd!ends, OwnerInv
<1>6. ASSUME NEW s \in Fwd!Streams,
             Fwd!Read(s) \/ Fwd!ReadEnd(s) \/ Fwd!WriteOut(s)
      PROVE  ThreadPlaces'
  BY <1>6 DEF Fwd!Read, Fwd!ReadEnd, Fwd!WriteOut, Fwd!owner, Fwd!ends
<1>7. ASSUME NEW s \in Fwd!Streams, Fwd!ShutDown(s) PROVE ThreadPlaces'
  BY <1>7 DEF Fwd!ShutDown, Fwd!owner, Fwd!ends
<1>8. ASSUME NEW s \in Fwd!Streams,
             Fwd!Write(s) \/ Fwd!Deliver(s) \/ Fwd!SeeEnd(s)
      PROVE  ThreadPlaces'
  BY <1>8 DEF Fwd!Write, Fwd!Deliver, Fwd!SeeEnd, Fwd!owner
<1>9. ASSUME NEW c \in Conns, NEW e \in Fwd!Ends, Fwd!Leave(c, e)
      PROVE  ThreadPlaces'
  <2>1. handler[c] # "none"
    BY <1>9 DEF Fwd!Leave, Fwd!Present
  <2> QED
    BY <1>9, <2>1 DEF Fwd!Leave, Fwd!owner, Fwd!copying
<1> QED
  BY <1>1, <1>2, <1>3, <1>4, <1>5, <1>6, <1>7, <1>8, <1>9, ForwardSteps

LEMMA WiredStep ==
  ASSUME OwnerInv, ThreadsInv, [Fwd!Next]_modelVars, NEW t \in Fwd!Streams
  PROVE  Wired(t)'
<1>0. /\ ThreadPlaces /\ Wired(t) /\ t[1] \in Conns /\ t[2] \in {"up", "down"}
      /\ t = <<t[1], t[2]>>
      /\ handler[t[1]] # "none" => (Fwd!HopUp' => Fwd!HopUp)
  BY HopGoesDown, StreamParts DEF ThreadPlaces, ThreadsInv
<1> USE <1>0 DEF ThreadPlaces, Wired
<1>1. CASE OwnerMoves
  BY <1>1 DEF OwnerMoves, Fwd!copying, Fwd!ends
<1>2. ASSUME NEW c \in Conns, Fwd!Accept(c) \/ Fwd!Dial(c) PROVE Wired(t)'
  BY <1>2 DEF Fwd!Accept, Fwd!Dial, Fwd!owner, Fwd!ends, Fwd!HopUp
<1>3. ASSUME NEW c \in Conns, Fwd!Reset(c) PROVE Wired(t)'
  <2>1. CASE t[1] = c
    BY <1>3, <2>1 DEF Fwd!Reset, Fwd!owner, Fwd!ends, Fwd!HopUp
  <2>2. CASE t[1] # c
    BY <1>3, <2>2 DEF Fwd!Reset, Fwd!owner, Fwd!ends, Fwd!HopUp
  <2> QED
    BY <2>1, <2>2
<1>4. ASSUME NEW c \in Conns, Fwd!OpenChannel(c) PROVE Wired(t)'
  <2>1. CASE t[1] = c
    BY <1>4, <2>1 DEF Fwd!OpenChannel, Fwd!owner, Fwd!ends, Fwd!HopUp
  <2>2. CASE t[1] # c
    BY <1>4, <2>2 DEF Fwd!OpenChannel, Fwd!owner, Fwd!ends, Fwd!HopUp
  <2> QED
    BY <2>1, <2>2
<1>5. ASSUME NEW c \in Conns, Fwd!ClosePair(c) PROVE Wired(t)'
  <2>1. CASE t[1] = c
    BY <1>5, <2>1 DEF Fwd!ClosePair, Fwd!owner, Fwd!ends, Fwd!HopUp
  <2>2. CASE t[1] # c
    BY <1>5, <2>2 DEF Fwd!ClosePair, Fwd!owner, Fwd!ends, Fwd!HopUp
  <2> QED
    BY <2>1, <2>2
<1>6. ASSUME NEW s \in Fwd!Streams,
             Fwd!Read(s) \/ Fwd!ReadEnd(s) \/ Fwd!WriteOut(s)
      PROVE  Wired(t)'
  BY <1>6 DEF Fwd!Read, Fwd!ReadEnd, Fwd!WriteOut, Fwd!owner, Fwd!ends, Fwd!HopUp
<1>7. ASSUME NEW s \in Fwd!Streams, Fwd!ShutDown(s) PROVE Wired(t)'
  BY <1>7 DEF Fwd!ShutDown, Fwd!owner, Fwd!ends, Fwd!HopUp
<1>8. ASSUME NEW s \in Fwd!Streams, Fwd!Write(s) \/ Fwd!Deliver(s)
      PROVE  Wired(t)'
  BY <1>8 DEF Fwd!Write, Fwd!Deliver, Fwd!owner, Fwd!HopUp
<1>9. ASSUME NEW s \in Fwd!Streams, Fwd!SeeEnd(s) PROVE Wired(t)'
  BY <1>9 DEF Fwd!SeeEnd, Fwd!owner, Fwd!HopUp
<1>10. ASSUME NEW c \in Conns, NEW e \in Fwd!Ends, Fwd!Leave(c, e)
      PROVE  Wired(t)'
  BY <1>10 DEF Fwd!Leave, Fwd!owner, Fwd!copying, Fwd!HopUp
<1> QED
  BY <1>1, <1>2, <1>3, <1>4, <1>5, <1>6, <1>7, <1>8, <1>9, <1>10, ForwardSteps

\* What a stream may have lost it stays without, and who is gone stays away.
LEMMA LossyGrows ==
  ASSUME OwnerInv, ThreadsInv, [Fwd!Next]_modelVars
  PROVE  /\ Fwd!Finished \subseteq Fwd!Finished'
         /\ Fwd!Lossy \subseteq Fwd!Lossy'
<1>1. gone \subseteq gone' /\ died \subseteq died'
  BY DEF Fwd!Next, Fwd!Start, Fwd!Begin, Fwd!LoadKey, Fwd!ConnectHop,
     Fwd!OpenNested, Fwd!Stage, Fwd!GetPassword, Fwd!Bind, Fwd!Close,
     Fwd!LoseHop, Fwd!Threads, Fwd!AcceptorEnds, Fwd!Accept, Fwd!Reset,
     Fwd!OpenChannel, Fwd!ClosePair, Fwd!Pump, Fwd!Read, Fwd!ReadEnd,
     Fwd!WriteOut, Fwd!ShutDown, Fwd!Write, Fwd!Deliver, Fwd!SeeEnd, Fwd!Dial,
     Fwd!Leave, modelVars, Fwd!ends
<1>2. ASSUME NEW s \in Fwd!Streams, s \in Fwd!Lossy PROVE s \in Fwd!Lossy'
  <2>0. /\ s[1] \in Conns /\ Wired(s) /\ ThreadPlaces
        /\ handler[s[1]] # "none" => (Fwd!HopUp' => Fwd!HopUp)
    BY HopGoesDown, StreamParts DEF ThreadPlaces, ThreadsInv
  <2>1. CASE <<s[1], Fwd!Sender(s)>> \in died \/ <<s[1], Fwd!Receiver(s)>> \in gone
    BY <1>1, <2>1 DEF Fwd!Lossy, Fwd!Sender, Fwd!Receiver
  <2>2. handler[s[1]] # "none" => handler'[s[1]] # "none"
    BY <2>0, ForwardSteps DEF ThreadPlaces, OwnerMoves, Fwd!Accept, Fwd!Reset,
       Fwd!OpenChannel, Fwd!ClosePair, Fwd!Read, Fwd!ReadEnd,
       Fwd!WriteOut, Fwd!ShutDown, Fwd!Write, Fwd!Deliver, Fwd!SeeEnd,
       Fwd!Dial, Fwd!Leave, Fwd!copying
  <2>3. CASE handler[s[1]] # "none" /\ ~Fwd!HopUp
    BY <2>0, <2>2, <2>3 DEF Fwd!Lossy
  <2>4. CASE handler[s[1]] = "closed" /\ pump[s] = "none"
    <3>1. handler'[s[1]] = "closed" /\ pump'[s] = "none"
      BY <2>0, <2>4, ForwardSteps, ZenonT(60) DEF ThreadPlaces, OwnerMoves, Fwd!Accept,
         Fwd!Reset, Fwd!OpenChannel, Fwd!ClosePair, Fwd!Read, Fwd!ReadEnd,
         Fwd!WriteOut, Fwd!ShutDown, Fwd!Write, Fwd!Deliver, Fwd!SeeEnd,
         Fwd!Dial, Fwd!Leave, Fwd!copying
    <3> QED
      BY <3>1 DEF Fwd!Lossy
  <2> QED
    BY <1>2, <2>1, <2>3, <2>4 DEF Fwd!Lossy
<1> QED
  BY <1>1, <1>2 DEF Fwd!Lossy, Fwd!Finished, Fwd!Sender

\* The bytes of a stream are numbered as they are written: q holds those after
\* the first n.
Counts(q, n) == q \in Seq(Nat) /\ \A i \in 1..Len(q) : q[i] = n + i

LEMMA CountsNone == ASSUME NEW n \in Nat PROVE Counts(<<>>, n) /\ Len(<<>>) = 0
BY DEF Counts

LEMMA CountsNext ==
  ASSUME NEW n \in Nat, NEW q, Counts(q, n), NEW b, b = n + Len(q) + 1
  PROVE  Counts(Append(q, b), n) /\ Len(Append(q, b)) = Len(q) + 1
<1>1. Len(q) \in Nat /\ b \in Nat /\ q \in Seq(Nat)
  BY DEF Counts
<1>2. /\ Append(q, b) \in Seq(Nat) /\ Len(Append(q, b)) = Len(q) + 1
      /\ \A i \in 1..Len(q) : Append(q, b)[i] = q[i]
      /\ Append(q, b)[Len(q) + 1] = b
  BY <1>1
<1> QED
  BY <1>1, <1>2 DEF Counts

LEMMA CountsOn ==
  ASSUME NEW n \in Nat, NEW p, Counts(p, n), NEW q, Counts(q, n + Len(p))
  PROVE  Counts(p \o q, n) /\ Len(p \o q) = Len(p) + Len(q)
<1>1. p \in Seq(Nat) /\ q \in Seq(Nat) /\ Len(p) \in Nat /\ Len(q) \in Nat
  BY DEF Counts
<1>2. /\ p \o q \in Seq(Nat) /\ Len(p \o q) = Len(p) + Len(q)
      /\ \A i \in 1..(Len(p) + Len(q)) :
            (p \o q)[i] = IF i <= Len(p) THEN p[i] ELSE q[i - Len(p)]
  BY <1>1, ConcatProperties
<1>3. ASSUME NEW i \in 1..(Len(p) + Len(q)) PROVE (p \o q)[i] = n + i
  <2>1. CASE i <= Len(p)
    BY <1>1, <1>2, <2>1 DEF Counts
  <2>2. CASE i > Len(p)
    <3>1. i - Len(p) \in 1..Len(q)
      BY <1>1, <2>2
    <3>2. q[i - Len(p)] = n + Len(p) + (i - Len(p))
      BY <3>1 DEF Counts
    <3> QED
      BY <1>1, <1>2, <2>2, <3>2
  <2> QED
    BY <1>1, <2>1, <2>2
<1> QED
  BY <1>2, <1>3 DEF Counts

\* What is numbered from the first byte is a beginning of what was written.
LEMMA CountsBegin ==
  ASSUME NEW p, Counts(p, 0), NEW q, Counts(q, 0), Len(p) <= Len(q)
  PROVE  p = SubSeq(q, 1, Len(p))
<1>1. p \in Seq(Nat) /\ q \in Seq(Nat) /\ Len(p) \in Nat /\ Len(q) \in Nat
  BY DEF Counts
<1>2. /\ SubSeq(q, 1, Len(p)) \in Seq(Nat) /\ Len(SubSeq(q, 1, Len(p))) = Len(p)
      /\ \A i \in 1..Len(p) : SubSeq(q, 1, Len(p))[i] = q[i]
  BY <1>1
<1>3. \A i \in 1..Len(p) : p[i] = SubSeq(q, 1, Len(p))[i]
  BY <1>1, <1>2 DEF Counts
<1> QED
  BY <1>1, <1>2, <1>3, SeqEqual

\* Bytes of a stream that are in their places: written, read by the receiver, on
\* their way to it, and not read by the pump.
InPlace(written, read, out, in) ==
  /\ Counts(written, 0) /\ Counts(read, 0) /\ Counts(out, Len(read))
  /\ Len(in) <= Len(written) /\ Counts(in, Len(written) - Len(in))
  /\ Len(read) + Len(out) <= Len(written)

\* And none is missing between what the pump holds and what it has not read.
Whole(written, read, out, held, in) ==
  /\ Counts(held, Len(read) + Len(out))
  /\ Len(read) + Len(out) + Len(held) + Len(in) = Len(written)

Through(written, read, out) == Len(read) + Len(out) = Len(written)

LEMMA Lengths ==
  ASSUME NEW w, NEW r, NEW o, NEW i, InPlace(w, r, o, i)
  PROVE  /\ w \in Seq(Nat) /\ r \in Seq(Nat) /\ o \in Seq(Nat) /\ i \in Seq(Nat)
         /\ Len(w) \in Nat /\ Len(r) \in Nat /\ Len(o) \in Nat /\ Len(i) \in Nat
BY DEF InPlace, Counts

LEMMA NothingYet == InPlace(<<>>, <<>>, <<>>, <<>>) /\ Whole(<<>>, <<>>, <<>>, <<>>, <<>>)
BY CountsNone DEF InPlace, Whole

\* The pump takes what is there.
LEMMA TakenIsWhole ==
  ASSUME NEW w, NEW r, NEW o, NEW i, InPlace(w, r, o, i)
  PROVE  /\ InPlace(w, r, o, <<>>)
         /\ Whole(w, r, o, <<>>, i) => Whole(w, r, o, i, <<>>)
<1>1. Len(<<>>) = 0 /\ Counts(<<>>, Len(w) - Len(<<>>))
  BY Lengths, CountsNone
<1>2. InPlace(w, r, o, <<>>)
  BY <1>1, Lengths DEF InPlace
<1>3. ASSUME Whole(w, r, o, <<>>, i) PROVE Whole(w, r, o, i, <<>>)
  <2>1. Len(r) + Len(o) + Len(i) = Len(w)
    BY <1>1, <1>3, Lengths DEF Whole
  <2>2. Len(w) - Len(i) = Len(r) + Len(o)
    BY <2>1, Lengths
  <2>3. Counts(i, Len(r) + Len(o))
    BY <2>2 DEF InPlace
  <2>4. Len(r) + Len(o) + Len(i) + Len(<<>>) = Len(w)
    BY <1>1, <2>1, Lengths
  <2> QED
    BY <2>3, <2>4 DEF Whole
<1> QED
  BY <1>2, <1>3

\* It writes what it holds.
LEMMA PutIsWhole ==
  ASSUME NEW w, NEW r, NEW o, NEW h, NEW i, InPlace(w, r, o, i), Whole(w, r, o, h, i)
  PROVE  InPlace(w, r, o \o h, i) /\ Whole(w, r, o \o h, <<>>, i)
<1>1. /\ Counts(o \o h, Len(r)) /\ Len(o \o h) = Len(o) + Len(h)
      /\ Len(h) \in Nat /\ Len(<<>>) = 0
  BY Lengths, CountsOn DEF InPlace, Whole, Counts
<1>2. /\ Len(r) + Len(o \o h) + Len(<<>>) + Len(i) = Len(w)
      /\ Len(r) + Len(o \o h) <= Len(w) /\ Len(r) + Len(o \o h) \in Nat
  BY <1>1, Lengths DEF Whole
<1>3. Counts(<<>>, Len(r) + Len(o \o h))
  BY <1>2, CountsNone
<1> QED
  BY <1>1, <1>2, <1>3 DEF InPlace, Whole

\* Its sender writes one more.
LEMMA WrittenIsWhole ==
  ASSUME NEW w, NEW r, NEW o, NEW h, NEW i, InPlace(w, r, o, i)
  PROVE  LET more == Append(w, Len(w) + 1)
             left == Append(i, Len(w) + 1)
         IN /\ InPlace(more, r, o, left)
            /\ Whole(w, r, o, h, i) => Whole(more, r, o, h, left)
<1> DEFINE more == Append(w, Len(w) + 1)
           left == Append(i, Len(w) + 1)
<1>1. Counts(more, 0) /\ Len(more) = Len(w) + 1
  BY Lengths, CountsNext DEF InPlace
<1>2. Counts(left, Len(w) - Len(i)) /\ Len(left) = Len(i) + 1
  <2>1. Len(w) - Len(i) \in Nat /\ Len(w) + 1 = (Len(w) - Len(i)) + Len(i) + 1
    BY Lengths DEF InPlace
  <2> QED
    BY <2>1, CountsNext DEF InPlace
<1> HIDE DEF more, left
<1>3. /\ Len(more) - Len(left) = Len(w) - Len(i) /\ Len(left) <= Len(more)
      /\ Len(r) + Len(o) <= Len(more)
  BY <1>1, <1>2, Lengths DEF InPlace
<1>4. InPlace(more, r, o, left)
  BY <1>1, <1>2, <1>3 DEF InPlace
<1>5. ASSUME Whole(w, r, o, h, i) PROVE Whole(more, r, o, h, left)
  <2>1. Len(h) \in Nat
    BY <1>5 DEF Whole, Counts
  <2>2. Len(r) + Len(o) + Len(h) + Len(left) = Len(more)
    <3>1. Len(r) + Len(o) + Len(h) + Len(i) = Len(w)
      BY <1>5 DEF Whole
    <3>2. /\ Len(r) \in Nat /\ Len(o) \in Nat /\ Len(i) \in Nat /\ Len(w) \in Nat
      BY Lengths
    <3> QED
      BY <1>1, <1>2, <2>1, <3>1, <3>2
  <2> QED
    BY <1>5, <2>2 DEF Whole
<1> QED
  BY <1>4, <1>5 DEF more, left

\* Its receiver reads what is on its way.
LEMMA ReadIsWhole ==
  ASSUME NEW w, NEW r, NEW o, NEW h, NEW i, InPlace(w, r, o, i)
  PROVE  /\ InPlace(w, r \o o, <<>>, i)
         /\ Whole(w, r, o, h, i) => Whole(w, r \o o, <<>>, h, i)
         /\ Through(w, r, o) => Through(w, r \o o, <<>>)
<1>1. /\ Counts(r \o o, 0) /\ Len(r \o o) = Len(r) + Len(o) /\ Len(<<>>) = 0
  <2>1. Counts(r, 0) /\ Counts(o, 0 + Len(r))
    BY Lengths DEF InPlace
  <2> QED
    BY <2>1, CountsOn
<1>2. Counts(<<>>, Len(r \o o)) /\ Len(r \o o) + Len(<<>>) = Len(r) + Len(o)
  BY <1>1, Lengths, CountsNone
<1> QED
  BY <1>1, <1>2 DEF InPlace, Whole, Through

\* What is on its way is lost.
LEMMA LostInPlace ==
  ASSUME NEW w, NEW r, NEW o, NEW i, InPlace(w, r, o, i)
  PROVE  InPlace(w, r, <<>>, i)
<1>1. Len(<<>>) = 0 /\ Counts(<<>>, Len(r)) /\ Len(r) + 0 <= Len(w)
  BY Lengths, CountsNone DEF InPlace
<1> QED
  BY <1>1, Lengths DEF InPlace

\* Nothing of a whole stream is left to read.
LEMMA WholeIsThrough ==
  ASSUME NEW w, NEW r, NEW o, NEW i, InPlace(w, r, o, i),
         Whole(w, r, o, <<>>, <<>>)
  PROVE  Through(w, r, o)
<1>1. Len(<<>>) = 0
  OBVIOUS
<1> QED
  BY <1>1, Lengths DEF Whole, Through

\* Where the bytes of a stream are.  A stream whose pump has ended may have lost
\* some, or its sender has finished and all of them are through.
Carried(s) ==
  /\ InPlace(sent[s], delivered[s], outbox[s], inbox[s])
  /\ pump[s] # "writing" => chunk[s] = <<>>
  /\ s \in ended => outbox[s] = <<>>
  /\ pump[s] \in {"none", "reading", "writing"} /\ s \notin ended =>
       Whole(sent[s], delivered[s], outbox[s], chunk[s], inbox[s])
  /\ pump[s] \in {"finally", "ended"} =>
       s \in Fwd!Lossy \/ (s \in Fwd!Finished /\ Through(sent[s], delivered[s], outbox[s]))

Buffers ==
  /\ inbox \in [Fwd!Streams -> Seq(Nat)] /\ chunk \in [Fwd!Streams -> Seq(Nat)]
  /\ outbox \in [Fwd!Streams -> Seq(Nat)] /\ sent \in [Fwd!Streams -> Seq(Nat)]
  /\ delivered \in [Fwd!Streams -> Seq(Nat)]

CarriedInv == Buffers /\ \A s \in Fwd!Streams : Carried(s)

\* A step that leaves the bytes of a stream and its pump alone.
LEMMA CarriedStands ==
  ASSUME NEW s \in Fwd!Streams, Carried(s),
         Fwd!Lossy \subseteq Fwd!Lossy', Fwd!Finished \subseteq Fwd!Finished',
         UNCHANGED <<sent[s], delivered[s], outbox[s], inbox[s], chunk[s], pump[s]>>,
         s \in ended' <=> s \in ended
  PROVE  Carried(s)'
BY DEF Carried

LEMMA BuffersStep ==
  ASSUME CarriedInv, [Fwd!Next]_modelVars
  PROVE  Buffers'
<1> USE DEF CarriedInv, Buffers
<1>0. <<>> \in Seq(Nat) /\ Buffers
  OBVIOUS
<1> HIDE DEF CarriedInv
<1>1. CASE OwnerMoves
  BY <1>0, <1>1 DEF OwnerMoves, Fwd!copying, Fwd!ends
<1>2. ASSUME NEW c \in Conns, Fwd!Accept(c) \/ Fwd!Reset(c) \/ Fwd!OpenChannel(c)
                              \/ Fwd!ClosePair(c) \/ Fwd!Dial(c)
      PROVE  Buffers'
  BY <1>0, <1>2 DEF Fwd!Accept, Fwd!Reset, Fwd!OpenChannel, Fwd!ClosePair, Fwd!Dial,
     Fwd!ends
<1>3. ASSUME NEW s \in Fwd!Streams, Fwd!ReadEnd(s) \/ Fwd!ShutDown(s)
      PROVE  Buffers'
  BY <1>0, <1>3 DEF Fwd!ReadEnd, Fwd!ShutDown, Fwd!ends
<1>9. ASSUME NEW s \in Fwd!Streams, Fwd!Read(s) PROVE Buffers'
  BY <1>0, <1>9 DEF Fwd!Read, Fwd!ends
<1>4. ASSUME NEW s \in Fwd!Streams, Fwd!WriteOut(s) PROVE Buffers'
  <2>1. outbox[s] \o chunk[s] \in Seq(Nat)
    BY <1>0
  <2>2. /\ outbox' = [outbox EXCEPT ![s] = @ \o chunk[s]] \/ outbox' = outbox
        /\ chunk' = [chunk EXCEPT ![s] = <<>>]
        /\ UNCHANGED <<inbox, sent, delivered>>
    BY <1>4 DEF Fwd!WriteOut, Fwd!ends
  <2> QED
    BY <1>0, <2>1, <2>2
<1>5. ASSUME NEW s \in Fwd!Streams, Fwd!Write(s) PROVE Buffers'
  <2>1. /\ Append(sent[s], Len(sent[s]) + 1) \in Seq(Nat)
        /\ Append(inbox[s], Len(sent[s]) + 1) \in Seq(Nat)
    BY <1>0
  <2> QED
    BY <1>0, <1>5, <2>1 DEF Fwd!Write
<1>6. ASSUME NEW s \in Fwd!Streams, Fwd!Deliver(s) PROVE Buffers'
  <2>1. delivered[s] \o outbox[s] \in Seq(Nat)
    BY <1>0
  <2> QED
    BY <1>0, <1>6, <2>1 DEF Fwd!Deliver
<1>7. ASSUME NEW s \in Fwd!Streams, Fwd!SeeEnd(s) PROVE Buffers'
  BY <1>0, <1>7 DEF Fwd!SeeEnd
<1>8. ASSUME NEW c \in Conns, NEW e \in Fwd!Ends, Fwd!Leave(c, e) PROVE Buffers'
  BY <1>0, <1>8 DEF Fwd!Leave, Fwd!copying
<1> QED
  BY <1>1, <1>2, <1>3, <1>4, <1>5, <1>6, <1>7, <1>8, <1>9,
     ForwardSteps

\* A step that leaves the bytes and the pumps alone carries every stream on.
LEMMA CarriedAlong ==
  ASSUME OwnerInv, ThreadsInv, CarriedInv, [Fwd!Next]_modelVars,
         UNCHANGED <<sent, delivered, outbox, inbox, chunk, pump, ended>>
  PROVE  \A t \in Fwd!Streams : Carried(t)'
BY LossyGrows, CarriedStands DEF CarriedInv

LEMMA CarriedStep ==
  ASSUME OwnerInv, ThreadsInv, CarriedInv, [Fwd!Next]_modelVars
  PROVE  \A t \in Fwd!Streams : Carried(t)'
<1> USE DEF CarriedInv
<1>0. /\ \A s \in Fwd!Streams : Carried(s) /\ Wired(s)
      /\ \A s \in Fwd!Streams : s[1] \in Conns /\ s[2] \in {"up", "down"}
      /\ ThreadPlaces /\ Buffers /\ <<>> \in Seq(Nat)
      /\ Fwd!Lossy \subseteq Fwd!Lossy' /\ Fwd!Finished \subseteq Fwd!Finished'
  BY LossyGrows, StreamParts DEF ThreadsInv
<1> HIDE DEF CarriedInv
<1>1. CASE OwnerMoves
  BY <1>1, CarriedAlong DEF OwnerMoves, Fwd!copying, Fwd!ends
<1>2. ASSUME NEW c \in Conns, Fwd!Accept(c) \/ Fwd!Reset(c) \/ Fwd!Dial(c)
      PROVE  \A t \in Fwd!Streams : Carried(t)'
  BY <1>2, CarriedAlong DEF Fwd!Accept, Fwd!Reset, Fwd!Dial, Fwd!ends
<1>3. ASSUME NEW c \in Conns, Fwd!OpenChannel(c), NEW t \in Fwd!Streams
      PROVE  Carried(t)'
  <2>1. /\ UNCHANGED <<sent, delivered, outbox, inbox, chunk, ended>>
        /\ handler[c] = "opening"
        /\ \/ pump' = pump
           \/ pump' = [s \in Fwd!Streams |-> IF s[1] = c THEN "reading" ELSE pump[s]]
    BY <1>3 DEF Fwd!OpenChannel, Fwd!ends
  <2>2. CASE pump'[t] = pump[t]
    BY <1>0, <2>1, <2>2, CarriedStands
  <2>3. CASE pump'[t] # pump[t]
    <3>1. pump[t] = "none" /\ pump'[t] = "reading"
      BY <1>0, <2>1, <2>3 DEF Wired
    <3> QED
      BY <1>0, <2>1, <3>1 DEF Carried
  <2> QED
    BY <2>2, <2>3
<1>4. ASSUME NEW c \in Conns, Fwd!ClosePair(c), NEW t \in Fwd!Streams
      PROVE  Carried(t)'
  <2>1. UNCHANGED <<sent, delivered, outbox, inbox, chunk, ended>>
    BY <1>4 DEF Fwd!ClosePair, Fwd!ends
  <2>2. pump'[t] = pump[t]
    <3>1. t[1] = c => pump[t] = "ended"
      BY <1>4, StreamParts DEF Fwd!ClosePair, Fwd!Joined, Fwd!Directions
    <3> QED
      BY <1>4, <3>1 DEF Fwd!ClosePair
  <2> QED
    BY <1>0, <2>1, <2>2, CarriedStands
<1>5. ASSUME NEW s \in Fwd!Streams, Fwd!Read(s), NEW t \in Fwd!Streams
      PROVE  Carried(t)'
  <2>1. UNCHANGED <<sent, delivered, outbox, ended>>
    BY <1>5 DEF Fwd!Read, Fwd!ends
  <2>2. CASE t = s
    <3>1. /\ pump[t] = "reading" /\ pump'[t] = "writing"
          /\ chunk'[t] = inbox[t] /\ inbox'[t] = <<>>
      BY <1>0, <1>5, <2>2 DEF Fwd!Read, ThreadPlaces, Buffers
    <3>2. Carried(t) /\ chunk[t] = <<>>
      BY <1>0, <3>1 DEF Carried
    <3>3. /\ InPlace(sent[t], delivered[t], outbox[t], inbox[t])
          /\ InPlace(sent[t], delivered[t], outbox[t], <<>>)
          /\ t \notin ended =>
               Whole(sent[t], delivered[t], outbox[t], inbox[t], <<>>)
      BY <3>1, <3>2, TakenIsWhole DEF Carried
    <3> QED
      BY <2>1, <3>1, <3>2, <3>3 DEF Carried
  <2>3. CASE t # s
    <3>1. UNCHANGED <<inbox[t], chunk[t], pump[t]>>
      BY <1>0, <1>5, <2>3 DEF Fwd!Read, ThreadPlaces, Buffers
    <3> QED
      BY <1>0, <2>1, <3>1, CarriedStands
  <2> QED
    BY <2>2, <2>3
<1>6. ASSUME NEW s \in Fwd!Streams, Fwd!ReadEnd(s), NEW t \in Fwd!Streams
      PROVE  Carried(t)'
  <2>1. UNCHANGED <<sent, delivered, outbox, inbox, chunk, ended, gone, died,
                    links, handler>>
    BY <1>6 DEF Fwd!ReadEnd, Fwd!ends, Fwd!owner
  <2>2. CASE t = s
    <3>1. /\ pump[t] = "reading" /\ pump'[t] = "finally"
          /\ Carried(t) /\ Wired(t) /\ chunk[t] = <<>>
      BY <1>0, <1>6, <2>2 DEF Fwd!ReadEnd, ThreadPlaces, Carried
    <3>2. handler[t[1]] # "none"
      BY <3>1 DEF Wired
    <3>3. CASE \/ <<t[1], Fwd!Sender(t)>> \in died
               \/ ~Fwd!HopUp /\ Fwd!Sender(t) = "server"
      <4>1. t \in Fwd!Lossy
        BY <3>2, <3>3 DEF Fwd!Lossy
      <4> QED
        BY <1>0, <2>1, <3>1, <4>1 DEF Carried
    <3>4. CASE /\ inbox[t] = <<>> /\ <<t[1], Fwd!Sender(t)>> \in gone
      <4>1. t \in Fwd!Finished
        BY <3>4 DEF Fwd!Finished
      <4>2. CASE t \in ended
        <5>1. ~Fwd!HopUp
          BY <3>1, <4>2 DEF Wired
        <5>2. t \in Fwd!Lossy
          BY <3>2, <5>1 DEF Fwd!Lossy
        <5> QED
          BY <1>0, <2>1, <3>1, <5>2 DEF Carried
      <4>3. CASE t \notin ended
        <5>1. Through(sent[t], delivered[t], outbox[t])
          BY <3>1, <3>4, <4>3, WholeIsThrough DEF Carried
        <5> QED
          BY <1>0, <2>1, <3>1, <4>1, <5>1 DEF Carried
      <4> QED
        BY <4>2, <4>3
    <3>5. \/ inbox[t] = <<>> /\ <<t[1], Fwd!Sender(t)>> \in gone
          \/ <<t[1], Fwd!Sender(t)>> \in died
          \/ ~Fwd!HopUp /\ Fwd!Sender(t) = "server"
      BY <1>6, <2>2 DEF Fwd!ReadEnd, Fwd!OutOfReach
    <3> QED
      BY <3>3, <3>4, <3>5
  <2>3. CASE t # s
    <3>1. UNCHANGED pump[t]
      BY <1>0, <1>6, <2>3 DEF Fwd!ReadEnd, ThreadPlaces
    <3> QED
      BY <1>0, <2>1, <3>1, CarriedStands
  <2> QED
    BY <2>2, <2>3
<1>7. ASSUME NEW s \in Fwd!Streams, Fwd!WriteOut(s), NEW t \in Fwd!Streams
      PROVE  Carried(t)'
  <2>1. /\ UNCHANGED <<sent, delivered, inbox, ended, gone, died, links, handler>>
        /\ pump[s] = "writing" /\ chunk' = [chunk EXCEPT ![s] = <<>>]
    BY <1>7 DEF Fwd!WriteOut, Fwd!ends, Fwd!owner
  <2>2. CASE t # s
    <3>1. UNCHANGED <<outbox[t], chunk[t], pump[t]>>
      BY <1>0, <1>7, <2>2 DEF Fwd!WriteOut, ThreadPlaces, Buffers
    <3> QED
      BY <1>0, <2>1, <3>1, CarriedStands
  <2>3. ASSUME t = s, ~Fwd!OutOfReach(t, Fwd!Receiver(t)),
               outbox'[t] = outbox[t] \o chunk[t], pump'[t] = "reading"
        PROVE  Carried(t)'
    <3>1. Carried(t) /\ Wired(t) /\ chunk'[t] = <<>> /\ pump[t] = "writing"
      BY <1>0, <2>1, <2>3 DEF Buffers
    <3>2. t \notin ended
      <4>1. t \notin eof
        BY <3>1 DEF Wired
      <4>2. ~(t[2] = "up" /\ ~Fwd!HopUp)
        BY <2>3 DEF Fwd!OutOfReach, Fwd!Receiver
      <4> QED
        BY <3>1, <4>1, <4>2 DEF Wired
    <3>3. /\ InPlace(sent[t], delivered[t], outbox[t] \o chunk[t], inbox[t])
          /\ Whole(sent[t], delivered[t], outbox[t] \o chunk[t], <<>>, inbox[t])
      BY <3>1, <3>2, PutIsWhole DEF Carried
    <3> QED
      BY <2>1, <2>3, <3>1, <3>2, <3>3 DEF Carried
  <2>4. ASSUME t = s, Fwd!OutOfReach(t, Fwd!Receiver(t)), outbox' = outbox,
               pump'[t] = "finally"
        PROVE  Carried(t)'
    <3>1. Carried(t) /\ Wired(t) /\ chunk'[t] = <<>> /\ pump[t] = "writing"
      BY <1>0, <2>1, <2>4 DEF Buffers
    <3>2. t \in Fwd!Lossy
      BY <2>4, <3>1 DEF Wired, Fwd!Lossy, Fwd!OutOfReach
    <3> QED
      BY <1>0, <2>1, <2>4, <3>1, <3>2 DEF Carried
  <2>5. t = s => \/ /\ ~Fwd!OutOfReach(t, Fwd!Receiver(t))
                    /\ outbox'[t] = outbox[t] \o chunk[t] /\ pump'[t] = "reading"
                 \/ /\ Fwd!OutOfReach(t, Fwd!Receiver(t))
                    /\ outbox' = outbox /\ pump'[t] = "finally"
    BY <1>0, <1>7 DEF Fwd!WriteOut, ThreadPlaces, Buffers
  <2> QED
    BY <2>2, <2>3, <2>4, <2>5
<1>8. ASSUME NEW s \in Fwd!Streams, Fwd!ShutDown(s), NEW t \in Fwd!Streams
      PROVE  Carried(t)'
  <2>1. UNCHANGED <<sent, delivered, outbox, inbox, chunk, ended>>
    BY <1>8 DEF Fwd!ShutDown, Fwd!ends
  <2>2. \/ UNCHANGED pump[t]
        \/ pump[t] = "finally" /\ pump'[t] = "ended"
    BY <1>0, <1>8 DEF Fwd!ShutDown, ThreadPlaces
  <2>3. CASE UNCHANGED pump[t]
    BY <1>0, <2>1, <2>3, CarriedStands
  <2>4. CASE pump[t] = "finally" /\ pump'[t] = "ended"
    BY <1>0, <2>1, <2>4 DEF Carried
  <2> QED
    BY <2>2, <2>3, <2>4
<1>9. ASSUME NEW s \in Fwd!Streams, Fwd!Write(s), NEW t \in Fwd!Streams
      PROVE  Carried(t)'
  <2>1. UNCHANGED <<delivered, outbox, chunk, pump, ended, gone, died>>
    BY <1>9 DEF Fwd!Write
  <2>2. CASE t # s
    <3>1. UNCHANGED <<sent[t], inbox[t]>>
      BY <1>0, <1>9, <2>2 DEF Fwd!Write, Buffers
    <3> QED
      BY <1>0, <2>1, <3>1, CarriedStands
  <2>3. CASE t = s
    <3>1. /\ sent'[t] = Append(sent[t], Len(sent[t]) + 1)
          /\ inbox'[t] = Append(inbox[t], Len(sent[t]) + 1)
          /\ t \notin Fwd!Finished
      BY <1>0, <1>9, <2>3 DEF Fwd!Write, Buffers, Fwd!Present, Fwd!Finished
    <3>2. Carried(t) /\ (pump[t] \in {"finally", "ended"} => t \in Fwd!Lossy')
      BY <1>0, <3>1 DEF Carried
    <3>3. /\ InPlace(sent'[t], delivered[t], outbox[t], inbox'[t])
          /\ Whole(sent[t], delivered[t], outbox[t], chunk[t], inbox[t])
               => Whole(sent'[t], delivered[t], outbox[t], chunk[t], inbox'[t])
      BY <3>1, <3>2, WrittenIsWhole DEF Carried
    <3> QED
      BY <2>1, <3>2, <3>3 DEF Carried
  <2> QED
    BY <2>2, <2>3
<1>10. ASSUME NEW s \in Fwd!Streams, Fwd!Deliver(s), NEW t \in Fwd!Streams
       PROVE  Carried(t)'
  <2>1. UNCHANGED <<sent, inbox, chunk, pump, ended>>
    BY <1>10 DEF Fwd!Deliver
  <2>2. CASE t # s
    <3>1. UNCHANGED <<delivered[t], outbox[t]>>
      BY <1>0, <1>10, <2>2 DEF Fwd!Deliver, Buffers
    <3> QED
      BY <1>0, <2>1, <3>1, CarriedStands
  <2>3. CASE t = s
    <3>1. /\ delivered'[t] = delivered[t] \o outbox[t] /\ outbox'[t] = <<>>
          /\ Carried(t)
      BY <1>0, <1>10, <2>3 DEF Fwd!Deliver, Buffers
    <3>2. LET all == delivered[t] \o outbox[t]
          IN /\ InPlace(sent[t], all, <<>>, inbox[t])
             /\ Whole(sent[t], delivered[t], outbox[t], chunk[t], inbox[t])
                  => Whole(sent[t], all, <<>>, chunk[t], inbox[t])
             /\ Through(sent[t], delivered[t], outbox[t])
                  => Through(sent[t], all, <<>>)
      BY <3>1, ReadIsWhole DEF Carried
    <3> QED
      BY <1>0, <2>1, <3>1, <3>2 DEF Carried
  <2> QED
    BY <2>2, <2>3
<1>11. ASSUME NEW s \in Fwd!Streams, Fwd!SeeEnd(s), NEW t \in Fwd!Streams
       PROVE  Carried(t)'
  <2>1. UNCHANGED <<sent, delivered, inbox, chunk, pump>> /\ ended' = ended \cup {s}
    BY <1>11 DEF Fwd!SeeEnd
  <2>2. CASE t # s
    <3>1. UNCHANGED outbox[t] /\ (t \in ended' <=> t \in ended)
      BY <1>0, <1>11, <2>2 DEF Fwd!SeeEnd, Buffers
    <3> QED
      BY <1>0, <2>1, <3>1, CarriedStands
  <2>3. CASE t = s
    <3>1. /\ outbox'[t] = <<>> /\ Carried(t) /\ t \in ended'
          /\ outbox[t] = <<>> \/ t \in Fwd!Lossy
      BY <1>0, <1>11, <2>3 DEF Fwd!SeeEnd, Buffers, Fwd!Lossy
    <3>2. InPlace(sent[t], delivered[t], <<>>, inbox[t])
      BY <3>1, LostInPlace DEF Carried
    <3>3. pump[t] \in {"finally", "ended"} =>
            \/ t \in Fwd!Lossy'
            \/ t \in Fwd!Finished' /\ Through(sent[t], delivered[t], outbox'[t])
      BY <1>0, <3>1 DEF Carried
    <3> QED
      BY <2>1, <3>1, <3>2, <3>3 DEF Carried
  <2> QED
    BY <2>2, <2>3
<1>12. ASSUME NEW c \in Conns, NEW e \in Fwd!Ends, Fwd!Leave(c, e)
       PROVE  \A t \in Fwd!Streams : Carried(t)'
  BY <1>12, CarriedAlong DEF Fwd!Leave, Fwd!copying
<1> QED
  BY <1>1, <1>2, <1>3, <1>4, <1>5, <1>6, <1>7, <1>8, <1>9, <1>10, <1>11,
     <1>12, ForwardSteps

\* A step of the forward is one of a relay, or leaves it alone.
LEMMA ForwardRelays ==
  ASSUME OwnerInv, ThreadsInv, CarriedInv, [Fwd!Next]_modelVars
  PROVE  [Fwd!Promise!Next]_Fwd!Promise!vars
<1>0. Fwd!Promise!Streams = Fwd!Streams
  BY DEF Fwd!Promise!Streams, Fwd!Promise!Directions, Fwd!Streams,
     Fwd!Directions
<1>1. ASSUME UNCHANGED <<sent, delivered, ended>> PROVE Fwd!Promise!Next
  <2>1. Fwd!Promise!Leave
    <3>1. Fwd!Finished' \subseteq Fwd!Streams /\ Fwd!Lossy' \subseteq Fwd!Streams
      BY DEF Fwd!Finished, Fwd!Lossy
    <3> QED
      BY <1>0, <1>1, <3>1, LossyGrows DEF Fwd!Promise!Leave
  <2> QED
    BY <2>1 DEF Fwd!Promise!Next
<1>2. ASSUME NEW s \in Fwd!Streams, Fwd!Write(s) PROVE Fwd!Promise!Next
  <2>1. s \notin Fwd!Finished
    BY <1>2 DEF Fwd!Write, Fwd!Present, Fwd!Finished
  <2>2. UNCHANGED <<Fwd!Finished, Fwd!Lossy, delivered, ended>>
    BY <1>2 DEF Fwd!Write, Fwd!Finished, Fwd!Lossy, Fwd!owner, Fwd!HopUp
  <2>3. Fwd!Promise!Write(s)
    BY <1>2, <2>1, <2>2 DEF Fwd!Write, Fwd!Promise!Write
  <2> QED
    BY <1>0, <2>3 DEF Fwd!Promise!Next
<1>3. ASSUME NEW s \in Fwd!Streams, Fwd!Deliver(s) PROVE Fwd!Promise!Next
  <2>1. UNCHANGED <<Fwd!Finished, Fwd!Lossy, sent, ended>>
    BY <1>3 DEF Fwd!Deliver, Fwd!Finished, Fwd!Lossy, Fwd!owner, Fwd!HopUp
  <2>2. /\ Carried(s) /\ outbox[s] # <<>>
        /\ delivered' = [delivered EXCEPT ![s] = delivered[s] \o outbox[s]]
    BY <1>3 DEF Fwd!Deliver, CarriedInv
  <2> DEFINE n == Len(delivered[s]) + Len(outbox[s])
  <2>3. InPlace(sent[s], delivered[s], outbox[s], inbox[s])
    BY <2>2 DEF Carried
  <2>4. n \in (Len(delivered[s]) + 1)..Len(sent[s])
    <3>1. /\ Len(delivered[s]) \in Nat /\ Len(outbox[s]) \in Nat
          /\ Len(sent[s]) \in Nat /\ n <= Len(sent[s])
      BY <2>3, Lengths DEF InPlace
    <3>2. Len(outbox[s]) # 0
      BY <2>2, <2>3, Lengths, EmptySeq
    <3>3. ASSUME NEW a \in Nat, NEW b \in Nat, NEW c \in Nat, b # 0, a + b <= c
          PROVE  a + b \in (a + 1)..c
      BY <3>3
    <3> QED
      BY <3>1, <3>2, <3>3, Zenon
  <2>5. delivered[s] \o outbox[s] = SubSeq(sent[s], 1, n)
    <3>1. /\ Counts(delivered[s] \o outbox[s], 0)
          /\ Len(delivered[s] \o outbox[s]) = n
      <4>1. Counts(delivered[s], 0) /\ Counts(outbox[s], 0 + Len(delivered[s]))
        BY <2>3, Lengths DEF InPlace
      <4> QED
        BY <4>1, CountsOn
    <3>2. Counts(sent[s], 0) /\ n <= Len(sent[s])
      BY <2>3 DEF InPlace
    <3> QED
      BY <3>1, <3>2, CountsBegin
  <2>6. s \notin ended
    BY <2>2 DEF Carried
  <2>7. Fwd!Promise!Deliver(s)
    BY <2>1, <2>2, <2>4, <2>5, <2>6 DEF Fwd!Promise!Deliver
  <2> QED
    BY <1>0, <2>7 DEF Fwd!Promise!Next
<1>4. ASSUME NEW s \in Fwd!Streams, Fwd!SeeEnd(s) PROVE Fwd!Promise!Next
  <2>1. UNCHANGED <<Fwd!Finished, Fwd!Lossy, sent, delivered>>
    BY <1>4 DEF Fwd!SeeEnd, Fwd!Finished, Fwd!Lossy, Fwd!owner, Fwd!HopUp
  <2>2. s \notin ended /\ ended' = ended \cup {s} /\ Carried(s) /\ Wired(s)
    BY <1>4 DEF Fwd!SeeEnd, CarriedInv, ThreadsInv
  <2>3. s \in Fwd!Lossy \/ (s \in Fwd!Finished /\ delivered[s] = sent[s])
    <3>1. CASE s[2] = "up" /\ handler[s[1]] = "piping" /\ ~Fwd!HopUp
      BY <3>1 DEF Fwd!Lossy
    <3>2. CASE s \in eof /\ pump[s] = "none"
      BY <2>2, <3>2 DEF Wired, Fwd!Lossy
    <3>3. CASE outbox[s] = <<>> /\ pump[s] = "ended" /\ s \notin Fwd!Lossy
      <4>1. s \in Fwd!Finished /\ Through(sent[s], delivered[s], <<>>)
        BY <2>2, <3>3 DEF Carried
      <4>2. InPlace(sent[s], delivered[s], <<>>, inbox[s])
        BY <2>2, <3>3 DEF Carried
      <4>3. Len(delivered[s]) = Len(sent[s]) /\ Len(sent[s]) \in Nat
        <5>1. Len(<<>>) = 0
          OBVIOUS
        <5> QED
          BY <4>1, <4>2, <5>1, Lengths DEF Through
      <4>4. /\ delivered[s] \in Seq(Nat) /\ sent[s] \in Seq(Nat)
            /\ \A i \in 1..Len(sent[s]) : delivered[s][i] = sent[s][i]
        BY <4>2, <4>3, Lengths DEF InPlace, Counts
      <4>5. delivered[s] = sent[s]
        BY <4>3, <4>4, SeqEqual
      <4> QED
        BY <4>1, <4>5
    <3>4. \/ s \in eof /\ outbox[s] = <<>>
          \/ s[2] = "up" /\ handler[s[1]] = "piping" /\ ~Fwd!HopUp
      BY <1>4 DEF Fwd!SeeEnd
    <3>5. s \in eof => pump[s] \in {"none", "ended"}
      BY <2>2 DEF Wired
    <3> QED
      BY <3>1, <3>2, <3>3, <3>4, <3>5
  <2>4. Fwd!Promise!End(s)
    BY <2>1, <2>2, <2>3 DEF Fwd!Promise!End
  <2> QED
    BY <1>0, <2>4 DEF Fwd!Promise!Next
<1>5. CASE OwnerMoves
  BY <1>1, <1>5 DEF OwnerMoves, Fwd!ends
<1>6. ASSUME NEW c \in Conns, Fwd!Accept(c) \/ Fwd!Reset(c) \/ Fwd!OpenChannel(c)
                              \/ Fwd!ClosePair(c) \/ Fwd!Dial(c)
      PROVE  Fwd!Promise!Next
  BY <1>1, <1>6 DEF Fwd!Accept, Fwd!Reset, Fwd!OpenChannel, Fwd!ClosePair,
     Fwd!Dial, Fwd!ends
<1>7. ASSUME NEW s \in Fwd!Streams,
             Fwd!Read(s) \/ Fwd!ReadEnd(s) \/ Fwd!WriteOut(s) \/ Fwd!ShutDown(s)
      PROVE  Fwd!Promise!Next
  BY <1>1, <1>7 DEF Fwd!Read, Fwd!ReadEnd, Fwd!WriteOut, Fwd!ShutDown, Fwd!ends
<1>8. ASSUME NEW c \in Conns, NEW e \in Fwd!Ends, Fwd!Leave(c, e)
      PROVE  Fwd!Promise!Next
  BY <1>1, <1>8 DEF Fwd!Leave
<1> QED
  BY <1>2, <1>3, <1>4, <1>5, <1>6, <1>7, <1>8, ForwardSteps

\* The forward starts as a relay.
LEMMA ForwardInit ==
  Init => OwnerInv /\ ThreadsInv /\ CarriedInv /\ Fwd!Promise!Init
<1> SUFFICES ASSUME Init
             PROVE  OwnerInv /\ ThreadsInv /\ CarriedInv /\ Fwd!Promise!Init
  OBVIOUS
<1> USE DEF Init, Fwd!Init
<1>1. OwnerInv
  BY DEF OwnerInv, KeysAt, Fwd!StartOver, Fwd!HopUp
<1>2. ThreadsInv
  BY StreamParts DEF ThreadsInv, ThreadPlaces, Wired
<1>3. CarriedInv
  <2>1. <<>> \in Seq(Nat)
    OBVIOUS
  <2>2. Buffers
    BY <2>1 DEF Buffers
  <2>3. ASSUME NEW s \in Fwd!Streams PROVE Carried(s)
    BY NothingYet DEF Carried
  <2> QED
    BY <2>2, <2>3 DEF CarriedInv
<1>4. Fwd!Promise!Init
  <2>1. Fwd!Finished = {} /\ Fwd!Lossy = {}
    BY StreamParts DEF Fwd!Finished, Fwd!Lossy
  <2> QED
    BY <2>1 DEF Fwd!Promise!Init, Fwd!Promise!Streams, Fwd!Promise!Directions,
       Fwd!Streams, Fwd!Directions
<1> QED
  BY <1>1, <1>2, <1>3, <1>4

ForwardInv == OwnerInv /\ ThreadsInv /\ CarriedInv

LEMMA ForwardInvariant == Spec => []ForwardInv
<1>1. Init => ForwardInv
  BY ForwardInit DEF ForwardInv
<1>2. ForwardInv /\ [Next]_vars => ForwardInv'
  <2> SUFFICES ASSUME ForwardInv, [Next]_vars PROVE ForwardInv'
    OBVIOUS
  <2>1. [Fwd!Next]_modelVars /\ OwnerInv /\ ThreadsInv /\ CarriedInv
    BY OneChannelMoves DEF ForwardInv
  <2>2. OwnerInv'
    BY <2>1, OwnerStep
  <2>3. ThreadsInv'
    <3>1. Fwd!Streams' = Fwd!Streams
      BY DEF Fwd!Streams, Fwd!Directions
    <3> QED
      BY <2>1, <3>1, ThreadPlacesStep, WiredStep DEF ThreadsInv
  <2>4. CarriedInv'
    BY <2>1, BuffersStep, CarriedStep DEF CarriedInv
  <2> QED
    BY <2>2, <2>3, <2>4 DEF ForwardInv
<1> QED
  BY <1>1, <1>2, PTL DEF Spec

\* Relays: the forward implements Relay, for any connections and any number of
\* bytes.  What is read of a stream is a beginning of what was written to it;
\* its end is told after all of it, unless an end or the hop was lost.
THEOREM ForwardIsRelay == Spec => Relays
<1>1. Init => Fwd!Promise!Init
  BY ForwardInit
<1>2. ForwardInv /\ [Next]_vars => [Fwd!Promise!Next]_Fwd!Promise!vars
  BY ForwardRelays, OneChannelMoves DEF ForwardInv
<1> QED
  BY <1>1, <1>2, ForwardInvariant, PTL DEF Spec, Relays, Fwd!Relays,
     Fwd!Promise!Spec

LEMMA HopInvariant == Spec => []HopInv
<1>1. Init => HopInv
  BY DEF Init, Bmc!Init, HopInv
<1>2. HopInv /\ [Next]_vars => HopInv'
  BY HopStep, OneChannelMoves
<1> QED
  BY <1>1, <1>2, PTL DEF Spec

\* NothingLeftOpen: a Redfish client has at most one hop, none after its run; a
\* forward that is closed has no connection and no listener, and leaves a key
\* on disk only where the password was missing.
THEOREM NothingStaysOpen == Spec => []NothingLeftOpen
<1>1. HopInv /\ ForwardInv => NothingLeftOpen
  BY HopOfTheRun, OwnerLeavesNothing DEF ForwardInv, NothingLeftOpen
<1> QED
  BY <1>1, HopInvariant, ForwardInvariant, PTL

-----------------------------------------------------------------------------
(* Streams.  Sink is a recursive function over the streams made.  That it is *)
(* one, and what it ends in, is kept from step to step: a step makes at most *)
(* one stream, over one that is there.                                      *)

StreamsMade ==
  [kind : {"queue", "report", "buffer"}, of : Nat,
   owner : {None} \cup {Ident[t] : t \in 1..MaxTurns}, under : Nat]

\* A capture is its turn's thread's.
Owned(s) == s.kind # "buffer" => s.of \in 1..MaxTurns /\ s.owner = Ident[s.of]

\* The body of Sink, for the streams q.
SinkOver(q, sink, ident) ==
  [k \in 0..Len(q) |->
     IF k = 0 THEN Capture!Terminal
     ELSE IF Capture!Takes(q[k], ident) THEN [kind |-> q[k].kind, of |-> q[k].of]
     ELSE sink[q[k].under]]

\* Where a thread's line may end up: with a capture only its own.
Fits(to, ident) ==
  \/ to.kind \in {"terminal", "buffer"}
  \/ /\ to.kind \in {"queue", "report"}
     /\ to.of \in 1..MaxTurns /\ Ident[to.of] = ident

SinksFit(q, ident) ==
  /\ \E sink : sink = SinkOver(q, sink, ident)
  /\ \A sink : sink = SinkOver(q, sink, ident) =>
       \A k \in 0..Len(q) : Fits(sink[k], ident)

Layered(q) ==
  /\ q \in Seq(StreamsMade)
  /\ \A k \in 1..Len(q) : q[k].under \in 0..(k - 1) /\ Owned(q[k])

LEMMA NoSinkYet == ASSUME NEW ident PROVE SinksFit(<<>>, ident)
<1>1. \A sink : SinkOver(<<>>, sink, ident) = [k \in 0..0 |-> Capture!Terminal]
  <2>1. Len(<<>>) = 0
    OBVIOUS
  <2> QED
    BY <2>1 DEF SinkOver
<1>2. Fits(Capture!Terminal, ident)
  BY DEF Fits, Capture!Terminal
<1>3. \E sink : sink = SinkOver(<<>>, sink, ident)
  BY <1>1
<1>4. ASSUME NEW sink, sink = SinkOver(<<>>, sink, ident), NEW k \in 0..Len(<<>>)
      PROVE  Fits(sink[k], ident)
  <2>1. sink = [j \in 0..0 |-> Capture!Terminal] /\ k \in 0..0
    BY <1>1, <1>4
  <2> QED
    BY <2>1, <1>2
<1> QED
  BY <1>3, <1>4 DEF SinksFit

LEMMA OneMoreStream ==
  ASSUME NEW q, Layered(q), NEW r \in StreamsMade, r.under \in 0..Len(q), Owned(r),
         NEW ident, SinksFit(q, ident)
  PROVE  SinksFit(Append(q, r), ident)
<1> DEFINE p == Append(q, r)
           n == Len(q)
<1>1. /\ n \in Nat /\ Len(p) = n + 1 /\ p[n + 1] = r
      /\ \A k \in 1..n : p[k] = q[k] /\ q[k].under \in 0..(k - 1)
  BY DEF Layered
<1>2. \A k \in 0..(n + 1) : k \in 0..n \/ k = n + 1
  BY <1>1
<1> HIDE DEF p
<1>3. PICK f : f = SinkOver(q, f, ident)
  BY DEF SinksFit
<1>4. \E sink : sink = SinkOver(p, sink, ident)
  <2> DEFINE top == IF Capture!Takes(r, ident) THEN [kind |-> r.kind, of |-> r.of]
                    ELSE f[r.under]
             g == [k \in 0..(n + 1) |-> IF k = n + 1 THEN top ELSE f[k]]
  <2>1. \A k \in 0..n : g[k] = f[k]
    BY <1>1
  <2>2. g[n + 1] = top
    BY <1>1
  <2>3. ASSUME NEW k \in 0..(n + 1) PROVE g[k] = SinkOver(p, g, ident)[k]
    <3>1. CASE k = 0
      BY <1>1, <1>3, <2>1, <3>1 DEF SinkOver
    <3>2. CASE k \in 1..n
      <4>1. /\ g[k] = f[k] /\ p[k] = q[k] /\ q[k].under \in 0..n
            /\ g[q[k].under] = f[q[k].under]
        BY <1>1, <2>1, <3>2
      <4>2. f[k] = IF Capture!Takes(q[k], ident)
                   THEN [kind |-> q[k].kind, of |-> q[k].of]
                   ELSE f[q[k].under]
        BY <1>1, <1>3, <3>2 DEF SinkOver
      <4> HIDE DEF g
      <4> QED
        BY <1>1, <3>2, <4>1, <4>2 DEF SinkOver
    <3>3. CASE k = n + 1
      <4>1. g[r.under] = f[r.under]
        BY <1>1, <2>1
      <4> HIDE DEF g
      <4> QED
        BY <1>1, <2>2, <3>3, <4>1 DEF SinkOver
    <3> QED
      BY <1>1, <1>2, <3>1, <3>2, <3>3
  <2>4. /\ g = [k \in 0..(n + 1) |-> g[k]]
        /\ SinkOver(p, g, ident) = [k \in 0..(n + 1) |-> SinkOver(p, g, ident)[k]]
    <3>1. g = [k \in 0..(n + 1) |-> g[k]]
      OBVIOUS
    <3> HIDE DEF g
    <3> QED
      BY <1>1, <3>1 DEF SinkOver
  <2>5. g = SinkOver(p, g, ident)
    <3> HIDE DEF g
    <3> QED
      BY <2>3, <2>4
  <2> QED
    BY <2>5
<1>5. ASSUME NEW g, g = SinkOver(p, g, ident), NEW k \in 0..(n + 1)
      PROVE  Fits(g[k], ident)
  <2> DEFINE h == [j \in 0..n |-> g[j]]
  <2>1. ASSUME NEW j \in 0..n PROVE h[j] = SinkOver(q, h, ident)[j]
    <3>1. CASE j = 0
      BY <1>1, <1>5, <3>1 DEF SinkOver
    <3>2. CASE j \in 1..n
      <4>1. p[j] = q[j] /\ q[j].under \in 0..n
        BY <1>1, <3>2
      <4>2. g[j] = IF Capture!Takes(q[j], ident)
                   THEN [kind |-> q[j].kind, of |-> q[j].of]
                   ELSE g[q[j].under]
        BY <1>1, <1>5, <3>2, <4>1 DEF SinkOver
      <4>3. h[j] = g[j] /\ h[q[j].under] = g[q[j].under]
        BY <4>1
      <4> HIDE DEF h
      <4> QED
        BY <1>1, <3>2, <4>2, <4>3 DEF SinkOver
    <3> QED
      BY <1>1, <3>1, <3>2
  <2>2. h = SinkOver(q, h, ident)
    <3>1. h = [j \in 0..n |-> h[j]]
      OBVIOUS
    <3> HIDE DEF h
    <3>2. SinkOver(q, h, ident) = [j \in 0..n |-> SinkOver(q, h, ident)[j]]
      BY DEF SinkOver
    <3> QED
      BY <2>1, <3>1, <3>2
  <2>3. \A j \in 0..n : Fits(g[j], ident)
    <3>1. \A j \in 0..n : Fits(h[j], ident) /\ h[j] = g[j]
      <4>1. \A j \in 0..n : h[j] = g[j]
        OBVIOUS
      <4> HIDE DEF h
      <4> QED
        BY <2>2, <4>1 DEF SinksFit
    <3> HIDE DEF h
    <3> QED
      BY <3>1
  <2>4. CASE k = n + 1
    <3>1. g[k] = IF Capture!Takes(r, ident) THEN [kind |-> r.kind, of |-> r.of]
                 ELSE g[r.under]
      BY <1>1, <1>5, <2>4 DEF SinkOver
    <3>2. CASE Capture!Takes(r, ident)
      BY <3>1, <3>2 DEF Fits, Capture!Takes, Owned, StreamsMade
    <3>3. CASE ~Capture!Takes(r, ident)
      BY <2>3, <3>1, <3>3
    <3> QED
      BY <3>2, <3>3
  <2> QED
    BY <1>1, <1>2, <2>3, <2>4
<1> QED
  BY <1>1, <1>4, <1>5 DEF SinksFit, p

\* What a thread's line ends in, once every list of streams fits.
LEMMA SinkFits ==
  ASSUME NEW ident, SinksFit(streams, ident), NEW n \in 0..Len(streams)
  PROVE  Fits(Capture!Sink(n, ident), ident)
<1> DEFINE sink == CHOOSE sink : sink = SinkOver(streams, sink, ident)
<1>1. sink = SinkOver(streams, sink, ident)
  BY DEF SinksFit
<1>2. Capture!Sink(n, ident) = sink[n]
  BY DEF Capture!Sink, SinkOver
<1> HIDE DEF sink
<1> QED
  BY <1>1, <1>2 DEF SinksFit

\* How many streams the worker has to put back.
Depth(place) == IF place = "verify" THEN 2 ELSE IF place = "turn" THEN 1 ELSE 0

\* The streams, and where the threads are to put back what they replaced.
StreamInv ==
  /\ Layered(streams)
  /\ \A ident : SinksFit(streams, ident)
  /\ stdout \in 0..Len(streams)
  /\ worker \in [turn : 0..MaxTurns, at : {"started", "turn", "verify", "done"},
                 saved : Seq(0..Len(streams))]
  /\ worker.at # "done" => worker.turn \in 1..MaxTurns
  /\ Len(worker.saved) = Depth(worker.at)
  /\ loop \in [at : {"poll", "command"}, saved : 0..Len(streams),
               command : 0..MaxCommands]

\* A stream over the one that is there.
LEMMA OneMadeOver ==
  ASSUME StreamInv, NEW kind \in {"queue", "report", "buffer"}, NEW of \in Nat,
         NEW owner \in {None} \cup {Ident[t] : t \in 1..MaxTurns},
         kind # "buffer" => of \in 1..MaxTurns /\ owner = Ident[of],
         Capture!Over(kind, of, owner)
  PROVE  /\ Layered(streams') /\ \A ident : SinksFit(streams', ident)
         /\ Len(streams') = Len(streams) + 1 /\ Len(streams) \in Nat
         /\ stdout' \in 0..Len(streams')
<1> DEFINE r == [kind |-> kind, of |-> of, owner |-> owner, under |-> stdout]
<1>1. /\ Len(streams) \in Nat /\ streams \in Seq(StreamsMade) /\ stdout \in 0..Len(streams)
      /\ \A k \in 1..Len(streams) :
            streams[k].under \in 0..(k - 1) /\ Owned(streams[k])
  BY DEF StreamInv, Layered
<1>2. r \in StreamsMade /\ r.under = stdout /\ Owned(r)
  BY <1>1 DEF StreamsMade, Owned
<1>3. streams' = Append(streams, r) /\ stdout' = Len(streams) + 1
  BY DEF Capture!Over
<1> HIDE DEF r
<1>4. \A ident : SinksFit(streams', ident)
  BY <1>1, <1>2, <1>3, OneMoreStream DEF StreamInv
<1>5. /\ Append(streams, r) \in Seq(StreamsMade)
      /\ Len(Append(streams, r)) = Len(streams) + 1
      /\ \A k \in 1..Len(streams) : Append(streams, r)[k] = streams[k]
      /\ Append(streams, r)[Len(streams) + 1] = r
  BY <1>1, <1>2
<1>6. ASSUME NEW k \in 1..(Len(streams) + 1)
      PROVE  /\ Append(streams, r)[k].under \in 0..(k - 1)
             /\ Owned(Append(streams, r)[k])
  <2>1. CASE k \in 1..Len(streams)
    BY <1>1, <1>5, <2>1
  <2>2. CASE k = Len(streams) + 1
    <3>1. k - 1 = Len(streams)
      BY <1>1, <2>2
    <3> QED
      BY <1>1, <1>2, <1>5, <2>2, <3>1
  <2> QED
    BY <1>1, <2>1, <2>2
<1>7. Layered(streams')
  BY <1>3, <1>5, <1>6 DEF Layered
<1> QED
  BY <1>1, <1>3, <1>4, <1>5, <1>7

LEMMA StreamStepKeeps == StreamInv /\ [Capture!Next]_streamVars => StreamInv'
<1> SUFFICES ASSUME StreamInv, [Capture!Next]_streamVars PROVE StreamInv'
  OBVIOUS
<1>0. MaxTurns \in Nat /\ MaxCommands \in Nat /\ Len(streams) \in Nat
  BY PartsAssumption DEF Capture!StreamsAssumption, StreamInv, Layered
<1>1. CASE Capture!StartTurn
  <2>1. <<>> \in Seq(0..Len(streams)) /\ worker.turn + 1 \in 1..MaxTurns
    BY <1>0, <1>1 DEF Capture!StartTurn, StreamInv
  <2>2. Len(<<>>) = Depth("started")
    BY DEF Depth
  <2>3. /\ worker' = [turn |-> worker.turn + 1, at |-> "started", saved |-> <<>>]
        /\ UNCHANGED <<streams, stdout, loop>>
    BY <1>1 DEF Capture!StartTurn
  <2> QED
    BY <1>0, <2>1, <2>2, <2>3 DEF StreamInv
<1>2. ASSUME NEW from \in {"started", "turn"}, NEW to \in {"turn", "verify"},
             NEW kind \in {"queue", "report"}, Capture!Enter(from, to, kind),
             Depth(to) = Depth(from) + 1
      PROVE  StreamInv'
  <2>1. worker.turn \in 1..MaxTurns /\ worker.at = from
    BY <1>2 DEF Capture!Enter, StreamInv
  <2>2. /\ Layered(streams') /\ \A ident : SinksFit(streams', ident)
        /\ Len(streams') = Len(streams) + 1 /\ stdout' \in 0..Len(streams')
    BY <1>2, <2>1, OneMadeOver DEF Capture!Enter
  <2>3. 0..Len(streams) \subseteq 0..Len(streams')
    BY <1>0, <2>2
  <2>4. /\ worker.saved \in Seq(0..Len(streams')) /\ stdout \in 0..Len(streams')
        /\ Len(worker.saved) = Depth(from)
    BY <2>1, <2>3, SeqMonotonic DEF StreamInv
  <2>5. loop' \in [at : {"poll", "command"}, saved : 0..Len(streams'),
                   command : 0..MaxCommands]
    BY <1>2, <2>3 DEF StreamInv, Capture!Enter
  <2> DEFINE stack == Append(worker.saved, stdout)
  <2>6. stack \in Seq(0..Len(streams')) /\ Len(stack) = Depth(to)
    BY <1>2, <2>4
  <2>7. worker' = [worker EXCEPT !.at = to, !.saved = stack]
    BY <1>2 DEF Capture!Enter
  <2> HIDE DEF stack
  <2>8. /\ worker' \in [turn : 0..MaxTurns,
                        at : {"started", "turn", "verify", "done"},
                        saved : Seq(0..Len(streams'))]
        /\ worker'.at = to /\ worker'.saved = stack /\ worker'.turn = worker.turn
    BY <2>1, <2>6, <2>7 DEF StreamInv
  <2> QED
    BY <2>1, <2>2, <2>5, <2>6, <2>8 DEF StreamInv
<1>3. ASSUME NEW from \in {"turn", "verify"}, NEW to \in {"turn", "done"},
             Capture!Leave(from, to), Depth(from) = Depth(to) + 1
      PROVE  StreamInv'
  <2>1. /\ worker.at = from /\ UNCHANGED <<streams, loop>>
        /\ worker.saved \in Seq(0..Len(streams)) /\ Len(worker.saved) = Depth(to) + 1
        /\ Depth(to) \in Nat
    BY <1>3 DEF Capture!Leave, StreamInv, Depth
  <2>2. worker.saved[Len(worker.saved)] \in 0..Len(streams)
    BY <2>1
  <2> DEFINE stack == SubSeq(worker.saved, 1, Len(worker.saved) - 1)
  <2>3. stack \in Seq(0..Len(streams)) /\ Len(stack) = Depth(to)
    BY <2>1, SMTT(30)
  <2>4. /\ worker' = [worker EXCEPT !.at = to, !.saved = stack]
        /\ stdout' = worker.saved[Len(worker.saved)]
    BY <1>3 DEF Capture!Leave
  <2> HIDE DEF stack
  <2>5. /\ worker' \in [turn : 0..MaxTurns,
                        at : {"started", "turn", "verify", "done"},
                        saved : Seq(0..Len(streams))]
        /\ worker'.at = to /\ worker'.saved = stack /\ worker'.turn = worker.turn
    BY <2>3, <2>4 DEF StreamInv
  <2>6. worker.turn \in 1..MaxTurns
    BY <2>1 DEF StreamInv
  <2> QED
    BY <2>1, <2>2, <2>3, <2>4, <2>5, <2>6 DEF StreamInv
<1>4. CASE Capture!BeginCommand
  <2>1. /\ loop.command + 1 \in 0..MaxCommands /\ loop.command + 1 \in Nat
        /\ Capture!Over("buffer", loop.command + 1, None)
        /\ UNCHANGED <<worker, last>>
        /\ loop' = [at |-> "command", saved |-> stdout, command |-> loop.command + 1]
    BY <1>0, <1>4 DEF Capture!BeginCommand, StreamInv
  <2>2. /\ Layered(streams') /\ \A ident : SinksFit(streams', ident)
        /\ Len(streams') = Len(streams) + 1 /\ stdout' \in 0..Len(streams')
    BY <2>1, OneMadeOver
  <2>3. 0..Len(streams) \subseteq 0..Len(streams')
    BY <1>0, <2>2
  <2>4. worker.saved \in Seq(0..Len(streams')) /\ stdout \in 0..Len(streams')
    BY <2>3, SeqMonotonic DEF StreamInv
  <2> QED
    BY <2>1, <2>2, <2>4 DEF StreamInv
<1>5. CASE Capture!EndCommand
  BY <1>5 DEF Capture!EndCommand, StreamInv
<1>6. CASE Capture!WorkerPrints \/ Capture!LoopPrints \/ UNCHANGED streamVars
  BY <1>6 DEF Capture!WorkerPrints, Capture!LoopPrints, streamVars, StreamInv
<1>7. CASE Capture!BeginCapture
  BY <1>2, <1>7 DEF Capture!BeginCapture, Depth
<1>8. CASE Capture!BeginVerify
  BY <1>2, <1>8 DEF Capture!BeginVerify, Depth
<1>9. CASE Capture!EndVerify
  BY <1>3, <1>9 DEF Capture!EndVerify, Depth
<1>10. CASE Capture!EndCapture
  BY <1>3, <1>10 DEF Capture!EndCapture, Depth
<1> QED
  BY <1>1, <1>4, <1>5, <1>6, <1>7, <1>8, <1>9, <1>10 DEF Capture!Next

LEMMA StreamInvariant == Spec => []StreamInv
<1>1. Init => StreamInv
  <2> SUFFICES ASSUME Init PROVE StreamInv
    OBVIOUS
  <2>1. MaxTurns \in Nat /\ MaxCommands \in Nat
    BY PartsAssumption DEF Capture!StreamsAssumption
  <2>2. Layered(<<>>) /\ Len(<<>>) = 0 /\ <<>> \in Seq(0..Len(<<>>))
    BY DEF Layered
  <2> QED
    BY <2>1, <2>2, NoSinkYet DEF Init, Capture!Init, StreamInv, Depth
<1>2. StreamInv /\ [Next]_vars => StreamInv'
  BY StreamStepKeeps, OneChannelMoves
<1> QED
  BY <1>1, <1>2, PTL DEF Spec

\* NeverFedBack, for any number of turns, commands and streams and whichever
\* idents the system gives the threads: the loop's lines land in no queue and no
\* report, a verify's in none of a turn whose thread had another ident.
THEOREM PrintsAreNotFedBack == Spec => []NeverFedBack
<1>1. Init => Capture!NeverFedBack
  BY DEF Init, Capture!Init, Capture!NeverFedBack
<1>2. StreamInv /\ Capture!NeverFedBack /\ [Next]_vars => Capture!NeverFedBack'
  <2> SUFFICES ASSUME StreamInv, Capture!NeverFedBack, [Capture!Next]_streamVars
               PROVE  Capture!NeverFedBack'
    BY OneChannelMoves
  <2>1. CASE Capture!WorkerPrints
    <3>1. Fits(Capture!Sink(stdout, Ident[worker.turn]), Ident[worker.turn])
      BY SinkFits DEF StreamInv
    <3>2. worker.at \in {"turn", "verify"}
      BY <2>1 DEF Capture!WorkerPrints
    <3>3. Capture!Sink(stdout, Ident[worker.turn]).kind \in {"report", "queue"} =>
            Ident[Capture!Sink(stdout, Ident[worker.turn]).of] = Ident[worker.turn]
      BY <3>1 DEF Fits
    <3> QED
      BY <2>1, <3>2, <3>3 DEF Capture!WorkerPrints, Capture!NeverFedBack
  <2>2. CASE Capture!LoopPrints
    <3>1. loop.at \in {"poll", "command"}
      BY DEF StreamInv
    <3>2. Fits(Capture!Sink(stdout, None), None)
      BY SinkFits DEF StreamInv
    <3>3. Capture!Sink(stdout, None).kind \in {"terminal", "buffer"}
      BY <3>2, PartsAssumption DEF Fits, Capture!StreamsAssumption
    <3> QED
      BY <2>2, <3>1, <3>3 DEF Capture!LoopPrints, Capture!NeverFedBack
  <2>3. CASE UNCHANGED last
    BY <2>3 DEF Capture!NeverFedBack
  <2> QED
    BY <2>1, <2>2, <2>3 DEF Capture!Next, Capture!StartTurn,
       Capture!BeginCapture, Capture!BeginVerify, Capture!EndVerify,
       Capture!EndCapture, Capture!Enter, Capture!Leave, Capture!BeginCommand,
       Capture!EndCommand, streamVars
<1>3. Capture!NeverFedBack => NeverFedBack
  BY DEF NeverFedBack
<1> QED
  BY <1>1, <1>2, <1>3, StreamInvariant, PTL DEF Spec

-----------------------------------------------------------------------------
(* SingleTests.  As long as no read since the launch fell short, what the  *)
(* driver read last tells where the node is.                               *)

Tests == Labels \cup {Menu!NoTest}
Lists == Seq(Labels)
Kinds == {"echo", "main", "fat", "...", "pass", "fail"}
Pieces == [kind : Kinds, of : Tests, list : Lists]
Outs == Seq(Pieces)

Results ==
  [test : Tests, verdict : {"pass", "fail", "unknown"}, heard : SUBSET Tests, there : Tests,
   early : BOOLEAN, relaunched : BOOLEAN, done : BOOLEAN, placed : BOOLEAN]

Nodes ==
  [alive : BOOLEAN, at : {"none", "starting", "main", "fat", "test"}, list : Lists,
   test : Tests, out : Outs, in : Seq(Nat), launched : Nat]

Drivers ==
  [at : {"idle", "main menu", "choose", "list", "place", "back", "send", "read"},
   want : Tests, number : Nat, next : {"idle", "send"}, tests : Lists, last : Outs,
   runs : Seq(Results), relaunched : BOOLEAN, early : BOOLEAN]

\* The number of a run is that of the test asked for, in the list it was looked
\* up in; that list is replaced only by a launch.
Looked(d) ==
  /\ d.at \in {"place", "back", "send", "read"} /\ ~d.relaunched =>
        d.number \in DOMAIN d.tests /\ d.tests[d.number] = d.want
  /\ d.at \in {"main menu", "choose", "list"} /\ d.next = "send" => d.relaunched
  /\ d.at = "place" => \E i \in DOMAIN d.tests : d.tests[i] = d.want

\* What tells that the node stands in a menu, and in which.
ListUp(n, output) == \E i \in DOMAIN output : output[i].kind = "fat" /\ output[i].list = n.list

Standing(n, output) ==
  \/ n.at = "fat" /\ ListUp(n, output)
  \/ n.at = "main" /\ Menu!Shows(output, "main")

Idle(n) == n.out = <<>> /\ n.in = <<>>

ThereOf(n, d) == IF d.number \in DOMAIN n.list THEN n.list[d.number] ELSE Menu!NoTest

\* All that was read is of one test, and so is a verdict.
OfTest(output, test) ==
  \A i \in DOMAIN output :
     /\ output[i].of \in {test, Menu!NoTest}
     /\ output[i].kind \in {"pass", "fail"} => output[i].of = test

\* A number was sent to a menu, the list but after an output that showed both.
SentTo(n, d) == n.at = "fat" \/ (n.at = "main" /\ Menu!Ambiguous(d.last))

Judged(n, d) ==
  \/ ThereOf(n, d) = Menu!NoTest
  \/ Menu!Ambiguous(d.last)
  \/ Menu!Shows(n.out, "fail") \/ Menu!Shows(n.out, "pass")

\* Where the node is when the driver is at a place.  A shell that died keeps
\* what it has printed.
Placed(n, d) ==
  /\ d.at \in {"idle", "place"} /\ n.alive => Idle(n) /\ Standing(n, d.last) /\ d.tests = n.list
  /\ d.at = "main menu" /\ n.alive =>
       n.in = <<>> /\ (n.at = "starting" \/ (n.at = "main" /\ Menu!Shows(n.out, "main")))
  /\ d.at = "choose" /\ n.alive => Idle(n) /\ n.at = "main"
  /\ d.at \in {"list", "back"} /\ n.alive =>
       \/ n.at = "main" /\ n.in = <<Menu!FAT>> /\ n.out = <<Menu!Echo>>
       \/ n.at = "fat" /\ n.in = <<>> /\ n.out = Append(<<Menu!Echo>>, Menu!FatMenu(n.list))
  /\ d.at = "back" /\ n.alive => d.tests = n.list
  /\ d.at = "send" /\ n.alive => Idle(n) /\ SentTo(n, d) /\ d.tests = n.list
  /\ d.at = "read" => d.tests = n.list /\ OfTest(n.out, ThereOf(n, d))
  /\ d.at = "read" /\ n.alive =>
       \/ n.in = <<d.number>> /\ n.out = <<Menu!Echo>> /\ SentTo(n, d)
       \/ n.in = <<>> /\ n.at = "test" /\ n.test = ThereOf(n, d)
       \/ n.in = <<>> /\ Standing(n, n.out) /\ Judged(n, d)

MenuInv(n, d) ==
  /\ n \in Nodes /\ d \in Drivers
  /\ Looked(d)
  /\ d.early \/ Placed(n, d)

LEMMA MenuBounds ==
  /\ Numberings \subseteq Lists
  /\ \A i \in DOMAIN <<Menu!Echo>> : <<Menu!Echo>>[i] = Menu!Echo
  /\ Menu!Echo \in Pieces /\ Menu!MainMenu \in Pieces
  /\ \A list \in Lists : Menu!FatMenu(list) \in Pieces
  /\ \A test \in Tests, kind \in {"...", "pass", "fail"} : Menu!Printed(test, kind) \in Pieces
<1>1. Numberings \subseteq Lists
  BY PartsAssumption DEF Menu!SingleTestsAssumption, Lists
<1>2. <<>> \in Lists /\ Menu!NoTest \in Tests
  BY DEF Lists, Tests
<1>3. Menu!Echo \in Pieces /\ Menu!MainMenu \in Pieces
  BY <1>2 DEF Menu!Echo, Menu!MainMenu, Pieces, Kinds
<1>4. \A list \in Lists : Menu!FatMenu(list) \in Pieces
  BY <1>2 DEF Menu!FatMenu, Pieces, Kinds
<1>5. \A test \in Tests, kind \in {"...", "pass", "fail"} : Menu!Printed(test, kind) \in Pieces
  BY <1>2 DEF Menu!Printed, Pieces, Kinds
<1>6. \A i \in DOMAIN <<Menu!Echo>> : <<Menu!Echo>>[i] = Menu!Echo
  OBVIOUS
<1> QED
  BY <1>1, <1>3, <1>4, <1>5, <1>6

\* One piece of output more.
LEMMA OneMorePiece ==
  ASSUME NEW o \in Outs, NEW p \in Pieces
  PROVE  /\ Append(o, p) \in Outs
         /\ \A i \in DOMAIN Append(o, p) :
               Append(o, p)[i] = p \/ (i \in DOMAIN o /\ Append(o, p)[i] = o[i])
         /\ \A i \in DOMAIN o : i \in DOMAIN Append(o, p) /\ Append(o, p)[i] = o[i]
         /\ \E i \in DOMAIN Append(o, p) : Append(o, p)[i] = p
<1>1. /\ Append(o, p) \in Seq(Pieces) /\ Len(Append(o, p)) = Len(o) + 1 /\ Len(o) \in Nat
      /\ DOMAIN o = 1..Len(o) /\ DOMAIN Append(o, p) = 1..(Len(o) + 1)
      /\ \A i \in 1..Len(o) : Append(o, p)[i] = o[i]
      /\ Append(o, p)[Len(o) + 1] = p
  BY DEF Outs
<1>2. Len(o) + 1 \in DOMAIN Append(o, p)
  BY <1>1
<1>3. \A i \in 1..(Len(o) + 1) : i \in 1..Len(o) \/ i = Len(o) + 1
  BY <1>1
<1>4. \A i \in 1..Len(o) : i \in 1..(Len(o) + 1)
  BY <1>1
<1> QED
  BY <1>1, <1>2, <1>3, <1>4 DEF Outs

LEMMA ShownOfMore ==
  ASSUME NEW o \in Outs, NEW p \in Pieces, NEW kind
  PROVE  Menu!Shows(Append(o, p), kind) <=> Menu!Shows(o, kind) \/ p.kind = kind
BY OneMorePiece DEF Menu!Shows

LEMMA UpInMore ==
  ASSUME NEW n, NEW o \in Outs, NEW p \in Pieces
  PROVE  ListUp(n, Append(o, p)) <=> ListUp(n, o) \/ (p.kind = "fat" /\ p.list = n.list)
BY OneMorePiece DEF ListUp

LEMMA OfTestMore ==
  ASSUME NEW o \in Outs, NEW p \in Pieces, NEW test, OfTest(o, test),
         p.of \in {test, Menu!NoTest}, p.kind \in {"pass", "fail"} => p.of = test
  PROVE  OfTest(Append(o, p), test)
BY OneMorePiece DEF OfTest

LEMMA TwoInARow ==
  ASSUME NEW p, NEW q
  PROVE  /\ DOMAIN Append(<<p>>, q) = {1, 2}
         /\ Append(<<p>>, q)[1] = p /\ Append(<<p>>, q)[2] = q
<1>1. DOMAIN Append(<<p>>, q) = 1..2
  OBVIOUS
<1>2. 1..2 = {1, 2}
  OBVIOUS
<1>3. Append(<<p>>, q)[1] = p /\ Append(<<p>>, q)[2] = q
  OBVIOUS
<1> QED
  BY <1>1, <1>2, <1>3

\* The echo, and the list after it.
LEMMA ListAfterEcho ==
  ASSUME NEW list \in Lists
  PROVE  /\ Menu!ListOf(Append(<<Menu!Echo>>, Menu!FatMenu(list))) = list
         /\ \A n : n.list = list =>
              ListUp(n, Append(<<Menu!Echo>>, Menu!FatMenu(list)))
         /\ <<Menu!Echo>> \in Outs /\ Append(<<Menu!Echo>>, Menu!FatMenu(list)) \in Outs
<1> DEFINE output == Append(<<Menu!Echo>>, Menu!FatMenu(list))
<1>1. /\ DOMAIN output = {1, 2} /\ output[1] = Menu!Echo /\ output[2] = Menu!FatMenu(list)
  BY TwoInARow
<1>2. Menu!Echo.kind = "echo" /\ Menu!FatMenu(list).kind = "fat"
      /\ Menu!FatMenu(list).list = list
  BY DEF Menu!Echo, Menu!FatMenu
<1>3. <<Menu!Echo>> \in Outs /\ output \in Outs
  <2>1. <<Menu!Echo>> \in Outs
    BY MenuBounds DEF Outs
  <2> QED
    BY <2>1, MenuBounds, OneMorePiece
<1> HIDE DEF output
<1>4. {i \in DOMAIN output : output[i].kind = "fat"} = {2}
  BY <1>1, <1>2
<1>5. (CHOOSE i \in {2} : \A j \in {2} : i <= j) = 2
  OBVIOUS
<1>6. Menu!ListOf(output) = list
  BY <1>1, <1>2, <1>4, <1>5 DEF Menu!ListOf
<1>7. \A n : n.list = list => ListUp(n, output)
  <2>1. 2 \in DOMAIN output
    BY <1>1
  <2> QED
    BY <1>1, <1>2, <2>1 DEF ListUp
<1> QED
  BY <1>3, <1>6, <1>7 DEF output

\* The script is started in a new shell, for a run or not.
LEMMA LaunchedAfresh ==
  ASSUME NEW n \in Nodes, NEW d \in Drivers, NEW next \in {"idle", "send"},
         NEW list \in Numberings, NEW m, NEW e,
         m = [alive |-> TRUE, at |-> "starting", list |-> list, test |-> Menu!NoTest,
              out |-> <<Menu!Echo>>, in |-> <<>>, launched |-> n.launched + 1],
         e = [d EXCEPT !.at = "main menu", !.next = next, !.early = FALSE,
                       !.relaunched = next = "send"]
  PROVE  MenuInv(m, e)
<1>1. <<Menu!Echo>> \in Outs /\ list \in Lists /\ Menu!NoTest \in Tests /\ <<>> \in Seq(Nat)
  <2>1. list \in Lists /\ <<>> \in Seq(Nat)
    BY MenuBounds
  <2> QED
    BY <2>1, ListAfterEcho DEF Tests
<1>2. m \in Nodes
  BY <1>1 DEF Nodes
<1>3. (next = "send") \in BOOLEAN /\ e \in Drivers
  BY DEF Drivers
<1>4. e.at = "main menu" /\ e.next = next /\ e.relaunched = (next = "send")
  BY DEF Drivers
<1>5. m.at = "starting" /\ m.in = <<>>
  OBVIOUS
<1> QED
  BY <1>2, <1>3, <1>4, <1>5 DEF MenuInv, Looked, Placed

LEMMA LaunchKeeps ==
  ASSUME NEW next \in {"idle", "send"}, MenuInv(node, driver), Menu!LaunchFor(next)
  PROVE  MenuInv(node', driver')
<1>1. node \in Nodes /\ driver \in Drivers
  BY DEF MenuInv
<1>2. PICK list \in Numberings :
        node' = [alive |-> TRUE, at |-> "starting", list |-> list, test |-> Menu!NoTest,
                 out |-> <<Menu!Echo>>, in |-> <<>>, launched |-> node.launched + 1]
  BY DEF Menu!LaunchFor
<1>3. driver' = [driver EXCEPT !.at = "main menu", !.next = next, !.early = FALSE,
                               !.relaunched = next = "send"]
  BY DEF Menu!LaunchFor
<1> QED
  BY <1>1, <1>2, <1>3, LaunchedAfresh

\* A number is sent, and echoed.
LEMMA SendKeeps ==
  ASSUME NEW number \in Nat, NEW place \in {"list", "back", "read"},
         MenuInv(node, driver), Menu!Send(number, place),
         place = "list" => driver.at = "choose" /\ number = Menu!FAT,
         place = "back" =>
           driver.at = "place" /\ number = Menu!FAT /\ ~Menu!ShowsTests(driver.last),
         place = "read" => driver.at = "send" /\ number = driver.number
  PROVE  MenuInv(node', driver')
<1>1. PICK n \in Nodes, d \in Drivers : n = node /\ d = driver
  BY DEF MenuInv
<1>2. Looked(d) /\ (d.early \/ Placed(n, d))
  BY <1>1 DEF MenuInv
<1>3. CASE n.alive
  <2>1. PICK m, e :
          /\ m = [n EXCEPT !.in = Append(@, number), !.out = Append(@, Menu!Echo)]
          /\ e = [d EXCEPT !.at = place] /\ m = node' /\ e = driver'
    BY <1>1, <1>3 DEF Menu!Send
  <2>2. Append(n.in, number) \in Seq(Nat) /\ Append(n.out, Menu!Echo) \in Outs
    BY MenuBounds, OneMorePiece DEF Nodes
  <2>3. m \in Nodes /\ e \in Drivers
    BY <2>1, <2>2 DEF Nodes, Drivers
  <2>4. /\ m.alive = n.alive /\ m.at = n.at /\ m.list = n.list /\ m.test = n.test
        /\ m.out = Append(n.out, Menu!Echo) /\ m.in = Append(n.in, number)
        /\ e.at = place /\ e.want = d.want /\ e.number = d.number /\ e.next = d.next
        /\ e.tests = d.tests /\ e.last = d.last /\ e.relaunched = d.relaunched
        /\ e.early = d.early
    BY <2>1 DEF Nodes, Drivers
  <2>5. Looked(e)
    BY <1>1, <1>2, <2>4 DEF Looked
  <2>6. ASSUME ~d.early PROVE Placed(m, e)
    <3>1. Placed(n, d)
      BY <1>2, <2>6
    <3>2. Idle(n) /\ m.out = <<Menu!Echo>> /\ m.in = <<number>>
      <4>1. Idle(n)
        BY <1>1, <1>3, <3>1 DEF Placed
      <4>2. Append(<<>>, Menu!Echo) = <<Menu!Echo>> /\ Append(<<>>, number) = <<number>>
        OBVIOUS
      <4> QED
        BY <2>4, <4>1, <4>2 DEF Idle
    <3>3. CASE place = "list"
      BY <1>1, <1>3, <2>4, <3>1, <3>2, <3>3 DEF Placed
    <3>4. CASE place = "back"
      <4>1. d.tests = n.list /\ Standing(n, d.last)
        BY <1>1, <1>3, <3>1, <3>4 DEF Placed
      <4>2. ~ListUp(n, d.last)
        <5>1. PICK i \in DOMAIN d.tests : d.tests[i] = d.want
          BY <1>1, <1>2, <3>4 DEF Looked
        <5>2. d.want \in Menu!ToSet(d.tests)
          BY <5>1 DEF Menu!ToSet
        <5>3. ~Menu!ShowsTests(d.last)
          BY <1>1, <3>4
        <5>4. driver.tests = n.list
          BY <1>1, <4>1
        <5> QED
          BY <4>1, <5>2, <5>3, <5>4 DEF Menu!ShowsTests, ListUp
      <4>3. n.at = "main"
        BY <4>1, <4>2 DEF Standing
      <4> QED
        BY <1>1, <1>3, <2>4, <3>2, <3>4, <4>1, <4>3 DEF Placed
    <3>5. CASE place = "read"
      <4>1. d.tests = n.list /\ SentTo(n, d)
        BY <1>1, <1>3, <3>1, <3>5 DEF Placed
      <4>2. SentTo(m, e) /\ ThereOf(m, e) = ThereOf(n, d)
        BY <2>4, <4>1 DEF SentTo, ThereOf
      <4>3. OfTest(m.out, ThereOf(m, e))
        BY <3>2, MenuBounds DEF OfTest, Menu!Echo
      <4> QED
        BY <1>1, <1>3, <2>4, <3>2, <3>5, <4>1, <4>2, <4>3 DEF Placed
    <3> QED
      BY <3>3, <3>4, <3>5
  <2> QED
    BY <2>1, <2>3, <2>4, <2>5, <2>6 DEF MenuInv
<1>4. CASE ~n.alive
  <2>1. PICK e : e = [d EXCEPT !.at = "idle"] /\ node' = n /\ e = driver'
    BY <1>1, <1>4 DEF Menu!Send
  <2>2. e \in Drivers /\ e.at = "idle"
    BY <2>1 DEF Drivers
  <2> QED
    BY <1>4, <2>1, <2>2 DEF MenuInv, Looked, Placed
<1> QED
  BY <1>3, <1>4

\* A step of the node: what it prints is of the test that runs.
LEMMA NodeKeeps ==
  ASSUME MenuInv(node, driver), driver' = driver,
         \/ Menu!ShowsMenu \/ Menu!TakesNumber \/ Menu!Speaks \/ Menu!Dies
         \/ \E verdict \in {"pass", "fail"}, back \in {"main", "list", "both"} :
               Menu!EndsTest(verdict, back)
  PROVE  MenuInv(node', driver')
<1>1. PICK n \in Nodes, d \in Drivers : n = node /\ d = driver
  BY DEF MenuInv
<1>2. Looked(d) /\ (d.early \/ Placed(n, d))
  BY <1>1 DEF MenuInv
<1>3. SUFFICES node' \in Nodes /\ (Placed(n, d) => Placed(node', d))
  BY <1>1, <1>2 DEF MenuInv
<1>4. n.list \in Lists /\ n.out \in Outs /\ n.test \in Tests /\ n.in \in Seq(Nat)
      /\ Menu!NoTest \in Tests
  BY DEF Nodes, Tests
<1>5. CASE Menu!ShowsMenu
  <2>1. /\ n.alive /\ n.at = "starting"
        /\ node' = [n EXCEPT !.at = "main", !.out = Append(n.out, Menu!MainMenu)]
    BY <1>1, <1>5 DEF Menu!ShowsMenu
  <2>2. Append(n.out, Menu!MainMenu) \in Outs
    BY <1>4, MenuBounds, OneMorePiece
  <2>3. PICK m : m = [n EXCEPT !.at = "main", !.out = Append(n.out, Menu!MainMenu)]
                 /\ m = node'
    BY <2>1
  <2>5. m \in Nodes
    BY <2>2, <2>3 DEF Nodes
  <2>6. /\ m.alive = n.alive /\ m.at = "main" /\ m.in = n.in
        /\ m.out = Append(n.out, Menu!MainMenu)
    BY <2>3 DEF Nodes
  <2>4. ASSUME Placed(n, d) PROVE Placed(m, d)
    <3>1. d.at = "main menu"
      BY <2>1, <2>4 DEF Placed, Standing, SentTo, Drivers
    <3>2. Menu!Shows(m.out, "main")
      BY <1>4, <2>6, MenuBounds, ShownOfMore DEF Menu!MainMenu
    <3> QED
      BY <2>1, <2>4, <2>6, <3>1, <3>2 DEF Placed
  <2> QED
    BY <2>3, <2>4, <2>5
<1>6. CASE Menu!TakesNumber
  <2>1. n.alive /\ n.in # <<>> /\ n.at \in {"main", "fat"}
    BY <1>1, <1>6 DEF Menu!TakesNumber
  <2>2. Tail(n.in) \in Seq(Nat) /\ Head(n.in) \in Nat
    BY <1>4, <2>1
  <2> DEFINE num == Head(n.in)
             shown == IF n.at = "main" /\ num # Menu!FAT THEN Menu!MainMenu
                      ELSE Menu!FatMenu(n.list)
  <2>3. CASE n.at = "fat" /\ num \in DOMAIN n.list
    <3>1. node' = [[n EXCEPT !.in = Tail(n.in)] EXCEPT !.at = "test", !.test = n.list[num]]
      BY <1>1, <1>6, <2>3 DEF Menu!TakesNumber
    <3>2. n.list[num] \in Tests
      BY <1>4, <2>3 DEF Lists, Tests
    <3>5. PICK m : /\ m = [[n EXCEPT !.in = Tail(n.in)] EXCEPT !.at = "test", !.test = n.list[num]]
                   /\ m = node'
      BY <3>1
    <3>6. m \in Nodes
      BY <2>2, <3>2, <3>5 DEF Nodes
    <3>3. /\ m.alive = n.alive /\ m.at = "test" /\ m.out = n.out
          /\ m.in = Tail(n.in) /\ m.list = n.list /\ m.test = n.list[num]
      BY <3>5 DEF Nodes
    <3>4. ASSUME Placed(n, d) PROVE Placed(m, d)
      <4>1. d.at = "read" /\ n.in = <<d.number>>
        BY <2>1, <2>3, <3>4 DEF Placed, Standing, SentTo, Drivers, Idle
      <4>2. num = d.number /\ Tail(n.in) = <<>>
        BY <4>1
      <4>3. m.test = ThereOf(m, d) /\ ThereOf(m, d) = ThereOf(n, d)
        BY <2>3, <3>3, <4>2 DEF ThereOf
      <4> QED
        BY <2>1, <3>3, <3>4, <4>1, <4>2, <4>3 DEF Placed
    <3> QED
      BY <3>4, <3>5, <3>6
  <2>4. CASE ~(n.at = "fat" /\ num \in DOMAIN n.list)
    <3>1. PICK menu \in {"main", "fat"} :
            /\ node' = [[n EXCEPT !.in = Tail(n.in)] EXCEPT !.at = menu,
                                     !.out = Append(n.out, shown)]
            /\ (menu = "main") = (n.at = "main" /\ num # Menu!FAT)
      <4>1. CASE n.at = "main" /\ num = Menu!FAT
        BY <1>1, <1>6, <4>1 DEF Menu!TakesNumber
      <4>2. CASE n.at = "main" /\ num # Menu!FAT
        <5>1. node' = [[n EXCEPT !.in = Tail(n.in)] EXCEPT !.out = Append(n.out, shown)]
          BY <1>1, <1>6, <4>2 DEF Menu!TakesNumber
        <5> HIDE DEF shown
        <5>2. node' = [[n EXCEPT !.in = Tail(n.in)] EXCEPT !.at = "main",
                                     !.out = Append(n.out, shown)]
          BY <4>2, <5>1 DEF Nodes
        <5> QED
          BY <4>2, <5>2
      <4>3. CASE n.at = "fat"
        <5>1. node' = [[n EXCEPT !.in = Tail(n.in)] EXCEPT !.out = Append(n.out, shown)]
          BY <1>1, <1>6, <2>4, <4>3 DEF Menu!TakesNumber
        <5> HIDE DEF shown
        <5>2. node' = [[n EXCEPT !.in = Tail(n.in)] EXCEPT !.at = "fat",
                                     !.out = Append(n.out, shown)]
          BY <4>3, <5>1 DEF Nodes
        <5> QED
          BY <4>3, <5>2
      <4> QED
        BY <2>1, <4>1, <4>2, <4>3
    <3>2. /\ shown \in Pieces /\ shown.of = Menu!NoTest
          /\ menu = "main" => shown.kind = "main"
          /\ menu = "fat" => shown = Menu!FatMenu(n.list) /\ shown.kind = "fat" /\ shown.list = n.list
      BY <1>4, <2>1, <3>1, MenuBounds DEF Menu!MainMenu, Menu!FatMenu
    <3> HIDE DEF shown
    <3>3. Append(n.out, shown) \in Outs
      BY <1>4, <3>2, OneMorePiece
    <3>7. PICK m : /\ m = [[n EXCEPT !.in = Tail(n.in)] EXCEPT !.at = menu,
                                     !.out = Append(n.out, shown)]
                   /\ m = node'
      BY <3>1
    <3>8. m \in Nodes
      BY <2>2, <3>3, <3>7 DEF Nodes
    <3>4. /\ m.alive = n.alive /\ m.at = menu /\ m.out = Append(n.out, shown)
          /\ m.in = Tail(n.in) /\ m.list = n.list /\ m.test = n.test
      BY <3>7 DEF Nodes
    <3>5. Standing(m, m.out)
      <4>1. CASE menu = "main"
        <5>1. Menu!Shows(Append(n.out, shown), "main")
          BY <1>4, <3>2, <4>1, ShownOfMore
        <5> QED
          BY <3>4, <4>1, <5>1 DEF Standing
      <4>2. CASE menu = "fat"
        <5>1. ListUp(m, Append(n.out, shown))
          BY <1>4, <3>2, <3>4, <4>2, UpInMore
        <5> QED
          BY <3>4, <4>2, <5>1 DEF Standing
      <4> QED
        BY <4>1, <4>2
    <3>6. ASSUME Placed(n, d) PROVE Placed(m, d)
      <4>1. d.at \in {"list", "back", "read"}
        BY <2>1, <3>6 DEF Placed, Standing, SentTo, Drivers, Idle
      <4>2. CASE d.at \in {"list", "back"}
        <5>1. n.at = "main" /\ n.in = <<Menu!FAT>> /\ n.out = <<Menu!Echo>>
          BY <2>1, <3>6, <4>2 DEF Placed
        <5>2. num = Menu!FAT /\ Tail(n.in) = <<>>
          BY <5>1
        <5>3. m.at = "fat" /\ m.in = <<>> /\ m.out = Append(<<Menu!Echo>>, Menu!FatMenu(m.list))
          BY <3>1, <3>2, <3>4, <5>1, <5>2
        <5> QED
          BY <3>4, <3>6, <4>2, <5>3 DEF Placed
      <4>3. CASE d.at = "read"
        <5>1. n.in = <<d.number>> /\ n.out = <<Menu!Echo>> /\ SentTo(n, d)
          BY <2>1, <3>6, <4>3 DEF Placed
        <5>2. num = d.number /\ Tail(n.in) = <<>>
          BY <5>1
        <5>3. Judged(m, d)
          BY <2>4, <3>4, <5>1, <5>2 DEF Judged, ThereOf, SentTo
        <5>4. ThereOf(m, d) = ThereOf(n, d) /\ OfTest(n.out, ThereOf(n, d))
          BY <3>4, <3>6, <4>3 DEF ThereOf, Placed
        <5>5. OfTest(m.out, ThereOf(m, d))
          BY <1>4, <3>1, <3>2, <3>4, <5>4, OfTestMore
        <5> QED
          BY <3>4, <3>5, <3>6, <4>3, <5>2, <5>3, <5>5 DEF Placed
      <4> QED
        BY <4>1, <4>2, <4>3
    <3> QED
      BY <3>6, <3>7, <3>8
  <2> QED
    BY <2>3, <2>4
<1>7. CASE Menu!Speaks
  <2>1. /\ n.alive /\ n.at = "test"
        /\ node' = [n EXCEPT !.out = Append(n.out, Menu!Printed(n.test, "..."))]
    BY <1>1, <1>7 DEF Menu!Speaks
  <2>2. PICK q \in Pieces : q = Menu!Printed(n.test, "...") /\ q.of = n.test /\ q.kind = "..."
    BY <1>4, MenuBounds DEF Menu!Printed
  <2>3. Append(n.out, q) \in Outs
    BY <1>4, OneMorePiece
  <2>6. PICK m : m = [n EXCEPT !.out = Append(n.out, q)] /\ m = node'
    BY <2>1, <2>2
  <2>7. m \in Nodes
    BY <2>3, <2>6 DEF Nodes
  <2>4. /\ m.alive = n.alive /\ m.at = n.at /\ m.out = Append(n.out, q)
        /\ m.in = n.in /\ m.list = n.list /\ m.test = n.test
    BY <2>6 DEF Nodes
  <2>5. ASSUME Placed(n, d) PROVE Placed(m, d)
    <3>1. d.at = "read" /\ n.in = <<>> /\ n.test = ThereOf(n, d)
      BY <2>1, <2>5 DEF Placed, Standing, SentTo, Drivers
    <3>2. ThereOf(m, d) = ThereOf(n, d) /\ OfTest(n.out, ThereOf(n, d))
      BY <2>4, <2>5, <3>1 DEF ThereOf, Placed
    <3>3. OfTest(m.out, ThereOf(m, d))
      BY <1>4, <2>2, <2>4, <3>1, <3>2, OfTestMore
    <3> QED
      BY <2>1, <2>4, <2>5, <3>1, <3>2, <3>3 DEF Placed
  <2> QED
    BY <2>5, <2>6, <2>7
<1>8. CASE Menu!Dies
  <2>3. PICK m : m = [n EXCEPT !.alive = FALSE, !.in = <<>>] /\ m = node'
    BY <1>1, <1>8 DEF Menu!Dies
  <2>4. m \in Nodes
    <3>1. <<>> \in Seq(Nat)
      OBVIOUS
    <3> QED
      BY <2>3, <3>1 DEF Nodes
  <2>1. ~m.alive /\ m.out = n.out /\ m.list = n.list
    BY <2>3 DEF Nodes
  <2>2. Placed(n, d) => Placed(m, d)
    BY <2>1 DEF Placed, ThereOf
  <2> QED
    BY <2>2, <2>3, <2>4
<1>9. ASSUME NEW verdict \in {"pass", "fail"}, NEW back \in {"main", "list", "both"},
             Menu!EndsTest(verdict, back)
      PROVE  node' \in Nodes /\ (Placed(n, d) => Placed(node', d))
  <2> DEFINE closed == Append(n.out, Menu!Printed(n.test, verdict))
             listed == IF back = "main" THEN closed ELSE Append(closed, Menu!FatMenu(n.list))
             told == IF back = "list" THEN listed ELSE Append(listed, Menu!MainMenu)
  <2>1. /\ n.alive /\ n.at = "test"
        /\ node' = [n EXCEPT !.at = IF back = "list" THEN "fat" ELSE "main",
                             !.test = Menu!NoTest, !.out = told]
    BY <1>1, <1>9 DEF Menu!EndsTest
  <2>2. PICK q \in Pieces, f \in Pieces, g \in Pieces :
          /\ q = Menu!Printed(n.test, verdict) /\ q.of = n.test /\ q.kind = verdict
          /\ f = Menu!FatMenu(n.list) /\ f.kind = "fat" /\ f.list = n.list /\ f.of = Menu!NoTest
          /\ g = Menu!MainMenu /\ g.kind = "main" /\ g.of = Menu!NoTest
    <3>1. Menu!Printed(n.test, verdict) \in Pieces /\ Menu!FatMenu(n.list) \in Pieces
          /\ Menu!MainMenu \in Pieces
      BY <1>4, MenuBounds
    <3> QED
      BY <3>1 DEF Menu!Printed, Menu!FatMenu, Menu!MainMenu
  <2>3. closed = Append(n.out, q)
        /\ listed = (IF back = "main" THEN closed ELSE Append(closed, f))
        /\ told = (IF back = "list" THEN listed ELSE Append(listed, g))
    BY <2>2
  <2> HIDE DEF told, listed, closed
  <2>4. closed \in Outs /\ Menu!Shows(closed, verdict)
    <3>1. closed \in Outs
      BY <1>4, <2>2, <2>3, OneMorePiece
    <3>2. Menu!Shows(Append(n.out, q), verdict)
      BY <1>4, <2>2, ShownOfMore
    <3> QED
      BY <2>3, <3>1, <3>2
  <2>5. /\ listed \in Outs /\ Menu!Shows(listed, verdict)
        /\ back # "main" => ListUp(n, listed)
    <3>1. CASE back = "main"
      BY <2>3, <2>4, <3>1
    <3>2. CASE back # "main"
      BY <2>2, <2>3, <2>4, <3>2, OneMorePiece, ShownOfMore, UpInMore
    <3> QED
      BY <3>1, <3>2
  <2>6. /\ told \in Outs /\ Menu!Shows(told, verdict)
        /\ back = "list" => ListUp(n, told)
        /\ back # "list" => Menu!Shows(told, "main")
    <3>1. CASE back = "list"
      BY <2>3, <2>5, <3>1
    <3>2. CASE back # "list"
      BY <2>2, <2>3, <2>5, <3>2, OneMorePiece, ShownOfMore
    <3> QED
      BY <3>1, <3>2
  <2>10. PICK m : /\ m = [n EXCEPT !.at = IF back = "list" THEN "fat" ELSE "main",
                                   !.test = Menu!NoTest, !.out = told]
                 /\ m = node'
    BY <2>1
  <2>11. m \in Nodes
    BY <1>4, <2>6, <2>10 DEF Nodes
  <2>7. /\ m.alive = n.alive /\ m.out = told /\ m.in = n.in /\ m.list = n.list
        /\ m.at = IF back = "list" THEN "fat" ELSE "main"
    BY <2>10 DEF Nodes
  <2>8. Standing(m, m.out)
    BY <2>6, <2>7 DEF Standing, ListUp
  <2>9. ASSUME Placed(n, d) PROVE Placed(m, d)
    <3>1. d.at = "read" /\ n.in = <<>> /\ n.test = ThereOf(n, d)
      BY <2>1, <2>9 DEF Placed, Standing, SentTo, Drivers
    <3>2. ThereOf(m, d) = ThereOf(n, d) /\ OfTest(n.out, n.test)
      BY <2>7, <2>9, <3>1 DEF ThereOf, Placed
    <3>3. OfTest(closed, n.test)
      BY <1>4, <2>2, <2>3, <3>2, OfTestMore
    <3>4. OfTest(listed, n.test)
      <4>1. CASE back = "main"
        BY <2>3, <3>3, <4>1
      <4>2. CASE back # "main"
        BY <2>2, <2>3, <2>4, <3>3, <4>2, OfTestMore
      <4> QED
        BY <4>1, <4>2
    <3>5. OfTest(told, n.test)
      <4>1. CASE back = "list"
        BY <2>3, <3>4, <4>1
      <4>2. CASE back # "list"
        BY <2>2, <2>3, <2>5, <3>4, <4>2, OfTestMore
      <4> QED
        BY <4>1, <4>2
    <3>6. Judged(m, d)
      BY <2>6, <2>7 DEF Judged
    <3> QED
      BY <2>7, <2>8, <2>9, <3>1, <3>2, <3>5, <3>6 DEF Placed
  <2> QED
    BY <2>9, <2>10, <2>11
<1> QED
  BY <1>5, <1>6, <1>7, <1>8, <1>9

\* Of places in a sequence one is the first.
LEMMA LeastPlace ==
  ASSUME NEW T \in SUBSET Nat, T # {}
  PROVE  \E n \in T : \A m \in T : n <= m
<1> DEFINE R == {p \in Nat \X Nat : p[1] < p[2]}
<1>1. IsWellFoundedOn(R, Nat)
  BY NatLessThanWellFounded DEF OpToRel
<1>2. \E x \in T : \A y \in T : ~(<<y, x>> \in R)
  <2> HIDE DEF R
  <2> QED
    BY <1>1, WFMin
<1>3. PICK x \in T : \A y \in T : ~(<<y, x>> \in R)
  BY <1>2
<1>4. \A y \in T : ~(y < x)
  BY <1>3
<1> HIDE DEF R
<1> QED
  BY <1>4

\* The numbered lines of an output are a list.
LEMMA ListOfAnOutput ==
  ASSUME NEW o \in Outs
  PROVE  Menu!ListOf(o) \in Lists
<1> DEFINE menus == {i \in DOMAIN o : o[i].kind = "fat"}
           IsFirst(i) == \A j \in menus : i <= j
<1>1. CASE menus = {}
  BY <1>1 DEF Menu!ListOf, Lists
<1>2. CASE menus # {}
  <2>1. menus \subseteq Nat
    BY DEF Outs
  <2>2. \E i \in menus : IsFirst(i)
    BY <1>2, <2>1, LeastPlace
  <2>3. (CHOOSE i \in menus : IsFirst(i)) \in menus
    BY <2>2
  <2>4. \A i \in DOMAIN o : o[i] \in Pieces
    BY DEF Outs
  <2>5. \A i \in menus : o[i].list \in Lists
    BY <2>4 DEF Pieces
  <2> QED
    BY <1>2, <2>3, <2>5 DEF Menu!ListOf
<1> QED
  BY <1>1, <1>2

\* A read takes all that the node printed.
LEMMA ReadKeeps ==
  ASSUME NEW n \in Nodes, NEW d \in Drivers, NEW m \in Nodes, NEW e \in Drivers,
         MenuInv(n, d),
         m.alive = n.alive, m.at = n.at, m.in = n.in, m.list = n.list, m.out = <<>>,
         e.last = n.out, e.want = d.want, e.number = d.number, e.next = d.next,
         e.relaunched = d.relaunched,
         ~e.early => ~d.early /\ n.at \in {"main", "fat"} /\ n.in = <<>>,
         \/ /\ d.at = "main menu" /\ e.tests = d.tests
            /\ e.at = IF Menu!Shows(n.out, "main") THEN "choose" ELSE "idle"
         \/ d.at = "list" /\ e.tests = Menu!ListOf(n.out) /\ e.at = d.next
         \/ d.at = "back" /\ e.tests = d.tests /\ e.at = "send"
         \/ d.at = "read" /\ e.tests = d.tests /\ e.at = "idle"
  PROVE  MenuInv(m, e)
<1>1. d.next \in {"idle", "send"} /\ n.list \in Lists
  BY DEF Drivers, Nodes
<1>2. Looked(e)
  BY <1>1 DEF MenuInv, Looked
<1>3. ASSUME ~e.early PROVE Placed(m, e)
  <2>1. Placed(n, d) /\ n.at \in {"main", "fat"} /\ n.in = <<>>
    BY <1>3 DEF MenuInv
  <2>2. CASE d.at = "main menu"
    BY <1>1, <2>1, <2>2 DEF Placed, Idle
  <2>3. CASE d.at = "list"
    <3>1. n.alive => /\ n.at = "fat" /\ e.tests = n.list
                     /\ n.out = Append(<<Menu!Echo>>, Menu!FatMenu(n.list))
      <4>1. <<Menu!FAT>> # <<>>
        OBVIOUS
      <4>2. n.alive => /\ n.at = "fat"
                       /\ n.out = Append(<<Menu!Echo>>, Menu!FatMenu(n.list))
        BY <2>1, <2>3, <4>1 DEF Placed
      <4>3. n.alive => Menu!ListOf(n.out) = n.list
        BY <1>1, <4>2, ListAfterEcho
      <4> QED
        BY <2>3, <4>2, <4>3
    <3>2. n.alive => ListUp(n, n.out)
      <4>1. ListUp(n, Append(<<Menu!Echo>>, Menu!FatMenu(n.list)))
        BY <1>1, ListAfterEcho
      <4> QED
        BY <3>1, <4>1
    <3>3. n.alive => Standing(m, e.last)
      BY <3>1, <3>2 DEF Standing, ListUp
    <3> QED
      <4>1. CASE d.next = "idle"
        BY <2>1, <2>3, <3>1, <3>3, <4>1 DEF Placed, Idle
      <4>2. CASE d.next = "send"
        BY <2>1, <2>3, <3>1, <4>2 DEF Placed, Idle, SentTo
      <4> QED
        BY <1>1, <4>1, <4>2
  <2>4. CASE d.at = "back"
    <3>1. <<Menu!FAT>> # <<>>
      OBVIOUS
    <3> QED
      BY <2>1, <2>4, <3>1 DEF Placed, Idle, SentTo
  <2>5. CASE d.at = "read"
    <3>1. n.alive => Standing(n, n.out) /\ d.tests = n.list
      BY <2>1, <2>5 DEF Placed
    <3>2. n.alive => Standing(m, e.last)
      BY <3>1 DEF Standing, ListUp
    <3> QED
      BY <2>1, <2>5, <3>1, <3>2 DEF Placed, Idle
  <2> QED
    BY <2>2, <2>3, <2>4, <2>5
<1> QED
  BY <1>2, <1>3 DEF MenuInv

\* What the driver gets ready before it sends the number.
LEMMA DriverKeeps ==
  ASSUME MenuInv(node, driver),
         \/ \E label \in Labels : Menu!RunTest(label)
         \/ Menu!ReadMainMenu \/ Menu!ReadList \/ Menu!EnsureFatMenu \/ Menu!ReadBack
  PROVE  MenuInv(node', driver')
<1>1. PICK n \in Nodes, d \in Drivers : n = node /\ d = driver
  BY DEF MenuInv
<1>2. MenuInv(n, d) /\ Looked(d) /\ (d.early \/ Placed(n, d))
  BY <1>1 DEF MenuInv
<1>3. CASE \E label \in Labels : Menu!RunTest(label)
  <2>1. PICK label \in Labels : Menu!RunTest(label)
    BY <1>3
  <2>2. \E i \in DOMAIN d.tests : d.tests[i] = label
    BY <1>1, <2>1 DEF Menu!RunTest, Menu!ToSet
  <2>3. PICK i \in DOMAIN d.tests :
          /\ d.tests[i] = label
          /\ driver' = [d EXCEPT !.at = "place", !.want = label, !.number = i,
                                 !.relaunched = FALSE]
    BY <1>1, <2>1, <2>2 DEF Menu!RunTest
  <2>4. PICK e : /\ e = [d EXCEPT !.at = "place", !.want = label, !.number = i,
                                 !.relaunched = FALSE]
                 /\ e = driver'
    BY <2>3
  <2>5. i \in Nat /\ label \in Tests
    <3>1. d.tests \in Seq(Labels)
      BY DEF Drivers, Lists
    <3> QED
      BY <2>3, <3>1 DEF Tests
  <2>6. e \in Drivers
    BY <2>4, <2>5 DEF Drivers
  <2>7. /\ e.at = "place" /\ e.want = label /\ e.number = i /\ e.tests = d.tests
        /\ e.last = d.last /\ e.early = d.early
    BY <2>4 DEF Drivers
  <2>8. d.at = "idle" /\ node' = n
    BY <1>1, <2>1 DEF Menu!RunTest
  <2>9. Looked(e)
    BY <2>3, <2>7 DEF Looked
  <2>10. Placed(n, d) => Placed(n, e)
    BY <2>7, <2>8 DEF Placed
  <2> QED
    BY <1>2, <2>4, <2>6, <2>7, <2>8, <2>9, <2>10 DEF MenuInv
<1>4. CASE Menu!EnsureFatMenu
  <2>1. d.at = "place"
    BY <1>1, <1>4 DEF Menu!EnsureFatMenu
  <2>2. CASE n.alive /\ Menu!ShowsTests(d.last)
    <3>1. PICK e : e = [d EXCEPT !.at = "send"] /\ e = driver' /\ node' = n
      BY <1>1, <1>4, <2>2 DEF Menu!EnsureFatMenu
    <3>2. e \in Drivers
      BY <3>1 DEF Drivers
    <3>3. /\ e.at = "send" /\ e.want = d.want /\ e.number = d.number /\ e.tests = d.tests
          /\ e.last = d.last /\ e.early = d.early /\ e.relaunched = d.relaunched
      BY <3>1 DEF Drivers
    <3>4. Looked(e)
      BY <1>2, <2>1, <3>3 DEF Looked
    <3>5. Placed(n, d) => Placed(n, e)
      <4>1. Menu!Shows(d.last, "fat")
        BY <2>2 DEF Menu!ShowsTests, Menu!Shows
      <4> QED
        BY <2>1, <2>2, <3>3, <4>1 DEF Placed, Standing, SentTo, Menu!Ambiguous
    <3> QED
      BY <1>2, <3>1, <3>2, <3>3, <3>4, <3>5 DEF MenuInv
  <2>3. CASE n.alive /\ ~Menu!ShowsTests(d.last) /\ Menu!Shows(d.last, "main")
    <3>1. Menu!Send(Menu!FAT, "back") /\ driver.at = "place" /\ ~Menu!ShowsTests(driver.last)
      BY <1>1, <1>4, <2>1, <2>3 DEF Menu!EnsureFatMenu
    <3>2. Menu!FAT \in Nat
      BY DEF Menu!FAT
    <3> QED
      BY <3>1, <3>2, SendKeeps
  <2>4. CASE ~n.alive \/ (~Menu!ShowsTests(d.last) /\ ~Menu!Shows(d.last, "main"))
    <3>1. Menu!LaunchFor("send")
      BY <1>1, <1>4, <2>4 DEF Menu!EnsureFatMenu
    <3> QED
      BY <3>1, LaunchKeeps
  <2> QED
    BY <2>2, <2>3, <2>4
<1>5. PICK w \in BOOLEAN : w = (d.early \/ ~Menu!Waits)
  OBVIOUS
<1>6. ~w => ~d.early /\ n.at \in {"main", "fat"} /\ n.in = <<>>
  BY <1>1, <1>5 DEF Menu!Waits
<1>7. PICK m : m = [n EXCEPT !.out = <<>>] /\ m = Menu!Drained
  BY <1>1 DEF Menu!Drained
<1>8. m \in Nodes
  <2>1. <<>> \in Outs
    BY DEF Outs
  <2> QED
    BY <1>7, <2>1 DEF Nodes
<1>9. m.alive = n.alive /\ m.at = n.at /\ m.in = n.in /\ m.list = n.list /\ m.out = <<>>
  BY <1>7 DEF Nodes
<1>10. n.out \in Outs /\ d.next \in {"idle", "send"} /\ Menu!ListOf(n.out) \in Lists
  BY ListOfAnOutput DEF Nodes, Drivers
<1>11. ASSUME NEW place \in {"choose", "idle", "send"}, NEW tests \in Lists, NEW e,
              e = [[d EXCEPT !.last = n.out, !.early = w] EXCEPT !.tests = tests, !.at = place],
              \/ /\ d.at = "main menu" /\ tests = d.tests
                 /\ place = IF Menu!Shows(n.out, "main") THEN "choose" ELSE "idle"
              \/ d.at = "list" /\ tests = Menu!ListOf(n.out) /\ place = d.next
              \/ d.at = "back" /\ tests = d.tests /\ place = "send"
       PROVE  MenuInv(m, e)
  <2>1. e \in Drivers
    BY <1>10, <1>11 DEF Drivers
  <2>2. /\ e.last = n.out /\ e.want = d.want /\ e.number = d.number /\ e.next = d.next
        /\ e.relaunched = d.relaunched /\ e.early = w /\ e.tests = tests /\ e.at = place
    BY <1>11 DEF Drivers
  <2> QED
    <3>1. ~e.early => ~d.early /\ n.at \in {"main", "fat"} /\ n.in = <<>>
      BY <1>6, <2>2
    <3>2. \/ /\ d.at = "main menu" /\ e.tests = d.tests
             /\ e.at = IF Menu!Shows(n.out, "main") THEN "choose" ELSE "idle"
          \/ d.at = "list" /\ e.tests = Menu!ListOf(n.out) /\ e.at = d.next
          \/ d.at = "back" /\ e.tests = d.tests /\ e.at = "send"
      BY <1>11, <2>2
    <3> QED
      BY <1>2, <1>8, <1>9, <2>1, <2>2, <3>1, <3>2, ReadKeeps
<1>12. d.tests \in Lists
  BY DEF Drivers
<1>13. CASE Menu!ReadMainMenu
  <2>1. d.at = "main menu" /\ node' = m
    BY <1>1, <1>7, <1>13 DEF Menu!ReadMainMenu
  <2>2. PICK place \in {"choose", "idle"} :
          place = IF Menu!Shows(n.out, "main") THEN "choose" ELSE "idle"
    OBVIOUS
  <2>3. PICK e : e = [[d EXCEPT !.last = n.out, !.early = w] EXCEPT !.at = place] /\ e = driver'
    BY <1>1, <1>5, <1>13, <2>2 DEF Menu!ReadMainMenu, Menu!Read
  <2>4. e = [[d EXCEPT !.last = n.out, !.early = w] EXCEPT !.tests = d.tests, !.at = place]
    BY <2>3 DEF Drivers
  <2> QED
    BY <1>11, <1>12, <2>1, <2>2, <2>3, <2>4
<1>14. CASE Menu!ReadBack
  <2>1. d.at = "back" /\ node' = m
    BY <1>1, <1>7, <1>14 DEF Menu!ReadBack
  <2>2. PICK e : e = [[d EXCEPT !.last = n.out, !.early = w] EXCEPT !.at = "send"] /\ e = driver'
    BY <1>1, <1>5, <1>14 DEF Menu!ReadBack, Menu!Read
  <2>3. e = [[d EXCEPT !.last = n.out, !.early = w] EXCEPT !.tests = d.tests, !.at = "send"]
    BY <2>2 DEF Drivers
  <2> QED
    BY <1>11, <1>12, <2>1, <2>2, <2>3
<1>15. CASE Menu!ReadList
  <2>1. d.at = "list" /\ node' = m
    BY <1>1, <1>7, <1>15 DEF Menu!ReadList
  <2>2. PICK e : /\ e = [[d EXCEPT !.last = n.out, !.early = w] EXCEPT
                           !.tests = Menu!ListOf(n.out), !.at = d.next]
                 /\ e = driver'
    BY <1>1, <1>5, <1>15 DEF Menu!ReadList, Menu!Read
  <2> QED
    BY <1>10, <1>11, <2>1, <2>2
<1> QED
  BY <1>3, <1>4, <1>13, <1>14, <1>15

\* A result that is recorded is one, and RanWhatItSays holds of it.
IsOfItsTest(run) ==
  ~run.early =>
     /\ run.heard \subseteq {run.there, Menu!NoTest}
     /\ run.verdict # "unknown" => run.there \in run.heard
     /\ run.there = run.test \/ run.relaunched
     /\ run.verdict = "unknown" => ~run.done \/ ~run.placed \/ run.there = Menu!NoTest

LEMMA ResultIsOfItsTest ==
  ASSUME NEW n \in Nodes, NEW d \in Drivers, MenuInv(n, d), d.at = "read", NEW run,
         NEW done \in BOOLEAN, done => n.alive /\ n.at \in {"main", "fat"} /\ n.in = <<>>,
         NEW placed \in BOOLEAN, placed => ~Menu!Ambiguous(d.last),
         run = [test |-> d.want, verdict |-> Menu!Verdict(n.out),
                heard |-> {n.out[i].of : i \in DOMAIN n.out},
                there |-> ThereOf(n, d), early |-> d.early, relaunched |-> d.relaunched,
                done |-> done, placed |-> placed]
  PROVE  run \in Results /\ IsOfItsTest(run)
<1> DEFINE told == {n.out[i].of : i \in DOMAIN n.out}
<1>1. /\ run.test = d.want /\ run.verdict = Menu!Verdict(n.out) /\ run.heard = told
      /\ run.there = ThereOf(n, d) /\ run.early = d.early /\ run.relaunched = d.relaunched
      /\ run.done = done /\ run.placed = placed
  OBVIOUS
<1>2. /\ Menu!Verdict(n.out) \in {"pass", "fail", "unknown"}
      /\ Menu!Verdict(n.out) = "unknown" <=>
            ~Menu!Shows(n.out, "fail") /\ ~Menu!Shows(n.out, "pass")
  BY DEF Menu!Verdict
<1>3. ThereOf(n, d) \in Tests
  BY DEF ThereOf, Nodes, Lists, Tests
<1>4. told \in SUBSET Tests
  <2>1. \A i \in DOMAIN n.out : n.out[i] \in Pieces
    BY DEF Nodes, Outs
  <2> QED
    BY <2>1 DEF Pieces
<1>5. run \in Results
  <2> HIDE DEF told
  <2> QED
    BY <1>2, <1>3, <1>4 DEF Results, Drivers, told
<1>6. ASSUME ~d.early
      PROVE  /\ told \subseteq {ThereOf(n, d), Menu!NoTest}
             /\ Menu!Verdict(n.out) # "unknown" => ThereOf(n, d) \in told
             /\ ThereOf(n, d) = d.want \/ d.relaunched
             /\ Menu!Verdict(n.out) = "unknown" =>
                   ~done \/ ~placed \/ ThereOf(n, d) = Menu!NoTest
  <2>1. d.tests = n.list /\ OfTest(n.out, ThereOf(n, d)) /\ Looked(d)
    BY <1>6 DEF MenuInv, Placed
  <2>2. told \subseteq {ThereOf(n, d), Menu!NoTest}
    BY <2>1 DEF OfTest
  <2>3. Menu!Verdict(n.out) # "unknown" => ThereOf(n, d) \in told
    BY <1>2, <2>1 DEF OfTest, Menu!Shows
  <2>4. ThereOf(n, d) = d.want \/ d.relaunched
    BY <2>1 DEF Looked, ThereOf
  <2>5. done /\ placed => Judged(n, d) /\ ~Menu!Ambiguous(d.last)
    <3>1. n.alive =>
            \/ n.in = <<d.number>> /\ n.out = <<Menu!Echo>> /\ SentTo(n, d)
            \/ n.in = <<>> /\ n.at = "test" /\ n.test = ThereOf(n, d)
            \/ n.in = <<>> /\ Standing(n, n.out) /\ Judged(n, d)
      BY <1>6 DEF MenuInv, Placed
    <3>2. <<d.number>> # <<>>
      OBVIOUS
    <3>3. done => Judged(n, d)
      BY <3>1, <3>2
    <3> QED
      BY <3>3
  <2>6. Menu!Verdict(n.out) = "unknown" => ~done \/ ~placed \/ ThereOf(n, d) = Menu!NoTest
    BY <1>2, <2>5 DEF Judged
  <2> QED
    BY <2>2, <2>3, <2>4, <2>6
<1>7. IsOfItsTest(run)
  <2> HIDE DEF told
  <2> QED
    BY <1>1, <1>6 DEF IsOfItsTest
<1> QED
  BY <1>5, <1>7

LEMMA ReportKeeps ==
  ASSUME MenuInv(node, driver), Menu!Report
  PROVE  /\ MenuInv(node', driver')
         /\ Menu!RanWhatItSays => Menu!RanWhatItSays'
<1>1. PICK n \in Nodes, d \in Drivers : n = node /\ d = driver
  BY DEF MenuInv
<1>2. MenuInv(n, d) /\ d.at = "read"
  BY <1>1 DEF Menu!Report
<1>3. PICK w \in BOOLEAN : w = (d.early \/ ~Menu!Waits)
  OBVIOUS
<1>4. PICK done \in BOOLEAN : done = (n.alive /\ Menu!Waits)
  OBVIOUS
<1>5. PICK placed \in BOOLEAN : placed = ~Menu!Ambiguous(d.last)
  OBVIOUS
<1>6. /\ ~w => ~d.early /\ n.at \in {"main", "fat"} /\ n.in = <<>>
      /\ done => n.alive /\ n.at \in {"main", "fat"} /\ n.in = <<>>
  BY <1>1, <1>3, <1>4 DEF Menu!Waits
<1>7. PICK run :
        run = [test |-> d.want, verdict |-> Menu!Verdict(n.out),
               heard |-> {n.out[i].of : i \in DOMAIN n.out},
               there |-> ThereOf(n, d), early |-> d.early, relaunched |-> d.relaunched,
               done |-> done, placed |-> placed]
  OBVIOUS
<1>8. run \in Results /\ IsOfItsTest(run)
  BY <1>2, <1>5, <1>6, <1>7, ResultIsOfItsTest
<1>9. PICK e : /\ e = [[d EXCEPT !.last = n.out, !.early = w] EXCEPT
                         !.at = "idle", !.runs = Append(d.runs, run)]
               /\ e = driver'
  <2>1. Menu!There = ThereOf(n, d)
    BY <1>1 DEF Menu!There, ThereOf
  <2>2. driver' = [Menu!Read EXCEPT !.at = "idle", !.runs = Append(Menu!Read.runs, run)]
    BY <1>1, <1>4, <1>5, <1>7, <2>1 DEF Menu!Report
  <2>3. Menu!Read = [d EXCEPT !.last = n.out, !.early = w] /\ Menu!Read.runs = d.runs
    BY <1>1, <1>3 DEF Menu!Read, Drivers
  <2> QED
    BY <2>2, <2>3
<1>10. Append(d.runs, run) \in Seq(Results) /\ d.runs \in Seq(Results) /\ n.out \in Outs
  <2>1. d.runs \in Seq(Results) /\ n.out \in Outs
    BY DEF Drivers, Nodes
  <2> QED
    BY <1>8, <2>1
<1>11. e \in Drivers
  BY <1>9, <1>10 DEF Drivers
<1>12. /\ e.last = n.out /\ e.want = d.want /\ e.number = d.number /\ e.next = d.next
       /\ e.relaunched = d.relaunched /\ e.early = w /\ e.tests = d.tests /\ e.at = "idle"
       /\ e.runs = Append(d.runs, run)
  BY <1>9 DEF Drivers
<1>13. PICK m : m = [n EXCEPT !.out = <<>>] /\ m = node'
  BY <1>1 DEF Menu!Report, Menu!Drained
<1>14. m \in Nodes
  <2>1. <<>> \in Outs
    BY DEF Outs
  <2> QED
    BY <1>13, <2>1 DEF Nodes
<1>15. m.alive = n.alive /\ m.at = n.at /\ m.in = n.in /\ m.list = n.list /\ m.out = <<>>
  BY <1>13 DEF Nodes
<1>16. MenuInv(m, e)
  BY <1>2, <1>6, <1>11, <1>12, <1>14, <1>15, ReadKeeps
<1>17. ASSUME Menu!RanWhatItSays PROVE Menu!RanWhatItSays'
  <2>1. \A i \in DOMAIN d.runs : IsOfItsTest(d.runs[i])
    BY <1>1, <1>17 DEF Menu!RanWhatItSays, IsOfItsTest
  <2>2. \A i \in DOMAIN e.runs : e.runs[i] = run \/ (i \in DOMAIN d.runs /\ e.runs[i] = d.runs[i])
    BY <1>8, <1>10, <1>12, AppendProperties
  <2>3. \A i \in DOMAIN e.runs : IsOfItsTest(e.runs[i])
    BY <1>8, <2>1, <2>2
  <2> QED
    BY <1>9, <2>3 DEF Menu!RanWhatItSays, IsOfItsTest
<1> QED
  BY <1>9, <1>13, <1>16, <1>17

LEMMA MenuStepKeeps ==
  ASSUME MenuInv(node, driver), Menu!RanWhatItSays, [Menu!Next]_menuVars
  PROVE  MenuInv(node', driver') /\ Menu!RanWhatItSays'
<1>1. CASE \/ Menu!ShowsMenu \/ Menu!TakesNumber \/ Menu!Speaks \/ Menu!Dies
           \/ \E verdict \in {"pass", "fail"}, back \in {"main", "list", "both"} :
                 Menu!EndsTest(verdict, back)
  <2>1. driver' = driver
    BY <1>1 DEF Menu!ShowsMenu, Menu!TakesNumber, Menu!Speaks, Menu!Dies, Menu!EndsTest
  <2> QED
    BY <1>1, <2>1, NodeKeeps DEF Menu!RanWhatItSays
<1>2. CASE UNCHANGED menuVars
  BY <1>2 DEF menuVars, Menu!RanWhatItSays
<1>3. CASE Menu!Report
  BY <1>3, ReportKeeps
<1>4. driver \in Drivers
  BY DEF MenuInv
<1>5. ASSUME NEW next \in {"idle", "send"}, Menu!LaunchFor(next)
      PROVE  driver'.runs = driver.runs
  BY <1>4, <1>5 DEF Menu!LaunchFor, Drivers
<1>6. ASSUME NEW number, NEW place, Menu!Send(number, place)
      PROVE  driver'.runs = driver.runs
  BY <1>4, <1>6 DEF Menu!Send, Drivers
<1>7. CASE Menu!Discover
  <2>1. Menu!LaunchFor("idle")
    BY <1>7 DEF Menu!Discover
  <2> QED
    BY <1>5, <2>1, LaunchKeeps DEF Menu!RanWhatItSays
<1>8. CASE Menu!ChooseFat
  <2>1. Menu!Send(Menu!FAT, "list") /\ driver.at = "choose" /\ Menu!FAT \in Nat
    BY <1>8 DEF Menu!ChooseFat, Menu!FAT
  <2> QED
    BY <1>6, <2>1, SendKeeps DEF Menu!RanWhatItSays
<1>9. CASE Menu!SendNumber
  <2>1. Menu!Send(driver.number, "read") /\ driver.at = "send" /\ driver.number \in Nat
    BY <1>4, <1>9 DEF Menu!SendNumber, Drivers
  <2> QED
    BY <1>6, <2>1, SendKeeps DEF Menu!RanWhatItSays
<1>10. CASE \/ \E label \in Labels : Menu!RunTest(label)
            \/ Menu!ReadMainMenu \/ Menu!ReadList \/ Menu!EnsureFatMenu \/ Menu!ReadBack
  <2>1. driver'.runs = driver.runs
    <3>1. CASE Menu!EnsureFatMenu
      BY <1>4, <1>5, <1>6, <3>1 DEF Menu!EnsureFatMenu, Drivers
    <3>2. CASE \E label \in Labels : Menu!RunTest(label)
      BY <1>4, <3>2 DEF Menu!RunTest, Drivers
    <3>3. CASE Menu!ReadMainMenu
      BY <1>4, <3>3 DEF Menu!ReadMainMenu, Menu!Read, Drivers
    <3>4. CASE Menu!ReadList
      BY <1>4, <3>4 DEF Menu!ReadList, Menu!Read, Drivers
    <3>5. CASE Menu!ReadBack
      BY <1>4, <3>5 DEF Menu!ReadBack, Menu!Read, Drivers
    <3> QED
      BY <1>10, <3>1, <3>2, <3>3, <3>4, <3>5
  <2> QED
    BY <1>10, <2>1, DriverKeeps DEF Menu!RanWhatItSays
<1> QED
  BY <1>1, <1>2, <1>3, <1>7, <1>8, <1>9, <1>10 DEF Menu!Next

\* RanWhatItSays, for any tests, any numberings and any number of runs and
\* launches, wherever the silences and the deaths fall.
THEOREM ResultsAreOfTheirTests == Spec => []RanWhatItSays
<1> DEFINE Inv == MenuInv(node, driver) /\ Menu!RanWhatItSays
<1>1. Init => Inv
  <2> SUFFICES ASSUME Init PROVE Inv
    OBVIOUS
  <2>1. /\ node = [alive |-> FALSE, at |-> "none", list |-> <<>>, test |-> Menu!NoTest,
                   out |-> <<>>, in |-> <<>>, launched |-> 0]
        /\ driver = [at |-> "idle", want |-> Menu!NoTest, number |-> 0, next |-> "idle",
                     tests |-> <<>>, last |-> <<>>, runs |-> <<>>,
                     relaunched |-> FALSE, early |-> FALSE]
    BY DEF Init, Menu!Init
  <2>2. /\ <<>> \in Lists /\ <<>> \in Outs /\ <<>> \in Seq(Nat) /\ <<>> \in Seq(Results)
        /\ Menu!NoTest \in Tests /\ 0 \in Nat
    BY DEF Lists, Outs, Tests
  <2>3. node \in Nodes /\ driver \in Drivers
    BY <2>1, <2>2 DEF Nodes, Drivers
  <2>4. ~node.alive /\ driver.at = "idle" /\ DOMAIN driver.runs = {}
    BY <2>1
  <2> QED
    BY <2>3, <2>4 DEF MenuInv, Looked, Placed, Menu!RanWhatItSays
<1>2. Inv /\ [Next]_vars => Inv'
  <2> SUFFICES ASSUME Inv, [Next]_vars PROVE Inv'
    OBVIOUS
  <2>1. [Menu!Next]_menuVars
    BY OneChannelMoves
  <2> QED
    BY <2>1, MenuStepKeeps
<1>3. Inv => RanWhatItSays
  BY DEF RanWhatItSays
<1> QED
  BY <1>1, <1>2, <1>3, PTL DEF Spec

-----------------------------------------------------------------------------
(* LineEditor.  The bytes on the wire are read to one end only, so what    *)
(* was struck and not read yet is a chain of lines ahead, each what the    *)
(* editor makes of the one before with one byte more.  The chain starts at *)
(* what the editor holds and ends at what the operator means.              *)
Symbols == Editor!Chars \cup Editor!Escaped \cup Editor!Control \cup Editor!Finals
           \cup {"C3", "A9", "3"}
Texts == Seq(Symbols)
Line == [left : Texts, right : Texts, sure : BOOLEAN]
Ahead == [part : Texts, left : Texts, right : Texts, sure : BOOLEAN, lines : Nat]
View(v) == [left |-> v.left, right |-> v.right, sure |-> TRUE]

\* The keys an operator knows the effect of.
Plain == (Editor!Chars \cup Editor!Escaped \cup Editor!Control) \ {"up", "down"}

\* What a key makes of a line ahead, if the lines struck are L.
Does(L, v, key, w) ==
  IF key = "enter"
  THEN /\ w.lines = v.lines + 1 /\ w.lines \in DOMAIN L
       /\ w.left = <<>> /\ w.right = <<>>
       /\ L[w.lines].sure => /\ v.sure
                             /\ L[w.lines].left = v.left /\ L[w.lines].right = v.right
  ELSE /\ w.lines = v.lines
       /\ w.sure => /\ v.sure /\ key \in Plain
                    /\ w.left = Editor!Typed(View(v), key).left
                    /\ w.right = Editor!Typed(View(v), key).right

Reads(L, v, b, w) ==
  LET bytes == Append(v.part, b) IN
  IF Editor!Complete(bytes)
  THEN w.part = <<>> /\ Does(L, v, Editor!KeyOf(bytes), w)
  ELSE /\ w.part = bytes /\ w.lines = v.lines
       /\ w.sure => v.sure /\ w.left = v.left /\ w.right = v.right

Trail(L, V, q) ==
  V \in [0..Len(q) -> Ahead] /\ \A k \in 1..Len(q) : Reads(L, V[k - 1], q[k], V[k])
Leads(L, v, q, w) == \E V : Trail(L, V, q) /\ V[0] = v /\ V[Len(q)] = w

\* What the editor holds, and what the operator means.
Stands(l, r) == buf = l \o r /\ pos = Len(l)
Holds(v) ==
  /\ v.part = partial /\ v.lines = Len(returned)
  /\ v.sure => Stands(v.left, v.right)

Begun(bytes) == bytes # <<>> => console = "posix" /\ ~Editor!Complete(bytes)
Meets(m, v) ==
  /\ v.lines <= Len(m.lines)
  /\ m.now.sure => v.sure /\ v.left = m.now.left /\ v.right = m.now.right
  /\ m.apart => v.part = <<>> /\ v.lines = Len(m.lines)
  /\ ~m.apart => /\ ~m.now.sure
                 /\ \A i \in DOMAIN m.lines : i > v.lines => ~m.lines[i].sure

EditorTypes ==
  /\ console \in {"posix", "nt"}
  /\ wire \in Texts /\ partial \in Texts
  /\ Begun(partial)
  /\ buf \in Texts /\ pos \in 0..Len(buf)
  /\ history \in Seq(Texts) /\ histIdx \in 0..Len(history) /\ draft \in Texts
  /\ returned \in Seq(Texts)
  /\ meant \in [now : Line, lines : Seq(Line), apart : BOOLEAN]
  /\ console = "nt" => meant.apart

\* The lines returned are those struck first.
Returned ==
  /\ Len(returned) <= Len(meant.lines)
  /\ \A i \in DOMAIN returned :
        meant.lines[i].sure => returned[i] = meant.lines[i].left \o meant.lines[i].right

EditorInv ==
  /\ EditorTypes /\ Returned
  /\ \E v, w \in Ahead : /\ Holds(v) /\ Leads(meant.lines, v, wire, w)
                         /\ Begun(w.part) /\ Meets(meant, w)

\* With nothing to read the chain is at its end.
LEMMA LeadsNone ==
  ASSUME NEW L, NEW v \in Ahead
  PROVE  Leads(L, v, <<>>, v) /\ \A w : Leads(L, v, <<>>, w) => w = v
<1> DEFINE V == [k \in 0..0 |-> v]
<1>1. Len(<<>>) = 0 /\ 1..0 = {} /\ V \in [0..0 -> Ahead] /\ V[0] = v
  OBVIOUS
<1> HIDE DEF V
<1>2. Trail(L, V, <<>>)
  BY <1>1 DEF Trail
<1>3. Leads(L, v, <<>>, v)
  BY <1>1, <1>2 DEF Leads
<1>4. ASSUME NEW w, Leads(L, v, <<>>, w) PROVE w = v
  BY <1>1, <1>4 DEF Leads
<1> QED
  BY <1>3, <1>4

\* One byte more is one step more.
LEMMA LeadsOn ==
  ASSUME NEW L, NEW q \in Texts, NEW v, NEW w, Leads(L, v, q, w),
         NEW b \in Symbols, NEW x \in Ahead, Reads(L, w, b, x)
  PROVE  Leads(L, v, Append(q, b), x)
<1> DEFINE n == Len(q)
           p == Append(q, b)
<1>1. PICK V : Trail(L, V, q) /\ V[0] = v /\ V[n] = w
  BY DEF Leads
<1> DEFINE W == [k \in 0..n + 1 |-> IF k = n + 1 THEN x ELSE V[k]]
<1>2. n \in Nat /\ Len(p) = n + 1 /\ p[n + 1] = b /\ \A k \in 1..n : p[k] = q[k]
  BY DEF Texts
<1> HIDE DEF p
<1>3. \A k \in 0..n : k # n + 1 /\ k \in 0..n + 1 /\ V[k] \in Ahead
  BY <1>1, <1>2 DEF Trail
<1>4. W \in [0..n + 1 -> Ahead]
  <2>1. ASSUME NEW k \in 0..n + 1 PROVE k = n + 1 \/ k \in 0..n
    BY <1>2
  <2> QED
    BY <1>3, <2>1
<1>5. W[n + 1] = x /\ \A k \in 0..n : W[k] = V[k]
  BY <1>2, <1>3
<1> HIDE DEF W
<1>6. ASSUME NEW k \in 1..n + 1 PROVE Reads(L, W[k - 1], p[k], W[k])
  <2>1. CASE k = n + 1
    <3>1. k - 1 = n /\ n \in 0..n
      BY <1>2, <2>1
    <3> QED
      BY <1>1, <1>2, <1>5, <2>1, <3>1
  <2>2. CASE k # n + 1
    <3>1. k \in 1..n /\ k \in 0..n /\ k - 1 \in 0..n
      BY <1>2, <2>2
    <3>2. Reads(L, V[k - 1], q[k], V[k])
      BY <1>1, <3>1 DEF Trail
    <3> QED
      BY <1>2, <1>5, <3>1, <3>2
  <2> QED
    BY <2>1, <2>2
<1>7. Trail(L, W, p)
  BY <1>2, <1>4, <1>6 DEF Trail
<1>8. W[0] = v /\ W[Len(p)] = x
  <2>1. 0 \in 0..n
    BY <1>2
  <2> QED
    BY <1>1, <1>2, <1>5, <2>1
<1> QED
  BY <1>7, <1>8 DEF Leads, p

\* The first byte is the first step.
LEMMA LeadsFrom ==
  ASSUME NEW L, NEW q \in Texts, q # <<>>, NEW v, NEW w, Leads(L, v, q, w)
  PROVE  \E u \in Ahead : Reads(L, v, Head(q), u) /\ Leads(L, u, Tail(q), w)
<1> DEFINE n == Len(q)
           p == Tail(q)
<1>1. PICK V : Trail(L, V, q) /\ V[0] = v /\ V[n] = w
  BY DEF Leads
<1> DEFINE W == [k \in 0..n - 1 |-> V[k + 1]]
<1>2. n \in Nat \ {0} /\ Head(q) = q[1] /\ Len(p) = n - 1
      /\ \A k \in 1..n - 1 : p[k] = q[k + 1]
  BY DEF Texts
<1> HIDE DEF p
<1>3. \A k \in 0..n - 1 : k + 1 \in 0..n /\ k + 1 \in 1..n
  BY <1>2
<1>4. W \in [0..n - 1 -> Ahead]
  BY <1>1, <1>3 DEF Trail
<1>5. \A k \in 0..n - 1 : W[k] = V[k + 1]
  OBVIOUS
<1> HIDE DEF W
<1>6. ASSUME NEW k \in 1..n - 1 PROVE Reads(L, W[k - 1], p[k], W[k])
  <2>1. k \in 0..n - 1 /\ k - 1 \in 0..n - 1 /\ (k - 1) + 1 = k /\ (k + 1) - 1 = k
    BY <1>2
  <2>2. Reads(L, V[k], q[k + 1], V[k + 1])
    BY <1>1, <1>3, <2>1 DEF Trail
  <2> QED
    BY <1>2, <1>5, <2>1, <2>2
<1>7. Trail(L, W, p)
  BY <1>2, <1>4, <1>6 DEF Trail
<1>8. 0 \in 0..n - 1 /\ n - 1 \in 0..n - 1 /\ (n - 1) + 1 = n /\ 1 \in 1..n
      /\ 0 + 1 = 1 /\ 1 - 1 = 0
  BY <1>2
<1>9. Reads(L, v, Head(q), W[0]) /\ W[0] \in Ahead
  <2>1. Reads(L, V[1 - 1], q[1], V[1])
    BY <1>1, <1>8 DEF Trail
  <2> QED
    BY <1>1, <1>2, <1>4, <1>5, <1>8, <2>1
<1>10. W[Len(p)] = w
  BY <1>1, <1>2, <1>5, <1>8
<1>11. Leads(L, W[0], p, w)
  BY <1>7, <1>10 DEF Leads
<1> QED
  BY <1>9, <1>11 DEF p

\* A line struck after the others changes nothing for them.
LEMMA LeadsLonger ==
  ASSUME NEW L \in Seq(Line), NEW l \in Line, NEW q, NEW v, NEW w, Leads(L, v, q, w)
  PROVE  Leads(Append(L, l), v, q, w)
<1>1. DOMAIN L \subseteq DOMAIN Append(L, l) /\ \A i \in DOMAIN L : Append(L, l)[i] = L[i]
  OBVIOUS
<1>2. ASSUME NEW M, DOMAIN L \subseteq DOMAIN M, \A i \in DOMAIN L : M[i] = L[i]
      PROVE  Leads(M, v, q, w)
  <2>1. \A key, a, b : Does(L, a, key, b) => Does(M, a, key, b)
    BY <1>2 DEF Does
  <2>2. \A a, b, c : Reads(L, a, b, c) => Reads(M, a, b, c)
    BY <2>1 DEF Reads
  <2>3. \A V : Trail(L, V, q) => Trail(M, V, q)
    BY <2>2 DEF Trail
  <2> QED
    BY <2>3 DEF Leads
<1> QED
  BY <1>1, <1>2

LEMMA LastPlace ==
  ASSUME NEW n \in Nat, NEW T \in SUBSET (1..n), T # {}
  PROVE  \E i \in T : \A j \in T : j <= i
<1> DEFINE M == {n - i : i \in T}
<1>1. M \in SUBSET Nat /\ M # {}
  <2>1. \A i \in T : i \in 1..n /\ n - i \in Nat /\ n - i \in M
    OBVIOUS
  <2> QED
    BY <2>1
<1>2. \E x \in M : \A y \in M : x <= y
  <2> HIDE DEF M
  <2> QED
    BY <1>1, LeastPlace
<1>3. PICK i \in T : \A j \in T : n - i <= n - j
  BY <1>2
<1>4. \A j \in T : j \in Int /\ i \in Int
  OBVIOUS
<1> HIDE DEF M
<1> QED
  BY <1>3, <1>4

\* What Ctrl-W leaves is text.
LEMMA WordsLeft == ASSUME NEW s \in Texts PROVE Editor!BeforeLastWord(s) \in Texts
<1>1. ASSUME NEW t \in Texts, NEW n \in 0..Len(t) PROVE SubSeq(t, 1, n) \in Texts
  BY <1>1 DEF Texts
<1>2. ASSUME NEW t \in Texts, NEW T \in SUBSET DOMAIN t, T # {}
      PROVE  (CHOOSE i \in T : \A j \in T : j <= i) \in 1..Len(t)
  <2>1. DOMAIN t = 1..Len(t) /\ Len(t) \in Nat
    BY DEF Texts
  <2>2. \E i \in T : \A j \in T : j <= i
    BY <1>2, <2>1, LastPlace
  <2> QED
    BY <2>1, <2>2
<1>3. Editor!WithoutBlanks(s) \in Texts
  <2> DEFINE inked == {i \in DOMAIN s : s[i] # " "}
  <2>1. CASE inked = {}
    <3>1. Editor!WithoutBlanks(s) = <<>>
      BY <2>1 DEF Editor!WithoutBlanks
    <3> QED
      BY <3>1, EmptySeq DEF Texts
  <2>2. CASE inked # {}
    <3> DEFINE n == CHOOSE i \in inked : \A j \in inked : j <= i
    <3>1. n \in 1..Len(s)
      <4>1. inked \in SUBSET DOMAIN s
        OBVIOUS
      <4> HIDE DEF inked
      <4> QED
        BY <1>2, <2>2, <4>1
    <3>2. Editor!WithoutBlanks(s) = SubSeq(s, 1, n)
      BY <2>2 DEF Editor!WithoutBlanks
    <3> HIDE DEF n
    <3>3. n \in 0..Len(s)
      BY <3>1 DEF Texts
    <3> QED
      BY <1>1, <3>2, <3>3
  <2> QED
    BY <2>1, <2>2
<1> DEFINE head == Editor!WithoutBlanks(s)
           blanks == {i \in DOMAIN head : head[i] = " "}
           n == CHOOSE i \in blanks : \A j \in blanks : j <= i
<1>4. CASE blanks = {}
  <2>1. Editor!BeforeLastWord(s) = <<>>
    BY <1>4 DEF Editor!BeforeLastWord
  <2> QED
    BY <2>1, EmptySeq DEF Texts
<1>5. CASE blanks # {}
  <2>1. Editor!BeforeLastWord(s) = SubSeq(head, 1, n - 1)
    BY <1>5 DEF Editor!BeforeLastWord
  <2>2. blanks \in SUBSET DOMAIN head
    OBVIOUS
  <2>3. n \in 1..Len(head)
    <3> HIDE DEF blanks, head
    <3> QED
      BY <1>2, <1>3, <1>5, <2>2 DEF head
  <2> HIDE DEF n, head
  <2>4. n - 1 \in 0..Len(head)
    BY <1>3, <2>3 DEF Texts, head
  <2> QED
    BY <1>1, <1>3, <2>1, <2>4 DEF head
<1> QED
  BY <1>4, <1>5

\* The line, cut at the cursor.
LEMMA CutAtCursor ==
  ASSUME NEW l \in Texts, NEW r \in Texts, Stands(l, r)
  PROVE  /\ buf \in Texts /\ pos = Len(l) /\ Len(buf) = Len(l) + Len(r)
         /\ Editor!Left = l /\ Editor!Right = r
<1>1. l \in Seq(Symbols) /\ r \in Seq(Symbols) /\ Len(l) \in Nat /\ Len(r) \in Nat
  BY DEF Texts
<1>2. /\ buf \in Seq(Symbols) /\ Len(buf) = Len(l) + Len(r) /\ pos = Len(l)
      /\ \A i \in 1..Len(l) : buf[i] = l[i]
      /\ \A i \in 1..Len(r) : buf[Len(l) + i] = r[i]
  BY <1>1 DEF Stands
<1>3. SubSeq(buf, 1, pos) = l
  <2>1. /\ SubSeq(buf, 1, pos) \in Seq(Symbols) /\ Len(SubSeq(buf, 1, pos)) = Len(l)
        /\ \A i \in 1..Len(l) : SubSeq(buf, 1, pos)[i] = l[i]
    BY <1>1, <1>2
  <2> QED
    BY <1>1, <2>1, SeqEqual
<1>4. SubSeq(buf, pos + 1, Len(buf)) = r
  <2>1. /\ SubSeq(buf, pos + 1, Len(buf)) \in Seq(Symbols)
        /\ Len(SubSeq(buf, pos + 1, Len(buf))) = Len(r)
        /\ \A i \in 1..Len(r) : SubSeq(buf, pos + 1, Len(buf))[i] = r[i]
    BY <1>1, <1>2
  <2> QED
    BY <1>1, <2>1, SeqEqual
<1> QED
  BY <1>2, <1>3, <1>4 DEF Texts, Editor!Left, Editor!Right

\* All but the last.
LEMMA FrontOf ==
  ASSUME NEW l \in Seq(Symbols), l # <<>>
  PROVE  /\ Editor!Front(l) \in Seq(Symbols) /\ Len(Editor!Front(l)) = Len(l) - 1
         /\ \A i \in 1..Len(Editor!Front(l)) : Editor!Front(l)[i] = l[i]
<1> DEFINE a == Editor!Front(l)
<1>1. Len(l) \in Nat \ {0}
  OBVIOUS
<1>2. a = SubSeq(l, 1, Len(l) - 1) /\ Len(l) - 1 \in Int
  BY <1>1 DEF Editor!Front
<1>3. \A i \in 1..Len(l) - 1 : l[i] \in Symbols
  BY <1>1
<1>4. /\ a \in Seq(Symbols) /\ Len(a) = IF 1 <= Len(l) - 1 THEN (Len(l) - 1) - 1 + 1 ELSE 0
      /\ \A i \in 1..(Len(l) - 1) - 1 + 1 : a[i] = l[1 + i - 1]
  BY <1>2, <1>3, SubSeqProperties
<1> HIDE DEF a
<1>5. Len(a) = Len(l) - 1 /\ (Len(l) - 1) - 1 + 1 = Len(a)
  <2>1. \A k \in Nat \ {0} :
          /\ (IF 1 <= k - 1 THEN (k - 1) - 1 + 1 ELSE 0) = k - 1
          /\ (k - 1) - 1 + 1 = k - 1
    OBVIOUS
  <2> QED
    BY <1>1, <1>4, <2>1
<1>6. \A i \in 1..Len(a) : 1 + i - 1 = i
  BY <1>1, <1>5
<1> QED
  BY <1>4, <1>5, <1>6 DEF a

\* Ways to write the same line.
Written(l, r, s) == s = l \o r
LEMMA SameLine ==
  ASSUME NEW l \in Texts, NEW r \in Texts, NEW s, Written(l, r, s)
  PROVE  /\ s \in Texts /\ Len(s) = Len(l) + Len(r)
         /\ Written(<<>>, s, s) /\ Written(s, <<>>, s)
         /\ l # <<>> => Written(Editor!Front(l), <<Editor!Last(l)>> \o r, s)
         /\ r # <<>> => Written(Append(l, Head(r)), Tail(r), s)
<1>1. l \in Seq(Symbols) /\ r \in Seq(Symbols) /\ Len(l) \in Nat /\ Len(r) \in Nat
  BY DEF Texts
<1>2. s \in Seq(Symbols) /\ Len(s) = Len(l) + Len(r)
  BY <1>1 DEF Written
<1>3. s = <<>> \o s /\ s = s \o <<>>
  BY <1>2
<1>4. \A i \in 1..Len(s) : s[i] = IF i <= Len(l) THEN l[i] ELSE r[i - Len(l)]
  BY <1>1 DEF Written
<1>5. ASSUME l # <<>> PROVE s = Editor!Front(l) \o (<<Editor!Last(l)>> \o r)
  <2> DEFINE a == Editor!Front(l)
             b == <<Editor!Last(l)>> \o r
  <2>1. Len(l) \in Nat \ {0}
    BY <1>1, <1>5
  <2>2. a \in Seq(Symbols) /\ Len(a) = Len(l) - 1 /\ \A i \in 1..Len(a) : a[i] = l[i]
    BY <1>1, <1>5, FrontOf
  <2>3. Editor!Last(l) = l[Len(l)] /\ l[Len(l)] \in Symbols
    BY <1>1, <2>1 DEF Editor!Last
  <2>4. b \in Seq(Symbols) /\ Len(b) = Len(r) + 1
        /\ \A i \in 1..Len(b) : b[i] = IF i = 1 THEN l[Len(l)] ELSE r[i - 1]
    BY <1>1, <2>3
  <2> HIDE DEF a, b
  <2>5. /\ a \o b \in Seq(Symbols) /\ Len(a \o b) = Len(s)
        /\ \A i \in 1..Len(s) : (a \o b)[i] = IF i <= Len(a) THEN a[i] ELSE b[i - Len(a)]
    <3>1. Len(a) + Len(b) = Len(s)
      BY <1>1, <1>2, <2>1, <2>2, <2>4
    <3> QED
      BY <3>1, <2>2, <2>4, ConcatProperties
  <2>6. ASSUME NEW i \in 1..Len(s) PROVE (a \o b)[i] = s[i]
    <3>1. CASE i <= Len(l) - 1
      <4>1. i \in 1..Len(a) /\ i <= Len(l) /\ i <= Len(a)
        BY <1>1, <2>2, <3>1
      <4> QED
        BY <1>4, <2>2, <2>5, <4>1
    <3>2. CASE i = Len(l)
      <4>1. ~(i <= Len(a)) /\ i - Len(a) = 1 /\ 1 \in 1..Len(b) /\ i <= Len(l)
        BY <1>1, <2>2, <2>4, <3>2
      <4> QED
        BY <1>4, <2>4, <2>5, <3>2, <4>1
    <3>3. CASE i > Len(l)
      <4>1. /\ ~(i <= Len(a)) /\ i - Len(a) \in 1..Len(b) /\ i - Len(a) # 1
            /\ (i - Len(a)) - 1 = i - Len(l) /\ ~(i <= Len(l))
        BY <1>1, <1>2, <2>2, <2>4, <3>3
      <4> QED
        BY <1>4, <2>4, <2>5, <4>1
    <3> QED
      <4>1. i <= Len(l) - 1 \/ i = Len(l) \/ i > Len(l)
        BY <1>1
      <4> QED
        BY <3>1, <3>2, <3>3, <4>1
  <2> QED
    BY <1>2, <2>5, <2>6, SeqEqual DEF a, b
<1>6. ASSUME r # <<>> PROVE s = Append(l, Head(r)) \o Tail(r)
  <2> DEFINE a == Append(l, Head(r))
             b == Tail(r)
  <2>1. Len(r) \in Nat \ {0} /\ Head(r) = r[1] /\ r[1] \in Symbols
    BY <1>1, <1>6
  <2>2. a \in Seq(Symbols) /\ Len(a) = Len(l) + 1
        /\ \A i \in 1..Len(a) : a[i] = IF i = Len(l) + 1 THEN r[1] ELSE l[i]
    BY <1>1, <2>1
  <2>3. b \in Seq(Symbols) /\ Len(b) = Len(r) - 1 /\ \A i \in 1..Len(b) : b[i] = r[i + 1]
    BY <1>1, <1>6
  <2> HIDE DEF a, b
  <2>4. /\ a \o b \in Seq(Symbols) /\ Len(a \o b) = Len(s)
        /\ \A i \in 1..Len(s) : (a \o b)[i] = IF i <= Len(a) THEN a[i] ELSE b[i - Len(a)]
    <3>1. Len(a) + Len(b) = Len(s)
      BY <1>1, <1>2, <2>1, <2>2, <2>3
    <3> QED
      BY <3>1, <2>2, <2>3, ConcatProperties
  <2>5. ASSUME NEW i \in 1..Len(s) PROVE (a \o b)[i] = s[i]
    <3>1. CASE i <= Len(l)
      <4>1. i \in 1..Len(a) /\ i # Len(l) + 1 /\ i <= Len(a)
        BY <1>1, <2>2, <3>1
      <4> QED
        BY <1>4, <2>2, <2>4, <3>1, <4>1
    <3>2. CASE i = Len(l) + 1
      <4>1. i \in 1..Len(a) /\ i <= Len(a) /\ ~(i <= Len(l)) /\ i - Len(l) = 1
        BY <1>1, <2>2, <3>2
      <4> QED
        BY <1>4, <2>2, <2>4, <3>2, <4>1
    <3>3. CASE i > Len(l) + 1
      <4>1. /\ ~(i <= Len(a)) /\ i - Len(a) \in 1..Len(b) /\ (i - Len(a)) + 1 = i - Len(l)
            /\ ~(i <= Len(l))
        BY <1>1, <1>2, <2>2, <2>3, <3>3
      <4> QED
        BY <1>4, <2>3, <2>4, <4>1
    <3> QED
      <4>1. i <= Len(l) \/ i = Len(l) + 1 \/ i > Len(l) + 1
        BY <1>1
      <4> QED
        BY <3>1, <3>2, <3>3, <4>1
  <2> QED
    BY <1>2, <2>4, <2>5, SeqEqual DEF a, b
<1> QED
  BY <1>2, <1>3, <1>5, <1>6 DEF Written, Texts

\* What a key other than Enter makes of a line the editor stands at, if the
\* operator knows its effect.
LEMMA KeyKnown ==
  ASSUME NEW l \in Texts, NEW r \in Texts, Stands(l, r),
         NEW key \in Plain, key # "enter", Editor!Edit(key)
  PROVE  LET t == Editor!Typed([left |-> l, right |-> r, sure |-> TRUE], key) IN
         Written(t.left, t.right, buf') /\ pos' = Len(t.left)
<1> DEFINE m == [left |-> l, right |-> r, sure |-> TRUE]
           t == Editor!Typed(m, key)
<1> SUFFICES Written(t.left, t.right, buf') /\ pos' = Len(t.left)
  OBVIOUS
<1>1. /\ buf \in Texts /\ pos = Len(l) /\ Len(buf) = Len(l) + Len(r)
      /\ Editor!Left = l /\ Editor!Right = r
  BY CutAtCursor
<1>2. Len(l) \in Nat /\ Len(r) \in Nat /\ (l = <<>> <=> Len(l) = 0)
      /\ (r = <<>> <=> Len(r) = 0)
  BY DEF Texts
<1>3. /\ Written(l, r, buf)
      /\ Written(<<>>, buf, buf) /\ Written(buf, <<>>, buf)
      /\ l # <<>> => Written(Editor!Front(l), <<Editor!Last(l)>> \o r, buf)
      /\ r # <<>> => Written(Append(l, Head(r)), Tail(r), buf)
  <2>1. Written(l, r, buf)
    BY DEF Stands, Written
  <2> QED
    BY <2>1, SameLine
<1>6. Len(<<>>) = 0 /\ (l # <<>> => Len(Editor!Front(l)) = Len(l) - 1)
        /\ (r # <<>> => Len(Append(l, Head(r))) = Len(l) + 1)
  <2>1. ASSUME l # <<>> PROVE Len(Editor!Front(l)) = Len(l) - 1
    BY <2>1, FrontOf DEF Texts
  <2>2. ASSUME r # <<>> PROVE Len(Append(l, Head(r))) = Len(l) + 1
    BY <2>2 DEF Texts
  <2> QED
    BY <2>1, <2>2
<1> HIDE DEF m, t
<1>7. CASE key = "esc"
  <2>1. t.left = l /\ t.right = r
    BY <1>7 DEF Editor!Typed, Editor!Chars, t, m
  <2>2. UNCHANGED <<buf, pos>>
    BY <1>7 DEF Editor!Edit, Editor!Ignored, Editor!Enter, Editor!Up, Editor!Down,
       Editor!Move, Editor!Backspace, Editor!NothingToDelete, Editor!Delete,
       Editor!Kill, Editor!Insert, Editor!Control, Editor!line
  <2> QED
    BY <1>1, <1>3, <2>1, <2>2
<1>8. CASE key \in {"left", "ctrl_b"}
  <2>1. buf' = buf /\ pos' = (IF pos > 0 THEN pos - 1 ELSE 0)
    BY <1>8 DEF Editor!Edit, Editor!Ignored, Editor!Enter, Editor!Up, Editor!Down,
       Editor!Move, Editor!Backspace, Editor!NothingToDelete, Editor!Delete,
       Editor!Kill, Editor!Insert, Editor!Control, Editor!Escaped
  <2>2. IF l # <<>> THEN t.left = Editor!Front(l) /\ t.right = <<Editor!Last(l)>> \o r
                   ELSE t.left = l /\ t.right = r
    BY <1>8 DEF Editor!Typed, Editor!Chars, t, m
  <2>3. CASE l # <<>>
    <3>1. pos > 0
      BY <1>1, <1>2, <2>3
    <3>2. buf' = buf /\ pos' = Len(Editor!Front(l))
      BY <1>1, <1>6, <2>1, <2>3, <3>1
    <3>3. t.left = Editor!Front(l) /\ t.right = <<Editor!Last(l)>> \o r
      BY <2>2, <2>3
    <3> QED
      BY <1>3, <2>3, <3>2, <3>3
  <2>4. CASE l = <<>>
    BY <1>1, <1>2, <1>3, <2>1, <2>2, <2>4
  <2> QED
    BY <2>3, <2>4
<1>9. CASE key \in {"right", "ctrl_f"}
  <2>1. buf' = buf /\ pos' = (IF pos < Len(buf) THEN pos + 1 ELSE pos)
    BY <1>9 DEF Editor!Edit, Editor!Ignored, Editor!Enter, Editor!Up, Editor!Down,
       Editor!Move, Editor!Backspace, Editor!NothingToDelete, Editor!Delete,
       Editor!Kill, Editor!Insert, Editor!Control, Editor!Escaped
  <2>2. IF r # <<>> THEN t.left = Append(l, Head(r)) /\ t.right = Tail(r)
                   ELSE t.left = l /\ t.right = r
    BY <1>9 DEF Editor!Typed, Editor!Chars, t, m
  <2>3. CASE r # <<>>
    <3>1. pos < Len(buf)
      BY <1>1, <1>2, <2>3
    <3>2. buf' = buf /\ pos' = Len(Append(l, Head(r)))
      BY <1>1, <1>6, <2>1, <2>3, <3>1
    <3>3. t.left = Append(l, Head(r)) /\ t.right = Tail(r)
      BY <2>2, <2>3
    <3> QED
      BY <1>3, <2>3, <3>2, <3>3
  <2>4. CASE r = <<>>
    BY <1>1, <1>2, <1>3, <2>1, <2>2, <2>4
  <2> QED
    BY <2>3, <2>4
<1>10. CASE key \in {"home", "ctrl_a"}
  <2>1. buf' = buf /\ pos' = 0
    BY <1>10 DEF Editor!Edit, Editor!Ignored, Editor!Enter, Editor!Up, Editor!Down,
       Editor!Move, Editor!Backspace, Editor!NothingToDelete, Editor!Delete,
       Editor!Kill, Editor!Insert, Editor!Control, Editor!Escaped
  <2>2. t.left = <<>> /\ t.right = l \o r
    BY <1>10 DEF Editor!Typed, Editor!Chars, t, m
  <2>3. l \o r = buf
    BY DEF Stands
  <2> QED
    BY <1>3, <1>6, <2>1, <2>2, <2>3
<1>11. CASE key \in {"end", "ctrl_e"}
  <2>1. buf' = buf /\ pos' = Len(buf)
    BY <1>11 DEF Editor!Edit, Editor!Ignored, Editor!Enter, Editor!Up, Editor!Down,
       Editor!Move, Editor!Backspace, Editor!NothingToDelete, Editor!Delete,
       Editor!Kill, Editor!Insert, Editor!Control, Editor!Escaped
  <2>2. t.left = l \o r /\ t.right = <<>>
    BY <1>11 DEF Editor!Typed, Editor!Chars, t, m
  <2>3. l \o r = buf
    BY DEF Stands
  <2> QED
    BY <1>3, <2>1, <2>2, <2>3
<1>12. CASE key = "backspace"
  <2>1. IF pos > 0 THEN buf' = Editor!Front(l) \o r /\ pos' = pos - 1
        ELSE UNCHANGED <<buf, pos>>
    <3>1. pos > 0 => pos # 0
      BY <1>1, <1>2
    <3> QED
    BY <1>1, <1>12, <3>1 DEF Editor!Edit, Editor!Ignored, Editor!Enter, Editor!Up,
       Editor!Down, Editor!Move, Editor!Backspace, Editor!NothingToDelete,
       Editor!Delete, Editor!Kill, Editor!Insert, Editor!Control, Editor!Escaped,
       Editor!SetLine, Editor!line
  <2>2. IF l # <<>> THEN t.left = Editor!Front(l) /\ t.right = r
                   ELSE t.left = l /\ t.right = r
    BY <1>12 DEF Editor!Typed, Editor!Chars, t, m
  <2>3. CASE l # <<>>
    <3>1. pos > 0
      BY <1>1, <1>2, <2>3
    <3> QED
      BY <1>1, <1>6, <2>1, <2>2, <2>3, <3>1 DEF Written
  <2>4. CASE l = <<>>
    BY <1>1, <1>2, <1>3, <2>1, <2>2, <2>4
  <2> QED
    BY <2>3, <2>4
<1>13. CASE key = "delete"
  <2>1. IF r # <<>> THEN buf' = l \o Tail(r) /\ pos' = pos ELSE UNCHANGED <<buf, pos>>
    BY <1>1, <1>13 DEF Editor!Edit, Editor!Ignored, Editor!Enter, Editor!Up,
       Editor!Down, Editor!Move, Editor!Backspace, Editor!NothingToDelete,
       Editor!Delete, Editor!Kill, Editor!Insert, Editor!Control, Editor!Escaped,
       Editor!SetLine, Editor!line
  <2>2. IF r # <<>> THEN t.left = l /\ t.right = Tail(r)
                   ELSE t.left = l /\ t.right = r
    BY <1>13 DEF Editor!Typed, Editor!Chars, t, m
  <2>3. CASE r # <<>>
    BY <1>1, <2>1, <2>2, <2>3 DEF Written
  <2>4. CASE r = <<>>
    BY <1>1, <1>2, <1>3, <2>1, <2>2, <2>4
  <2> QED
    BY <2>3, <2>4
<1>14. CASE key = "ctrl_u"
  <2>1. buf' = <<>> /\ pos' = 0
    BY <1>14 DEF Editor!Edit, Editor!Ignored, Editor!Enter, Editor!Up, Editor!Down,
       Editor!Move, Editor!Backspace, Editor!NothingToDelete, Editor!Delete,
       Editor!Kill, Editor!Insert, Editor!Control, Editor!Escaped, Editor!SetLine
  <2>2. t.left = <<>> /\ t.right = <<>>
    BY <1>14 DEF Editor!Typed, Editor!Chars, t, m
  <2>3. Written(<<>>, <<>>, <<>>)
    BY DEF Written
  <2> QED
    BY <1>6, <2>1, <2>2, <2>3
<1>15. CASE key = "ctrl_k"
  <2>1. buf' = l /\ pos' = pos
    BY <1>1, <1>15 DEF Editor!Edit, Editor!Ignored, Editor!Enter, Editor!Up,
       Editor!Down, Editor!Move, Editor!Backspace, Editor!NothingToDelete,
       Editor!Delete, Editor!Kill, Editor!Insert, Editor!Control, Editor!Escaped,
       Editor!SetLine
  <2>2. t.left = l /\ t.right = <<>>
    BY <1>15 DEF Editor!Typed, Editor!Chars, t, m
  <2>3. Written(l, <<>>, l)
    BY ConcatEmptySeq DEF Texts, Written
  <2> QED
    BY <1>1, <2>1, <2>2, <2>3
<1>16. CASE key = "ctrl_w"
  <2>1. buf' = Editor!BeforeLastWord(l) \o r /\ pos' = Len(Editor!BeforeLastWord(l))
    BY <1>1, <1>16 DEF Editor!Edit, Editor!Ignored, Editor!Enter, Editor!Up,
       Editor!Down, Editor!Move, Editor!Backspace, Editor!NothingToDelete,
       Editor!Delete, Editor!Kill, Editor!Insert, Editor!Control, Editor!Escaped,
       Editor!SetLine
  <2>2. t.left = Editor!BeforeLastWord(l) /\ t.right = r
    BY <1>16 DEF Editor!Typed, Editor!Chars, t, m
  <2> QED
    BY <2>1, <2>2 DEF Written
<1>17. CASE key \in Editor!Chars
  <2>1. buf' = Append(l, key) \o r /\ pos' = pos + 1
    BY <1>1, <1>17 DEF Editor!Edit, Editor!Ignored, Editor!Enter, Editor!Up,
       Editor!Down, Editor!Move, Editor!Backspace, Editor!NothingToDelete,
       Editor!Delete, Editor!Kill, Editor!Insert, Editor!Chars, Editor!SetLine
  <2>2. t.left = Append(l, key) /\ t.right = r
    BY <1>17 DEF Editor!Typed, Editor!Chars, t, m
  <2>3. Len(Append(l, key)) = Len(l) + 1
    BY DEF Texts
  <2> QED
    BY <1>1, <2>1, <2>2, <2>3 DEF Written
<1>18. \/ key = "esc" \/ key \in {"left", "ctrl_b"} \/ key \in {"right", "ctrl_f"}
       \/ key \in {"home", "ctrl_a"} \/ key \in {"end", "ctrl_e"} \/ key = "backspace"
       \/ key = "delete" \/ key = "ctrl_u" \/ key = "ctrl_k" \/ key = "ctrl_w"
       \/ key \in Editor!Chars
  <2>1. key \in Editor!Chars \/ key \in Editor!Escaped \/ key \in Editor!Control
    BY DEF Plain
  <2>2. key # "up" /\ key # "down"
    BY DEF Plain
  <2> QED
    BY <2>1, <2>2 DEF Editor!Escaped, Editor!Control
<1> QED
  BY <1>7, <1>8, <1>9, <1>10, <1>11, <1>12, <1>13, <1>14, <1>15, <1>16, <1>17, <1>18

\* Where the line is cut, both parts are text.
LEMMA BothSides ==
  ASSUME buf \in Texts, pos \in 0..Len(buf)
  PROVE  /\ Editor!Left \in Texts /\ Len(Editor!Left) = pos
         /\ Editor!Right \in Texts /\ Len(Editor!Right) = Len(buf) - pos
<1>1. Len(buf) \in Nat /\ pos \in Nat /\ pos <= Len(buf) /\ buf \in Seq(Symbols)
  BY DEF Texts
<1>2. \A i \in 1..Len(buf) : buf[i] \in Symbols
  BY <1>1
<1>3. Editor!Left \in Seq(Symbols) /\ Len(Editor!Left) = pos
  BY <1>1, <1>2 DEF Editor!Left
<1>4. Editor!Right \in Seq(Symbols) /\ Len(Editor!Right) = Len(buf) - pos
  BY <1>1, <1>2 DEF Editor!Right
<1> QED
  BY <1>3, <1>4 DEF Texts

\* Text put behind text.
LEMMA Joined ==
  ASSUME NEW l \in Texts, NEW r \in Texts, NEW s, Written(l, r, s)
  PROVE  s \in Texts /\ Len(l) \in 0..Len(s) /\ Len(s) = Len(l) + Len(r)
<1>1. Len(l) \in Nat /\ Len(r) \in Nat
  BY DEF Texts
<1>2. s \in Texts /\ Len(s) = Len(l) + Len(r)
  BY SameLine
<1> QED
  BY <1>1, <1>2

\* A text and one character more.
LEMMA Longer ==
  ASSUME NEW t \in Texts, NEW k \in Symbols
  PROVE  Append(t, k) \in Texts /\ Len(Append(t, k)) = Len(t) + 1 /\ Append(t, k) # <<>>
<1>1. t \in Seq(Symbols) /\ Len(t) \in Nat
  BY DEF Texts
<1>2. Append(t, k) \in Seq(Symbols) /\ Len(Append(t, k)) = Len(t) + 1
  BY <1>1, AppendProperties
<1>3. Append(t, k) # <<>>
  BY <1>1, <1>2, EmptySeq
<1> QED
  BY <1>2, <1>3 DEF Texts

\* Whatever the key, the line stays text with the cursor in it, and only
\* Enter returns a line.
LEMMA EditTypes ==
  ASSUME EditorTypes, NEW key \in Symbols, Editor!Edit(key)
  PROVE  /\ buf' \in Texts /\ pos' \in 0..Len(buf')
         /\ history' \in Seq(Texts) /\ histIdx' \in 0..Len(history') /\ draft' \in Texts
         /\ IF key = "enter" THEN returned' = Append(returned, buf) /\ buf' = <<>>
            /\ pos' = 0
            ELSE returned' = returned
<1>0. /\ buf \in Texts /\ pos \in 0..Len(buf) /\ history \in Seq(Texts)
      /\ histIdx \in 0..Len(history) /\ draft \in Texts
  BY DEF EditorTypes
<1>1. /\ Editor!Left \in Texts /\ Len(Editor!Left) = pos
      /\ Editor!Right \in Texts /\ Len(Editor!Right) = Len(buf) - pos
  BY <1>0, BothSides
<1>2. /\ Len(buf) \in Nat /\ pos \in Nat /\ pos <= Len(buf)
      /\ Len(history) \in Nat /\ histIdx \in Nat /\ histIdx <= Len(history)
  BY <1>0 DEF Texts
<1>3. <<>> \in Texts /\ Len(<<>>) = 0 /\ \A t \in Texts : Len(t) \in 0..Len(t)
  BY DEF Texts
<1>4. \A i \in 1..Len(history) : history[i] \in Texts
  BY <1>0
<1> DEFINE Good == buf' \in Texts /\ pos' \in 0..Len(buf')
           Past == history' \in Seq(Texts) /\ histIdx' \in 0..Len(history')
             /\ draft' \in Texts
           Back == IF key = "enter" THEN returned' = Append(returned, buf)
             /\ buf' = <<>> /\ pos' = 0
                   ELSE returned' = returned
<1> SUFFICES Good /\ Past /\ Back
  OBVIOUS
<1>5. ASSUME Editor!Kept, key # "enter" PROVE Past /\ Back
  BY <1>0, <1>5 DEF Editor!Kept
<1>6. CASE Editor!Ignored(key)
  BY <1>0, <1>6 DEF Editor!Ignored, Editor!line
<1>7. CASE Editor!Enter(key)
  <2>1. history' \in Seq(Texts) /\ Len(history') \in Nat
    BY <1>0, <1>7 DEF Editor!Enter
  <2> QED
    BY <1>3, <1>7, <2>1 DEF Editor!Enter, Editor!SetLine
<1>8. CASE Editor!Up(key)
  <2>1. CASE history = <<>>
    BY <1>0, <1>8, <2>1 DEF Editor!Up, Editor!line
  <2>2. CASE history # <<>>
    <3>1. history' = history /\ returned' = returned /\ key # "enter" /\ draft' \in Texts
      BY <1>0, <1>8, <2>2 DEF Editor!Up
    <3>2. CASE histIdx < Len(history)
      <4>1. histIdx + 1 \in 1..Len(history)
        BY <1>2, <3>2
      <4>2. histIdx' = histIdx + 1 /\ buf' = history[histIdx + 1]
            /\ pos' = Len(history[histIdx + 1])
        BY <1>8, <2>2, <3>2 DEF Editor!Up, Editor!SetLine
      <4>3. buf' \in Texts /\ pos' \in 0..Len(buf')
        BY <1>3, <1>4, <4>1, <4>2
      <4> QED
        BY <1>0, <3>1, <4>1, <4>2, <4>3
    <3>3. CASE ~(histIdx < Len(history))
      BY <1>0, <1>8, <2>2, <3>1, <3>3 DEF Editor!Up
    <3> QED
      BY <3>2, <3>3
  <2> QED
    BY <2>1, <2>2
<1>9. CASE Editor!Down(key)
  <2>1. CASE history = <<>>
    BY <1>0, <1>9, <2>1 DEF Editor!Down, Editor!line
  <2>2. CASE history # <<>>
    <3>1. history' = history /\ returned' = returned /\ key # "enter" /\ draft' = draft
      BY <1>9, <2>2 DEF Editor!Down
    <3>2. CASE histIdx > 1
      <4>1. histIdx - 1 \in 1..Len(history)
        BY <1>2, <3>2
      <4>2. histIdx' = histIdx - 1 /\ buf' = history[histIdx - 1]
            /\ pos' = Len(history[histIdx - 1])
        BY <1>9, <2>2, <3>2 DEF Editor!Down, Editor!SetLine
      <4>3. buf' \in Texts /\ pos' \in 0..Len(buf')
        BY <1>3, <1>4, <4>1, <4>2
      <4> QED
        BY <1>0, <3>1, <4>1, <4>2, <4>3
    <3>3. CASE ~(histIdx > 1)
      <4>1. histIdx' = 0 /\ buf' = draft /\ pos' = Len(draft)
        BY <1>9, <2>2, <3>3 DEF Editor!Down, Editor!SetLine
      <4>2. buf' \in Texts /\ pos' \in 0..Len(buf')
        BY <1>0, <1>3, <4>1
      <4> QED
        BY <1>0, <1>2, <3>1, <4>1, <4>2
    <3> QED
      BY <3>2, <3>3
  <2> QED
    BY <2>1, <2>2
<1>10. CASE Editor!Move(key)
  <2>1. buf' = buf /\ Editor!Kept /\ key # "enter" /\ pos' \in 0..Len(buf)
    BY <1>2, <1>10 DEF Editor!Move
  <2> QED
    BY <1>0, <1>5, <2>1
<1>11. CASE Editor!Backspace(key)
  <2>1. /\ Editor!Kept /\ key # "enter" /\ pos > 0 /\ pos' = pos - 1
        /\ buf' = Editor!Front(Editor!Left) \o Editor!Right
    BY <1>11 DEF Editor!Backspace, Editor!SetLine
  <2>2. Editor!Left # <<>>
    BY <1>1, <1>2, <1>3, <2>1
  <2>3. Editor!Front(Editor!Left) \in Texts /\ Len(Editor!Front(Editor!Left)) = pos - 1
    BY <1>1, <2>2, FrontOf DEF Texts
  <2>4. Written(Editor!Front(Editor!Left), Editor!Right, buf')
    BY <2>1 DEF Written
  <2>5. buf' \in Texts /\ Len(Editor!Front(Editor!Left)) \in 0..Len(buf')
    BY <1>1, <2>3, <2>4, Joined
  <2> QED
    BY <1>5, <2>1, <2>3, <2>5
<1>12. CASE Editor!NothingToDelete(key)
  BY <1>0, <1>12 DEF Editor!NothingToDelete, Editor!line
<1>13. CASE Editor!Delete(key)
  <2>1. /\ Editor!Kept /\ key # "enter" /\ Editor!Right # <<>> /\ pos' = pos
        /\ buf' = Editor!Left \o Tail(Editor!Right)
    BY <1>13 DEF Editor!Delete, Editor!SetLine
  <2>2. Tail(Editor!Right) \in Texts
    BY <1>1, <2>1 DEF Texts
  <2>3. Written(Editor!Left, Tail(Editor!Right), buf')
    BY <2>1 DEF Written
  <2>4. buf' \in Texts /\ Len(Editor!Left) \in 0..Len(buf')
    BY <1>1, <2>2, <2>3, Joined
  <2> QED
    BY <1>1, <1>5, <2>1, <2>4
<1>14. CASE Editor!Kill(key)
  <2>1. Editor!Kept /\ key # "enter"
    BY <1>14 DEF Editor!Kill
  <2>2. CASE key = "ctrl_u"
    <3>1. buf' = <<>> /\ pos' = 0
      BY <1>14, <2>2 DEF Editor!Kill, Editor!SetLine
    <3> QED
      BY <1>3, <1>5, <2>1, <3>1
  <2>3. CASE key = "ctrl_k"
    <3>1. buf' = Editor!Left /\ pos' = pos
      BY <1>14, <2>3 DEF Editor!Kill, Editor!SetLine
    <3> QED
      BY <1>1, <1>2, <1>5, <2>1, <3>1
  <2>4. CASE key = "ctrl_w"
    <3> DEFINE l == Editor!BeforeLastWord(Editor!Left)
    <3>1. buf' = l \o Editor!Right /\ pos' = Len(l)
      BY <1>14, <2>4 DEF Editor!Kill, Editor!SetLine
    <3>2. l \in Texts
      BY <1>1, WordsLeft
    <3> HIDE DEF l
    <3>3. Written(l, Editor!Right, buf')
      BY <3>1 DEF Written
    <3>4. buf' \in Texts /\ Len(l) \in 0..Len(buf')
      BY <1>1, <3>2, <3>3, Joined
    <3> QED
      BY <1>5, <2>1, <3>1, <3>4
  <2> QED
    BY <1>14, <2>2, <2>3, <2>4 DEF Editor!Kill
<1>15. CASE Editor!Insert(key)
  <2>1. /\ Editor!Kept /\ key # "enter" /\ pos' = pos + 1
        /\ buf' = Append(Editor!Left, key) \o Editor!Right
    BY <1>15 DEF Editor!Insert, Editor!SetLine, Editor!Control
  <2>2. Append(Editor!Left, key) \in Texts /\ Len(Append(Editor!Left, key)) = pos + 1
    BY <1>1, Longer
  <2>3. Written(Append(Editor!Left, key), Editor!Right, buf')
    BY <2>1 DEF Written
  <2>4. buf' \in Texts /\ Len(Append(Editor!Left, key)) \in 0..Len(buf')
    BY <1>1, <2>2, <2>3, Joined
  <2> QED
    BY <1>5, <2>1, <2>2, <2>4
<1> QED
  BY <1>6, <1>7, <1>8, <1>9, <1>10, <1>11, <1>12, <1>13, <1>14, <1>15 DEF Editor!Edit

\* A key is a character, a named key or a control key, whatever the bytes.
LEMMA KeysAre ==
  ASSUME NEW bytes \in Texts, bytes # <<>>
  PROVE  Editor!KeyOf(bytes) \in Symbols
<1>1. bytes[1] \in Symbols
  BY DEF Texts
<1>2. \A rest : Editor!DecodeEscape(rest) \in Symbols
  <2> TAKE rest
  <2> DEFINE keys == {key \in Editor!Escaped : Editor!Bytes(key) = <<"esc">> \o rest}
  <2>1. \A key \in keys : key \in Editor!Escaped
    OBVIOUS
  <2>2. \A key \in Editor!Escaped : key \in Symbols
    BY DEF Symbols
  <2>3. Editor!DecodeEscape(rest) = IF keys = {} THEN "esc" ELSE CHOOSE key \in keys : TRUE
    BY DEF Editor!DecodeEscape
  <2> HIDE DEF keys
  <2>4. CASE keys = {}
    BY <2>3, <2>4 DEF Symbols, Editor!Control
  <2>5. CASE keys # {}
    <3>1. (CHOOSE key \in keys : TRUE) \in keys
      BY <2>5
    <3> QED
      BY <2>1, <2>2, <2>3, <2>5, <3>1
  <2> QED
    BY <2>4, <2>5
<1>3. Editor!DecodeEscape(Tail(bytes)) \in Symbols
  BY <1>2
<1>4. Editor!KeyOf(bytes) \in {Editor!DecodeEscape(Tail(bytes)), "e2", bytes[1]}
  BY DEF Editor!KeyOf
<1>5. "e2" \in Symbols
  BY DEF Symbols, Editor!Chars
<1> QED
  BY <1>1, <1>3, <1>4, <1>5

\* An escape sequence is no Enter.
LEMMA EscapesAreNoEnter ==
  ASSUME NEW rest
  PROVE  Editor!DecodeEscape(rest) # "enter"
<1> DEFINE keys == {key \in Editor!Escaped : Editor!Bytes(key) = <<"esc">> \o rest}
<1>1. keys \subseteq Editor!Escaped /\ "enter" \notin Editor!Escaped
  BY DEF Editor!Escaped
<1>2. Editor!DecodeEscape(rest) = IF keys = {} THEN "esc" ELSE CHOOSE key \in keys : TRUE
  BY DEF Editor!DecodeEscape
<1> HIDE DEF keys
<1> QED
  BY <1>1, <1>2

\* The chain is read the same way as long as the console is the same.
LEMMA LeadsStay ==
  ASSUME console' = console, NEW L, NEW v, NEW q, NEW w, Leads(L, v, q, w)
  PROVE  Leads(L, v, q, w)'
<1>1. \A bytes : Editor!Complete(bytes)' = Editor!Complete(bytes)
      /\ Editor!KeyOf(bytes)' = Editor!KeyOf(bytes)
  BY DEF Editor!Complete, Editor!KeyOf
<1>2. \A V : Trail(L, V, q) => Trail(L, V, q)'
  BY <1>1 DEF Trail, Reads
<1> QED
  BY <1>2 DEF Leads

\* A key is read: the editor moves one step along the chain.
LEMMA ReadKeyKeeps == EditorInv /\ Editor!ReadKey => EditorInv'
<1> SUFFICES ASSUME EditorInv, Editor!ReadKey PROVE EditorInv'
  OBVIOUS
<1> DEFINE b == Head(wire)
           bytes == Append(partial, b)
           key == Editor!KeyOf(bytes)
           L == meant.lines
<1>1. /\ wire # <<>> /\ Editor!Complete(bytes) /\ Editor!Edit(key)
      /\ partial' = <<>> /\ wire' = Tail(wire) /\ console' = console /\ meant' = meant
  BY DEF Editor!ReadKey
<1>2. EditorTypes /\ Returned
  BY DEF EditorInv
<1>3. b \in Symbols /\ Tail(wire) \in Texts /\ bytes \in Texts /\ bytes # <<>>
      /\ wire \in Texts
  <2>1. wire \in Texts /\ partial \in Texts
    BY <1>2 DEF EditorTypes
  <2>2. b \in Symbols /\ Tail(wire) \in Texts
    BY <1>1, <2>1 DEF Texts
  <2> HIDE DEF b
  <2> QED
    BY <2>1, <2>2, Longer
<1>4. PICK v \in Ahead, w \in Ahead :
        Holds(v) /\ Leads(L, v, wire, w) /\ Begun(w.part) /\ Meets(meant, w)
  BY DEF EditorInv
<1>5. PICK u \in Ahead : Reads(L, v, b, u) /\ Leads(L, u, Tail(wire), w)
  BY <1>1, <1>3, <1>4, LeadsFrom
<1>6. u.part = <<>> /\ Does(L, v, key, u)
  <2>1. v.part = partial
    BY <1>4 DEF Holds
  <2> QED
    BY <1>1, <1>5, <2>1 DEF Reads
<1>7. key \in Symbols
  BY <1>3, KeysAre
<1> HIDE DEF b, bytes, key
<1>8. /\ buf' \in Texts /\ pos' \in 0..Len(buf')
      /\ history' \in Seq(Texts) /\ histIdx' \in 0..Len(history') /\ draft' \in Texts
      /\ IF key = "enter" THEN returned' = Append(returned, buf) /\ buf' = <<>> /\ pos' = 0
         ELSE returned' = returned
  BY <1>1, <1>2, <1>7, EditTypes
<1>9. /\ returned \in Seq(Texts) /\ buf \in Texts /\ L \in Seq(Line)
      /\ v.lines = Len(returned) /\ v.left \in Texts /\ v.right \in Texts
      /\ (v.sure => Stands(v.left, v.right))
  BY <1>2, <1>4 DEF EditorTypes, Holds, Ahead
<1>10. EditorTypes'
  <2>1. returned' \in Seq(Texts)
    <3>1. Append(returned, buf) \in Seq(Texts)
      BY <1>9, AppendProperties
    <3> QED
      BY <1>8, <1>9, <3>1
  <2>2. Begun(partial)'
    BY <1>1 DEF Begun
  <2>3. <<>> \in Texts
    BY DEF Texts
  <2>4. wire' \in Texts /\ partial' \in Texts
    BY <1>1, <1>3, <2>3
  <2>5. /\ console \in {"posix", "nt"} /\ (console = "nt" => meant.apart)
        /\ meant \in [now : Line, lines : Seq(Line), apart : BOOLEAN]
    BY <1>2 DEF EditorTypes
  <2> QED
    BY <1>1, <1>8, <2>1, <2>2, <2>4, <2>5 DEF EditorTypes
<1>11. ASSUME key = "enter" PROVE Returned' /\ Holds(u)'
  <2>1. /\ u.lines = v.lines + 1 /\ u.lines \in DOMAIN L /\ u.left = <<>> /\ u.right = <<>>
        /\ (L[u.lines].sure => v.sure /\ L[u.lines].left = v.left
           /\ L[u.lines].right = v.right)
    BY <1>6, <1>11 DEF Does
  <2>2. returned' = Append(returned, buf) /\ buf' = <<>> /\ pos' = 0
    BY <1>8, <1>11
  <2>3. /\ Len(returned') = Len(returned) + 1 /\ Len(returned) \in Nat
        /\ returned'[Len(returned) + 1] = buf
           /\ \A i \in DOMAIN returned : returned'[i] = returned[i]
        /\ \A i \in DOMAIN returned' : i \in DOMAIN returned \/ i = Len(returned) + 1
    BY <1>9, <2>2
  <2>4. Returned'
    <3>1. Len(returned') <= Len(L)
      BY <1>9, <2>1, <2>3
    <3>2. ASSUME NEW i \in DOMAIN returned', L[i].sure
          PROVE  returned'[i] = L[i].left \o L[i].right
      <4>1. CASE i \in DOMAIN returned
        BY <1>2, <2>3, <3>2, <4>1 DEF Returned
      <4>2. CASE i = Len(returned) + 1
        <5>1. i = u.lines /\ returned'[i] = buf
          BY <1>9, <2>1, <2>3, <4>2
        <5>2. L[i].left = v.left /\ L[i].right = v.right /\ buf = v.left \o v.right
          BY <1>9, <2>1, <3>2, <5>1 DEF Stands
        <5> QED
          BY <5>1, <5>2
      <4> QED
        BY <2>3, <4>1, <4>2
    <3> QED
      BY <1>1, <3>1, <3>2 DEF Returned
  <2>5. Holds(u)'
    <3>1. <<>> = <<>> \o <<>> /\ Len(<<>>) = 0
      OBVIOUS
    <3>2. Stands(<<>>, <<>>)'
      BY <2>2, <3>1 DEF Stands
    <3> QED
      BY <1>1, <1>6, <1>9, <2>1, <2>3, <3>2 DEF Holds
  <2> QED
    BY <2>4, <2>5
<1>12. ASSUME key # "enter" PROVE Returned' /\ Holds(u)'
  <2>1. /\ u.lines = v.lines
        /\ u.sure => /\ v.sure /\ key \in Plain
                     /\ u.left = Editor!Typed(View(v), key).left
                     /\ u.right = Editor!Typed(View(v), key).right
    BY <1>6, <1>12 DEF Does
  <2>2. returned' = returned
    BY <1>8, <1>12
  <2>3. Returned'
    BY <1>1, <1>2, <2>2 DEF Returned
  <2>4. ASSUME u.sure PROVE Stands(u.left, u.right)'
    <3>1. v.sure /\ key \in Plain /\ Stands(v.left, v.right)
      BY <1>9, <2>1, <2>4
    <3>2. /\ Written(Editor!Typed(View(v), key).left, Editor!Typed(View(v), key).right, buf')
          /\ pos' = Len(Editor!Typed(View(v), key).left)
      BY <1>1, <1>9, <1>12, <3>1, KeyKnown DEF View
    <3>3. Written(u.left, u.right, buf') /\ pos' = Len(u.left)
      BY <2>1, <2>4, <3>2
    <3> QED
      BY <3>3 DEF Stands, Written
  <2>5. Holds(u)'
    BY <1>1, <1>6, <1>9, <2>1, <2>2, <2>4 DEF Holds
  <2> QED
    BY <2>3, <2>5
<1>13. Returned' /\ Holds(u)'
  BY <1>11, <1>12
<1>14. PICK M, q : M = meant.lines /\ q = Tail(wire)
  OBVIOUS
<1>15. Leads(M, u, q, w)'
  <2>1. Leads(M, u, q, w)
    BY <1>5, <1>14
  <2> QED
    BY <1>1, <2>1, LeadsStay
<1>16. Begun(w.part)'
  BY <1>1, <1>4 DEF Begun, Editor!Complete
<1>17. meant'.lines = M /\ wire' = q /\ Meets(meant', w)
  BY <1>1, <1>4, <1>14
<1>18. Leads(meant.lines, u, wire, w)'
  BY <1>15, <1>17
<1> QED
  BY <1>10, <1>13, <1>16, <1>17, <1>18 DEF EditorInv

\* A byte that ends no key is kept for the next one.
LEMMA ReadByteKeeps == EditorInv /\ Editor!ReadByte => EditorInv'
<1> SUFFICES ASSUME EditorInv, Editor!ReadByte PROVE EditorInv'
  OBVIOUS
<1> DEFINE b == Head(wire)
           bytes == Append(partial, b)
<1>1. /\ wire # <<>> /\ ~Editor!Complete(bytes) /\ partial' = bytes /\ wire' = Tail(wire)
      /\ console' = console /\ meant' = meant /\ buf' = buf /\ pos' = pos
      /\ history' = history /\ histIdx' = histIdx /\ draft' = draft /\ returned' = returned
  BY DEF Editor!ReadByte, Editor!line
<1>2. EditorTypes /\ Returned
  BY DEF EditorInv
<1>3. b \in Symbols /\ Tail(wire) \in Texts /\ bytes \in Texts /\ wire \in Texts
  <2>1. wire \in Texts /\ partial \in Texts
    BY <1>2 DEF EditorTypes
  <2>2. b \in Symbols /\ Tail(wire) \in Texts
    BY <1>1, <2>1 DEF Texts
  <2> HIDE DEF b
  <2> QED
    BY <2>1, <2>2, Longer
<1>4. PICK v \in Ahead, w \in Ahead :
        Holds(v) /\ Leads(meant.lines, v, wire, w) /\ Begun(w.part) /\ Meets(meant, w)
  BY DEF EditorInv
<1>5. PICK u \in Ahead : Reads(meant.lines, v, b, u) /\ Leads(meant.lines, u, Tail(wire), w)
  BY <1>1, <1>3, <1>4, LeadsFrom
<1>6. /\ u.part = bytes /\ u.lines = v.lines
      /\ u.sure => v.sure /\ u.left = v.left /\ u.right = v.right
  <2>1. v.part = partial
    BY <1>4 DEF Holds
  <2> QED
    BY <1>1, <1>5, <2>1 DEF Reads
<1> HIDE DEF b, bytes
<1>7. EditorTypes'
  <2>1. console = "posix"
    BY <1>1, <1>2 DEF EditorTypes, Editor!Complete
  <2>2. Begun(partial)'
    BY <1>1, <2>1 DEF Begun, Editor!Complete
  <2>3. wire' \in Texts /\ partial' \in Texts
    BY <1>1, <1>3
  <2> QED
    BY <1>1, <1>2, <2>2, <2>3 DEF EditorTypes
<1>8. Returned' /\ Holds(u)'
  BY <1>1, <1>2, <1>4, <1>6 DEF Returned, Holds, Stands
<1>9. PICK M, q : M = meant.lines /\ q = Tail(wire)
  OBVIOUS
<1>10. Leads(M, u, q, w)'
  <2>1. Leads(M, u, q, w)
    BY <1>5, <1>9
  <2> QED
    BY <1>1, <2>1, LeadsStay
<1>11. Begun(w.part)'
  BY <1>1, <1>4 DEF Begun, Editor!Complete
<1>12. meant'.lines = M /\ wire' = q /\ Meets(meant', w)
  BY <1>1, <1>4, <1>9
<1>13. Leads(meant.lines, u, wire, w)'
  BY <1>10, <1>12
<1> QED
  BY <1>7, <1>8, <1>11, <1>12, <1>13 DEF EditorInv

\* Nothing on the wire: the end of the chain is where the editor stands.
LEMMA ChainIsShort ==
  ASSUME NEW x \in Ahead, EditorTypes', Returned', wire' = <<>>,
         Holds(x)', x.part = <<>>, Meets(meant', x)
  PROVE  EditorInv'
<1>1. PICK M : M = meant'.lines
  OBVIOUS
<1>2. Leads(M, x, <<>>, x)'
  <2> DEFINE V == [k \in 0..0 |-> x]
  <2>1. Len(<<>>) = 0 /\ 1..0 = {} /\ V \in [0..0 -> Ahead] /\ V[0] = x
    OBVIOUS
  <2> HIDE DEF V
  <2>2. Trail(M, V, <<>>)'
    BY <2>1 DEF Trail
  <2> QED
    BY <2>1, <2>2 DEF Leads
<1>3. Leads(meant.lines, x, wire, x)'
  BY <1>1, <1>2
<1>4. Begun(x.part)'
  BY DEF Begun
<1> QED
  BY <1>3, <1>4 DEF EditorInv

\* An escape sequence that does not go on is dropped.
LEMMA EscapeTimesOutKeeps == EditorInv /\ Editor!EscapeTimesOut => EditorInv'
<1> SUFFICES ASSUME EditorInv, Editor!EscapeTimesOut PROVE EditorInv'
  OBVIOUS
<1>1. /\ partial # <<>> /\ wire = <<>> /\ partial' = <<>> /\ wire' = wire
      /\ console' = console /\ meant' = meant /\ buf' = buf /\ pos' = pos
      /\ history' = history /\ histIdx' = histIdx /\ draft' = draft /\ returned' = returned
  BY DEF Editor!EscapeTimesOut, Editor!Ignored, Editor!line
<1>2. EditorTypes /\ Returned
  BY DEF EditorInv
<1>3. PICK v \in Ahead, w \in Ahead :
        Holds(v) /\ Leads(meant.lines, v, wire, w) /\ Meets(meant, w)
  BY DEF EditorInv
<1>4. w = v
  <2>1. PICK M : M = meant.lines
    OBVIOUS
  <2>2. Leads(M, v, <<>>, w)
    BY <1>1, <1>3, <2>1
  <2> QED
    BY <2>2, LeadsNone
<1>5. v.part = partial /\ v.lines = Len(returned)
  BY <1>3 DEF Holds
<1>6. /\ ~meant.apart /\ v.lines <= Len(meant.lines) /\ ~meant.now.sure
      /\ \A i \in DOMAIN meant.lines : i > v.lines => ~meant.lines[i].sure
  BY <1>1, <1>3, <1>4, <1>5 DEF Meets
<1> DEFINE x == [part |-> <<>>, left |-> <<>>, right |-> <<>>, sure |-> FALSE,
  lines |-> v.lines]
<1>7. <<>> \in Texts
  BY DEF Texts
<1>8. x \in Ahead /\ x.part = <<>> /\ x.lines = v.lines /\ x.sure = FALSE
  BY <1>7 DEF Ahead
<1> HIDE DEF x
<1>9. EditorTypes'
  <2>1. Begun(partial)'
    BY <1>1 DEF Begun
  <2> QED
    BY <1>1, <1>2, <1>7, <2>1 DEF EditorTypes
<1>10. Returned' /\ Holds(x)'
  BY <1>1, <1>2, <1>5, <1>8 DEF Returned, Holds
<1>11. Meets(meant', x)
  BY <1>1, <1>6, <1>8 DEF Meets
<1> QED
  BY <1>1, <1>8, <1>9, <1>10, <1>11, ChainIsShort

\* Ctrl-C: the terminal drops what was not read, or the line goes.
LEMMA InterruptKeeps == EditorInv /\ Editor!Interrupt => EditorInv'
<1> SUFFICES ASSUME EditorInv, Editor!Interrupt PROVE EditorInv'
  OBVIOUS
<1>1. console' = console /\ returned' = returned
  BY DEF Editor!Interrupt
<1>2. /\ EditorTypes /\ Returned
      /\ meant \in [now : Line, lines : Seq(Line), apart : BOOLEAN]
         /\ returned \in Seq(Texts)
      /\ meant.now \in Line /\ meant.lines \in Seq(Line) /\ meant.apart \in BOOLEAN
  BY DEF EditorInv, EditorTypes
<1>3. <<>> \in Texts /\ Len(<<>>) = 0
  BY DEF Texts
<1>4. PICK v \in Ahead, w \in Ahead :
        Holds(v) /\ Leads(meant.lines, v, wire, w) /\ Meets(meant, w)
  BY DEF EditorInv
<1>5. CASE /\ console = "posix" /\ wire' = <<>> /\ partial' = <<>>
           /\ meant' = [meant EXCEPT !.now.sure = FALSE, !.lines = SubSeq(@, 1, Len(returned))]
           /\ UNCHANGED Editor!line
  <2>0. PICK n : n = Len(returned)
    OBVIOUS
  <2> DEFINE x == [part |-> <<>>, left |-> <<>>, right |-> <<>>, sure |-> FALSE,
    lines |-> n]
  <2>1. n \in Nat /\ n <= Len(meant.lines)
    BY <1>2, <2>0 DEF Returned
  <2>2. x \in Ahead /\ x.part = <<>> /\ x.lines = n /\ x.sure = FALSE
    BY <1>3, <2>1 DEF Ahead
  <2>3. /\ meant'.now = [meant.now EXCEPT !.sure = FALSE] /\ meant'.apart = meant.apart
        /\ meant'.lines = SubSeq(meant.lines, 1, n)
        /\ meant' = [now |-> meant'.now, lines |-> meant'.lines, apart |-> meant'.apart]
    BY <1>2, <1>5, <2>0
  <2> HIDE DEF x
  <2>4. /\ SubSeq(meant.lines, 1, n) \in Seq(Line) /\ Len(SubSeq(meant.lines, 1, n)) = n
        /\ \A i \in 1..n : SubSeq(meant.lines, 1, n)[i] = meant.lines[i]
    BY <1>2, <2>1
  <2>5. meant'.now \in Line /\ ~meant'.now.sure
    BY <1>2, <2>3 DEF Line
  <2>6. meant' \in [now : Line, lines : Seq(Line), apart : BOOLEAN]
    <3>1. meant'.lines \in Seq(Line) /\ meant'.apart \in BOOLEAN
      BY <1>2, <2>3, <2>4
    <3> QED
      BY <2>3, <2>5, <3>1
  <2>7. /\ buf' = buf /\ pos' = pos /\ history' = history /\ histIdx' = histIdx
           /\ draft' = draft
    BY <1>5 DEF Editor!line
  <2>8. EditorTypes'
    <3>1. Begun(partial)'
      BY <1>5 DEF Begun
    <3> QED
      BY <1>1, <1>2, <1>3, <1>5, <2>6, <2>7, <3>1 DEF EditorTypes
  <2>9. DOMAIN returned = 1..n /\ DOMAIN meant'.lines = 1..n
    BY <1>2, <2>1, <2>3, <2>4, <2>0
  <2>10. Returned'
    <3>1. Len(returned') <= Len(meant'.lines)
      BY <1>1, <2>1, <2>3, <2>4, <2>0
    <3>2. \A i \in DOMAIN returned' : meant'.lines[i] = meant.lines[i]
      BY <1>1, <2>3, <2>4, <2>9
    <3> QED
      BY <1>1, <1>2, <3>1, <3>2 DEF Returned
  <2>11. Holds(x)'
    BY <1>1, <1>5, <2>0, <2>2 DEF Holds
  <2>12. Meets(meant', x)
    <3>1. \A i \in DOMAIN meant'.lines : ~(i > n)
      BY <2>1, <2>9
    <3> QED
      BY <2>1, <2>2, <2>3, <2>4, <2>5, <3>1 DEF Meets
  <2> QED
    BY <1>5, <2>2, <2>8, <2>10, <2>11, <2>12, ChainIsShort
<1>6. CASE /\ console = "nt" /\ wire = <<>> /\ buf' = <<>> /\ pos' = 0 /\ histIdx' = 0
              /\ draft' = <<>>
           /\ meant' = [meant EXCEPT !.now = [Editor!NoLine EXCEPT !.sure = meant.apart]]
           /\ wire' = wire /\ partial' = partial /\ history' = history
  <2> DEFINE x == [part |-> <<>>, left |-> <<>>, right |-> <<>>, sure |-> TRUE,
    lines |-> v.lines]
  <2>1. x \in Ahead /\ x.part = <<>> /\ x.lines = v.lines /\ x.sure = TRUE
        /\ x.left = <<>> /\ x.right = <<>>
    BY <1>3 DEF Ahead
  <2> HIDE DEF x
  <2>2. meant.apart = TRUE /\ partial = <<>>
    BY <1>2, <1>6 DEF EditorTypes, Begun
  <2>3. /\ meant'.now = [left |-> <<>>, right |-> <<>>, sure |-> TRUE]
           /\ meant'.apart = meant.apart
        /\ meant'.lines = meant.lines
        /\ meant' = [now |-> meant'.now, lines |-> meant'.lines, apart |-> meant'.apart]
    BY <1>2, <1>6, <2>2 DEF Editor!NoLine
  <2>4. w = v
    <3>1. PICK M : M = meant.lines
      OBVIOUS
    <3>2. Leads(M, v, <<>>, w)
      BY <1>4, <1>6, <3>1
    <3> QED
      BY <3>2, LeadsNone
  <2>5. v.lines = Len(meant.lines) /\ v.lines = Len(returned)
    BY <1>4, <2>2, <2>4 DEF Meets, Holds
  <2>6. EditorTypes'
    <3>1. meant'.now \in Line
      BY <1>3, <2>3 DEF Line
    <3>2. meant' \in [now : Line, lines : Seq(Line), apart : BOOLEAN]
      BY <1>2, <2>3, <3>1
    <3>3. histIdx' \in 0..Len(history') /\ pos' \in 0..Len(buf') /\ buf' \in Texts
          /\ draft' \in Texts
      <4>1. Len(history) \in Nat
        BY <1>2 DEF EditorTypes
      <4> QED
        BY <1>3, <1>6, <4>1
    <3>4. Begun(partial)'
      BY <1>6, <2>2 DEF Begun
    <3> QED
      BY <1>1, <1>2, <1>6, <2>2, <2>3, <3>2, <3>3, <3>4 DEF EditorTypes
  <2>7. Returned'
    BY <1>1, <1>2, <2>3 DEF Returned
  <2>8. Holds(x)'
    <3>1. <<>> = <<>> \o <<>>
      OBVIOUS
    <3> QED
      BY <1>1, <1>3, <1>6, <2>1, <2>2, <2>5, <3>1 DEF Holds, Stands
  <2>9. Meets(meant', x)
    BY <2>1, <2>2, <2>3, <2>5 DEF Meets
  <2> QED
    BY <1>6, <2>1, <2>6, <2>7, <2>8, <2>9, ChainIsShort
<1> QED
  BY <1>5, <1>6 DEF Editor!Interrupt, Editor!SetLine

\* At first nothing is struck, and nothing returned.
LEMMA EditorStarts == Editor!Init => EditorInv
<1> SUFFICES ASSUME Editor!Init PROVE EditorInv
  OBVIOUS
<1> USE PartsAssumption
<1>1. /\ wire = <<>> /\ partial = <<>> /\ buf = <<>> /\ pos = 0 /\ history = <<>>
         /\ histIdx = 0
      /\ draft = <<>> /\ returned = <<>> /\ console \in {"posix", "nt"}
  BY DEF Editor!Init, PartsAssumption, Editor!EditorAssumption
<1>2. /\ meant.now = [left |-> <<>>, right |-> <<>>, sure |-> TRUE] /\ meant.lines = <<>>
      /\ meant.apart = TRUE /\ meant = [now |-> meant.now, lines |-> meant.lines,
         apart |-> meant.apart]
  BY DEF Editor!Init, Editor!NoLine
<1>3. <<>> \in Texts /\ Len(<<>>) = 0 /\ <<>> \in Seq(Texts) /\ <<>> \in Seq(Line)
      /\ DOMAIN <<>> = {}
  BY DEF Texts
<1> DEFINE x == [part |-> <<>>, left |-> <<>>, right |-> <<>>, sure |-> TRUE, lines |-> 0]
<1>4. x \in Ahead /\ x.part = <<>> /\ x.lines = 0 /\ x.sure = TRUE /\ x.left = <<>>
      /\ x.right = <<>>
  BY <1>3 DEF Ahead
<1> HIDE DEF x
<1>5. EditorTypes
  <2>1. meant.now \in Line
    BY <1>2, <1>3 DEF Line
  <2>2. meant \in [now : Line, lines : Seq(Line), apart : BOOLEAN]
    BY <1>2, <1>3, <2>1
  <2>3. Begun(partial)
    BY <1>1 DEF Begun
  <2> QED
    BY <1>1, <1>2, <1>3, <2>2, <2>3 DEF EditorTypes
<1>6. Returned
  BY <1>1, <1>2, <1>3 DEF Returned
<1>7. Holds(x)
  <2>1. <<>> = <<>> \o <<>>
    OBVIOUS
  <2> QED
    BY <1>1, <1>3, <1>4, <2>1 DEF Holds, Stands
<1>8. Meets(meant, x) /\ Begun(x.part)
  BY <1>2, <1>3, <1>4 DEF Meets, Begun
<1>9. Leads(meant.lines, x, wire, x)
  BY <1>1, <1>4, LeadsNone
<1> QED
  BY <1>4, <1>5, <1>6, <1>7, <1>8, <1>9 DEF EditorInv

\* Bytes sent after the others, one by one.
Sends(q, bytes, q2) == q2 = q \o bytes
LEMMA OneByOne ==
  ASSUME NEW q \in Texts, NEW q2
  PROVE  /\ \A a : Sends(q, <<a>>, q2) => q2 = Append(q, a)
         /\ \A a, b : Sends(q, <<a, b>>, q2) => q2 = Append(Append(q, a), b)
         /\ \A a, b, c : Sends(q, <<a, b, c>>, q2)
            => q2 = Append(Append(Append(q, a), b), c)
         /\ \A a, b, c, d : Sends(q, <<a, b, c, d>>, q2)
                            => q2 = Append(Append(Append(Append(q, a), b), c), d)
BY DEF Texts, Sends

\* A sequence and one member more.
LEMMA LongerByOne ==
  ASSUME NEW T, NEW q \in Seq(T), NEW t \in T
  PROVE  /\ Append(q, t) \in Seq(T) /\ Len(Append(q, t)) = Len(q) + 1
         /\ Append(q, t)[Len(q) + 1] = t
         /\ \A i \in 1..Len(q) : Append(q, t)[i] = q[i]
OBVIOUS

\* Two, one after the other.
LEMMA OneAndAnother ==
  ASSUME NEW a, NEW b
  PROVE  Append(<<>>, a) = <<a>> /\ Append(<<a>>, b) = <<a, b>>
<1>1. Append(<<>>, a) = <<a>>
  OBVIOUS
<1> DEFINE S == {a, b}
           p == <<a>>
           r == <<a, b>>
           s == Append(p, b)
<1>2. p \in Seq(S) /\ Len(p) = 1 /\ p[1] = a
  OBVIOUS
<1>3. r \in Seq(S) /\ Len(r) = 2 /\ r[1] = a /\ r[2] = b
  OBVIOUS
<1>4. b \in S
  OBVIOUS
<1> HIDE DEF S, p, r
<1>5. s \in Seq(S) /\ Len(s) = 2 /\ s[1] = a /\ s[2] = b
  <2>1. /\ Append(p, b) \in Seq(S) /\ Len(Append(p, b)) = Len(p) + 1
        /\ Append(p, b)[Len(p) + 1] = b /\ \A i \in 1..Len(p) : Append(p, b)[i] = p[i]
    <3>1. p \in Seq(S)
      BY <1>2
    <3> HIDE DEF s
    <3> QED
      BY <1>4, <3>1, LongerByOne
  <2>2. Len(p) + 1 = 2 /\ 1 \in 1..Len(p)
    BY <1>2
  <2> HIDE DEF s
  <2> QED
    BY <1>2, <2>1, <2>2 DEF s
<1>6. \A i \in 1..2 : i = 1 \/ i = 2
  OBVIOUS
<1> HIDE DEF s
<1>7. s = r
  BY <1>3, <1>5, <1>6, SeqEqual
<1> QED
  BY <1>1, <1>7 DEF p, r, s

\* Typing leaves text on both sides of the cursor.
LEMMA TypedIsText ==
  ASSUME NEW m \in Line, NEW stroke \in Symbols
  PROVE  Editor!Typed(m, stroke) \in Line
<1> DEFINE l == m.left
           r == m.right
           t == Editor!Typed(m, stroke)
<1>1. l \in Texts /\ r \in Texts /\ l \in Seq(Symbols) /\ r \in Seq(Symbols)
  BY DEF Line, Texts
<1>2. ASSUME NEW x \in Texts, NEW y \in Texts
      PROVE  [m EXCEPT !.left = x, !.right = y] \in Line
  BY <1>2 DEF Line
<1>3. [m EXCEPT !.left = l, !.right = r] = m
  BY DEF Line
<1>4. \A x : /\ [m EXCEPT !.left = x] = [m EXCEPT !.left = x, !.right = r]
             /\ [m EXCEPT !.right = x] = [m EXCEPT !.left = l, !.right = x]
  BY DEF Line
<1>5. <<>> \in Texts /\ l \o r \in Texts
  <2>1. l \o r \in Seq(Symbols)
    BY <1>1, ConcatProperties
  <2> QED
    BY <2>1 DEF Texts
<1>6. l # <<>> => /\ Editor!Front(l) \in Texts /\ Editor!Last(l) \in Symbols
                 /\ <<Editor!Last(l)>> \o r \in Texts
  <2> SUFFICES ASSUME l # <<>>
               PROVE  /\ Editor!Front(l) \in Texts /\ Editor!Last(l) \in Symbols
                      /\ <<Editor!Last(l)>> \o r \in Texts
    OBVIOUS
  <2>1. Editor!Front(l) \in Seq(Symbols)
    BY <1>1, FrontOf
  <2>2. Editor!Last(l) \in Symbols
    BY <1>1 DEF Editor!Last
  <2>3. <<Editor!Last(l)>> \in Seq(Symbols)
    BY <2>2
  <2>4. <<Editor!Last(l)>> \o r \in Seq(Symbols)
    BY <1>1, <2>3, ConcatProperties
  <2> QED
    BY <2>1, <2>2, <2>4 DEF Texts
<1>7. r # <<>> => Head(r) \in Symbols /\ Tail(r) \in Texts /\ Append(l, Head(r)) \in Texts
  <2> SUFFICES ASSUME r # <<>>
               PROVE  Head(r) \in Symbols /\ Tail(r) \in Texts
                      /\ Append(l, Head(r)) \in Texts
    OBVIOUS
  <2>1. Head(r) \in Symbols /\ Tail(r) \in Texts
    BY <1>1 DEF Texts
  <2> QED
    BY <1>1, <2>1, Longer
<1>8. Append(l, stroke) \in Texts /\ Editor!BeforeLastWord(l) \in Texts
  BY <1>1, Longer, WordsLeft
<1>9. ASSUME NEW x \in Texts PROVE [m EXCEPT !.left = x] \in Line
             /\ [m EXCEPT !.right = x] \in Line
  <2>1. [m EXCEPT !.left = x, !.right = r] \in Line /\ [m EXCEPT !.left = l,
        !.right = x] \in Line
    BY <1>1, <1>2, <1>9
  <2> QED
    BY <1>4, <2>1
<1>10. CASE stroke \in Editor!Chars
  <2>1. t = [m EXCEPT !.left = Append(l, stroke)]
    BY <1>10 DEF Editor!Typed, Editor!Chars
  <2> HIDE DEF l, r, t
  <2> QED
    BY <1>9, <1>8, <2>1 DEF t
<1>11. CASE stroke = "backspace"
  <2>1. t = (IF l # <<>> THEN [m EXCEPT !.left = Editor!Front(l)] ELSE m)
    BY <1>11 DEF Editor!Typed, Editor!Chars
  <2> HIDE DEF l, r, t
  <2>2. CASE l # <<>>
    BY <1>9, <1>6, <2>1, <2>2 DEF t
  <2>3. CASE l = <<>>
    BY <2>1, <2>3 DEF t
  <2> QED
    BY <2>2, <2>3 DEF t
<1>12. CASE stroke = "delete"
  <2>1. t = (IF r # <<>> THEN [m EXCEPT !.right = Tail(r)] ELSE m)
    BY <1>12 DEF Editor!Typed, Editor!Chars
  <2> HIDE DEF l, r, t
  <2>2. CASE r # <<>>
    BY <1>9, <1>7, <2>1, <2>2 DEF t
  <2>3. CASE r = <<>>
    BY <2>1, <2>3 DEF t
  <2> QED
    BY <2>2, <2>3 DEF t
<1>13. CASE stroke \in {"left", "ctrl_b"}
  <2>1. t = (IF l # <<>> THEN [m EXCEPT !.left = Editor!Front(l),
        !.right = <<Editor!Last(l)>> \o r] ELSE m)
    BY <1>13 DEF Editor!Typed, Editor!Chars
  <2> HIDE DEF l, r, t
  <2>2. CASE l # <<>>
    BY <1>2, <1>6, <2>1, <2>2 DEF t
  <2>3. CASE l = <<>>
    BY <2>1, <2>3 DEF t
  <2> QED
    BY <2>2, <2>3 DEF t
<1>14. CASE stroke \in {"right", "ctrl_f"}
  <2>1. t = (IF r # <<>> THEN [m EXCEPT !.left = Append(l, Head(r)),
        !.right = Tail(r)] ELSE m)
    BY <1>14 DEF Editor!Typed, Editor!Chars
  <2> HIDE DEF l, r, t
  <2>2. CASE r # <<>>
    BY <1>2, <1>7, <2>1, <2>2 DEF t
  <2>3. CASE r = <<>>
    BY <2>1, <2>3 DEF t
  <2> QED
    BY <2>2, <2>3 DEF t
<1>15. CASE stroke \in {"home", "ctrl_a"}
  <2>1. t = [m EXCEPT !.left = <<>>, !.right = l \o r]
    BY <1>15 DEF Editor!Typed, Editor!Chars
  <2> HIDE DEF l, r, t
  <2> QED
    BY <1>2, <1>5, <2>1 DEF t
<1>16. CASE stroke \in {"end", "ctrl_e"}
  <2>1. t = [m EXCEPT !.left = l \o r, !.right = <<>>]
    BY <1>16 DEF Editor!Typed, Editor!Chars
  <2> HIDE DEF l, r, t
  <2> QED
    BY <1>2, <1>5, <2>1 DEF t
<1>17. CASE stroke = "ctrl_u"
  <2>1. t = [m EXCEPT !.left = <<>>, !.right = <<>>]
    BY <1>17 DEF Editor!Typed, Editor!Chars
  <2> HIDE DEF l, r, t
  <2> QED
    BY <1>2, <1>5, <2>1 DEF t
<1>18. CASE stroke = "ctrl_k"
  <2>1. t = [m EXCEPT !.right = <<>>]
    BY <1>18 DEF Editor!Typed, Editor!Chars
  <2> HIDE DEF l, r, t
  <2> QED
    BY <1>9, <1>5, <2>1 DEF t
<1>19. CASE stroke = "ctrl_w"
  <2>1. t = [m EXCEPT !.left = Editor!BeforeLastWord(l)]
    BY <1>19 DEF Editor!Typed, Editor!Chars
  <2> HIDE DEF l, r, t
  <2> QED
    BY <1>9, <1>8, <2>1 DEF t
<1>20. ASSUME stroke \notin Editor!Chars, stroke \notin {"backspace", "delete", "left", "ctrl_b",
        "right", "ctrl_f", "home", "ctrl_a", "end", "ctrl_e", "ctrl_u", "ctrl_k", "ctrl_w"}
      PROVE  t \in Line
  BY <1>20 DEF Editor!Typed
<1> QED
  BY <1>10, <1>11, <1>12, <1>13, <1>14, <1>15, <1>16, <1>17, <1>18, <1>19, <1>20

\* A key struck at the end of the chain is one step more, and what is known
\* of the line it makes can be known of the step.
Struck(L, w, now, key, s) ==
  \E x \in Ahead : /\ Does(L, w, key, x) /\ x.part = <<>> /\ x.lines = w.lines
                   /\ x.sure = s /\ x.left = Editor!Typed(now, key).left
                   /\ x.right = Editor!Typed(now, key).right
LEMMA KeyStruck ==
  ASSUME NEW L, NEW w \in Ahead, NEW now \in Line, NEW key \in Symbols, key # "enter",
         now.sure => w.sure /\ w.left = now.left /\ w.right = now.right,
         NEW s \in BOOLEAN, s => now.sure /\ key \in Plain
  PROVE  Struck(L, w, now, key, s)
<1> DEFINE t == Editor!Typed(now, key)
           x == [part |-> <<>>, left |-> t.left, right |-> t.right, sure |-> s,
             lines |-> w.lines]
<1>1. t.left \in Texts /\ t.right \in Texts
  BY TypedIsText DEF Line
<1>2. s => now = View(w)
  BY DEF View, Line
<1> HIDE DEF t
<1>3. x \in Ahead /\ x.part = <<>> /\ x.lines = w.lines /\ x.sure = s
      /\ x.left = t.left /\ x.right = t.right
  BY <1>1 DEF Ahead, Texts
<1> HIDE DEF x
<1>4. Does(L, w, key, x)
  BY <1>2, <1>3 DEF Does, t
<1> QED
  BY <1>3, <1>4 DEF t, Struck

\* Enter struck there ends the line.
LEMMA EnterStruck ==
  ASSUME NEW L \in Seq(Line), NEW w \in Ahead, NEW now \in Line, w.lines = Len(L),
         now.sure => w.sure /\ w.left = now.left /\ w.right = now.right
  PROVE  \E x \in Ahead :
            /\ Does(Append(L, now), w, "enter", x) /\ x.part = <<>> /\ x.lines = w.lines + 1
            /\ x.sure = TRUE /\ x.left = <<>> /\ x.right = <<>>
<1> DEFINE x == [part |-> <<>>, left |-> <<>>, right |-> <<>>, sure |-> TRUE,
                 lines |-> w.lines + 1]
<1>1. x \in Ahead /\ x.part = <<>> /\ x.lines = w.lines + 1 /\ x.sure = TRUE
      /\ x.left = <<>> /\ x.right = <<>>
  BY DEF Ahead, Texts
<1> HIDE DEF x
<1>2. w.lines + 1 \in DOMAIN Append(L, now) /\ Append(L, now)[w.lines + 1] = now
  OBVIOUS
<1>3. Does(Append(L, now), w, "enter", x)
  BY <1>1, <1>2 DEF Does
<1> QED
  BY <1>1, <1>3

\* A byte that is a key by itself.
LEMMA ReadAtOnce ==
  ASSUME NEW b \in Symbols, console = "nt" \/ b \notin {"esc", "C3"}
  PROVE  Editor!Complete(Append(<<>>, b)) /\ Editor!KeyOf(Append(<<>>, b)) = b
<1>1. Append(<<>>, b) = <<b>> /\ <<b>>[1] = b /\ Len(<<b>>) = 1
  OBVIOUS
<1>2. <<b>> # <<"C3", "A9">>
  OBVIOUS
<1>3. console = "nt" \/ (b # "esc" /\ <<b>> # <<"C3">>)
  OBVIOUS
<1> QED
  BY <1>1, <1>2, <1>3 DEF Editor!Complete, Editor!KeyOf

\* Whatever the byte and whatever was begun, there is a step; nothing is
\* known of the line it leads to.
LEMMA AnyByte ==
  ASSUME console \in {"posix", "nt"},
         NEW L \in Seq(Line), NEW w \in Ahead, NEW b \in Symbols, Begun(w.part),
         w.lines <= Len(L),
         b = "enter" => w.lines + 1 \in DOMAIN L /\ ~L[w.lines + 1].sure
  PROVE  \E x \in Ahead :
            /\ Reads(L, w, b, x) /\ ~x.sure /\ Begun(x.part)
            /\ x.lines \in Nat /\ w.lines <= x.lines /\ x.lines <= Len(L)
            /\ b # "enter" => x.lines = w.lines
            /\ x.part = IF Editor!Complete(Append(w.part, b)) THEN <<>>
               ELSE Append(w.part, b)
<1> DEFINE bytes == Append(w.part, b)
           key == Editor!KeyOf(bytes)
           n == IF Editor!Complete(bytes) /\ key = "enter" THEN w.lines + 1 ELSE w.lines
           p == IF Editor!Complete(bytes) THEN <<>> ELSE bytes
           x == [part |-> p, left |-> <<>>, right |-> <<>>, sure |-> FALSE, lines |-> n]
<1>1. w.part \in Texts /\ w.lines \in Nat
  BY DEF Ahead
<1>2. bytes \in Texts /\ bytes # <<>> /\ <<>> \in Texts
  BY <1>1, Longer DEF Texts
<1>3. ASSUME key = "enter" PROVE b = "enter"
  <2>1. ~(console = "posix" /\ bytes[1] = "esc") /\ bytes[1] = "enter"
    BY <1>3, EscapesAreNoEnter DEF Editor!KeyOf
  <2>2. CASE w.part = <<>>
    BY <2>1, <2>2
  <2>3. CASE w.part # <<>>
    <3>1. bytes[1] = w.part[1]
      BY <1>1, <2>3 DEF Texts
    <3>2. console = "posix" /\ (w.part[1] = "esc" \/ w.part = <<"C3">>)
      BY <2>3 DEF Begun, Editor!Complete
    <3> QED
      BY <2>1, <3>1, <3>2
  <2> QED
    BY <2>2, <2>3
<1> HIDE DEF bytes, key
<1>4. /\ n \in Nat /\ w.lines <= n /\ n <= Len(L) /\ (b # "enter" => n = w.lines)
  BY <1>1, <1>3
<1>5. p \in Texts /\ Begun(p)
  BY <1>2 DEF Begun, Editor!Complete
<1>6. /\ x \in Ahead /\ x.part = p /\ x.lines = n /\ x.sure = FALSE
      /\ x.left = <<>> /\ x.right = <<>>
  BY <1>2, <1>4, <1>5 DEF Ahead
<1>7. Editor!Complete(bytes) /\ key = "enter" =>
        n = w.lines + 1 /\ n \in DOMAIN L /\ ~L[n].sure
  BY <1>3
<1>8. ~(Editor!Complete(bytes) /\ key = "enter") => n = w.lines
  OBVIOUS
<1>9. p = IF Editor!Complete(bytes) THEN <<>> ELSE bytes
  OBVIOUS
<1> HIDE DEF n, x, p
<1>10. Reads(L, w, b, x)
  <2>1. CASE Editor!Complete(bytes)
    <3>1. Does(L, w, key, x)
      BY <1>6, <1>7, <1>8, <2>1 DEF Does
    <3> QED
      BY <1>6, <1>9, <2>1, <3>1 DEF Reads, bytes, key
  <2>2. CASE ~Editor!Complete(bytes)
    BY <1>6, <1>8, <1>9, <2>2 DEF Reads, bytes
  <2> QED
    BY <2>1, <2>2
<1> QED
  BY <1>4, <1>5, <1>6, <1>9, <1>10 DEF bytes

\* Typing does not change what is known of a line.
LEMMA TypedKeepsDoubt ==
  ASSUME NEW m \in Line, NEW stroke \in Symbols
  PROVE  Editor!Typed(m, stroke).sure = m.sure
BY DEF Editor!Typed, Line

\* Three bytes after an Esc and "[", as a named key sends them: the chain goes
\* on, and ends between two keys if it did before.
LEMMA SequenceStruck ==
  ASSUME console = "posix",
         NEW L \in Seq(Line), NEW q \in Texts, NEW v \in Ahead, NEW w \in Ahead,
         Leads(L, v, q, w), Begun(w.part), w.lines <= Len(L),
         NEW c \in Symbols \ {"enter", "esc", "C3"}
  PROVE  \E x \in Ahead :
            /\ Leads(L, v, Append(Append(Append(q, "esc"), "["), c), x)
            /\ ~x.sure /\ Begun(x.part) /\ x.lines = w.lines
            /\ (w.part = <<>> => x.part = <<>>)
<1>0. "esc" \in Symbols /\ "[" \in Symbols /\ c \in Symbols
  BY DEF Symbols, Editor!Control, Editor!Finals
<1>1. PICK x1 \in Ahead :
        /\ Reads(L, w, "esc", x1) /\ Begun(x1.part) /\ x1.lines = w.lines
        /\ x1.part = IF Editor!Complete(Append(w.part, "esc")) THEN <<>>
           ELSE Append(w.part, "esc")
  BY <1>0, AnyByte
<1>2. PICK x2 \in Ahead :
        /\ Reads(L, x1, "[", x2) /\ Begun(x2.part) /\ x2.lines = w.lines
        /\ x2.part = IF Editor!Complete(Append(x1.part, "[")) THEN <<>>
           ELSE Append(x1.part, "[")
  BY <1>0, <1>1, AnyByte
<1>3. PICK x \in Ahead :
        /\ Reads(L, x2, c, x) /\ ~x.sure /\ Begun(x.part) /\ x.lines = w.lines
        /\ x.part = IF Editor!Complete(Append(x2.part, c)) THEN <<>> ELSE Append(x2.part, c)
  BY <1>0, <1>2, AnyByte
<1>4. Append(q, "esc") \in Texts /\ Append(Append(q, "esc"), "[") \in Texts
  BY <1>0, Longer
<1>5. Leads(L, v, Append(q, "esc"), x1)
  BY <1>0, <1>1, LeadsOn
<1>6. Leads(L, v, Append(Append(q, "esc"), "["), x2)
  BY <1>0, <1>2, <1>4, <1>5, LeadsOn
<1>7. Leads(L, v, Append(Append(Append(q, "esc"), "["), c), x)
  BY <1>0, <1>3, <1>4, <1>6, LeadsOn
<1>8. ASSUME w.part = <<>> PROVE x.part = <<>>
  <2>1. Append(<<>>, "esc") = <<"esc">> /\ ~Editor!Complete(<<"esc">>)
    BY DEF Editor!Complete
  <2>2. x1.part = <<"esc">>
    BY <1>1, <1>8, <2>1
  <2>3. Append(<<"esc">>, "[") = <<"esc", "[">> /\ Editor!Complete(<<"esc", "[">>)
    <3>1. Editor!Last(<<"esc", "[">>) = "["
      BY DEF Editor!Last
    <3>2. <<"esc", "[">>[1] = "esc" /\ Len(<<"esc", "[">>) > 1
      OBVIOUS
    <3>3. Append(<<"esc">>, "[") = <<"esc", "[">>
      BY OneAndAnother
    <3> QED
      BY <3>1, <3>2, <3>3 DEF Editor!Complete, Editor!Finals
  <2>4. x2.part = <<>>
    BY <1>2, <2>2, <2>3
  <2>5. Editor!Complete(Append(<<>>, c))
    BY <1>0, ReadAtOnce
  <2> QED
    BY <1>3, <2>4, <2>5
<1> QED
  BY <1>3, <1>7, <1>8

\* What a stroke means.
Means(m, stroke, m2) ==
  /\ m2.apart = (m.apart /\ ~(console = "posix" /\ stroke = "esc"))
  /\ IF stroke = "enter"
     THEN /\ m2.lines = Append(m.lines, m.now) /\ m2.now.sure = m2.apart
          /\ m2.now.left = <<>> /\ m2.now.right = <<>>
     ELSE /\ m2.lines = m.lines
          /\ m2.now.sure = (m.now.sure /\ m2.apart /\ ~Editor!Unclear(stroke))
          /\ m2.now.left = Editor!Typed(m.now, stroke).left
          /\ m2.now.right = Editor!Typed(m.now, stroke).right

\* A character of two bytes is a key when the second has come.
LEMMA TwoBytes ==
  ASSUME console = "posix"
  PROVE  /\ Append(<<>>, "C3") = <<"C3">> /\ ~Editor!Complete(<<"C3">>)
         /\ Append(<<"C3">>, "A9") = <<"C3", "A9">> /\ Editor!Complete(<<"C3", "A9">>)
         /\ Editor!KeyOf(<<"C3", "A9">>) = "e2"
<1>1. <<"C3">>[1] = "C3" /\ <<"C3", "A9">>[1] = "C3" /\ Len(<<"C3">>) = 1
      /\ Len(<<"C3", "A9">>) = 2
  OBVIOUS
<1>2. <<"C3", "A9">> # <<"C3">>
  BY <1>1
<1>3. Append(<<>>, "C3") = <<"C3">> /\ Append(<<"C3">>, "A9") = <<"C3", "A9">>
  BY OneAndAnother
<1> QED
  BY <1>1, <1>2, <1>3 DEF Editor!Complete, Editor!KeyOf

\* A stroke makes the chain longer, and it ends at what the operator means
\* then.
LEMMA StrokeLeads ==
  ASSUME console \in {"posix", "nt"},
         NEW m \in [now : Line, lines : Seq(Line), apart : BOOLEAN],
         console = "nt" => m.apart,
         NEW stroke \in Editor!Chars \cup Editor!Escaped \cup Editor!Control,
         NEW q \in Texts, NEW v \in Ahead, NEW w \in Ahead,
         Leads(m.lines, v, q, w), Begun(w.part), Meets(m, w),
         NEW m2, Means(m, stroke, m2), NEW q2, Sends(q,
           IF console = "nt" THEN <<stroke>> ELSE Editor!Bytes(stroke), q2)
  PROVE  \E x \in Ahead : Leads(m2.lines, v, q2, x) /\ Begun(x.part) /\ Meets(m2, x)
<1>0. /\ stroke \in Symbols /\ m.now \in Line /\ m.lines \in Seq(Line)
         /\ m.apart \in BOOLEAN
      /\ m.now.sure \in BOOLEAN /\ w.lines \in Nat /\ Len(m.lines) \in Nat
      /\ DOMAIN m.lines = 1..Len(m.lines)
  BY DEF Symbols, Line, Ahead
<1>1. /\ w.lines <= Len(m.lines)
      /\ m.now.sure => w.sure /\ w.left = m.now.left /\ w.right = m.now.right
      /\ m.apart => w.part = <<>> /\ w.lines = Len(m.lines)
      /\ ~m.apart => /\ ~m.now.sure
                     /\ \A i \in DOMAIN m.lines : i > w.lines => ~m.lines[i].sure
  BY DEF Meets
<1>m. /\ m2.apart = (m.apart /\ ~(console = "posix" /\ stroke = "esc"))
      /\ stroke = "enter" =>
            /\ m2.lines = Append(m.lines, m.now) /\ m2.now.sure = m2.apart
            /\ m2.now.left = <<>> /\ m2.now.right = <<>>
      /\ stroke # "enter" =>
            /\ m2.lines = m.lines
            /\ m2.now.sure = (m.now.sure /\ m2.apart /\ ~Editor!Unclear(stroke))
            /\ m2.now.left = Editor!Typed(m.now, stroke).left
            /\ m2.now.right = Editor!Typed(m.now, stroke).right
  BY DEF Means
<1>2. Begun(<<>>)
  BY DEF Begun
<1>3. \A i \in DOMAIN m.lines : i > w.lines => ~m.lines[i].sure
  BY <1>0, <1>1
<1>4. ASSUME console = "nt" \/ stroke \notin Editor!Escaped \cup {"e2"}
      PROVE  q2 = Append(q, stroke)
  <2>1. Editor!Bytes(stroke) = <<stroke>> \/ console = "nt"
    BY <1>4 DEF Editor!Bytes, Editor!Escaped
  <2>2. Sends(q, <<stroke>>, q2)
    BY <2>1
  <2> QED
    BY <2>2, OneByOne
<1>5. CASE m.apart /\ stroke = "enter"
  <2>1. PICK x \in Ahead :
          /\ Does(Append(m.lines, m.now), w, "enter", x) /\ x.part = <<>>
             /\ x.lines = w.lines + 1
          /\ x.sure = TRUE /\ x.left = <<>> /\ x.right = <<>>
    BY <1>0, <1>1, <1>5, EnterStruck
  <2>2. Editor!Complete(Append(<<>>, "enter"))
        /\ Editor!KeyOf(Append(<<>>, "enter")) = "enter"
    BY <1>0, <1>5, ReadAtOnce
  <2>3. Reads(m2.lines, w, "enter", x)
    BY <1>m, <1>1, <1>5, <2>1, <2>2 DEF Reads
  <2>4. Leads(m2.lines, v, q, w)
    <3>1. Leads(Append(m.lines, m.now), v, q, w)
      BY <1>0, LeadsLonger
    <3> QED
      BY <1>m, <1>5, <3>1
  <2>5. Leads(m2.lines, v, q2, x)
    <3>1. q2 = Append(q, "enter")
      BY <1>4, <1>5 DEF Editor!Escaped
    <3> QED
      BY <1>0, <1>5, <2>3, <2>4, <3>1, LeadsOn
  <2>6. Len(m2.lines) = Len(m.lines) + 1
    BY <1>m, <1>0, <1>5
  <2>7. Meets(m2, x)
    BY <1>m, <1>0, <1>1, <1>5, <2>1, <2>6 DEF Meets
  <2> QED
    BY <1>2, <2>1, <2>5, <2>7
<1>6. CASE ~m.apart /\ stroke = "enter"
  <2>1. /\ m2.lines = Append(m.lines, m.now) /\ m2.lines \in Seq(Line)
        /\ Len(m2.lines) = Len(m.lines) + 1 /\ DOMAIN m2.lines = 1..Len(m.lines) + 1
        /\ m2.lines[Len(m.lines) + 1] = m.now
        /\ \A i \in 1..Len(m.lines) : m2.lines[i] = m.lines[i]
    <3>1. PICK L : L = Append(m.lines, m.now)
      OBVIOUS
    <3>2. /\ L \in Seq(Line) /\ Len(L) = Len(m.lines) + 1 /\ L[Len(m.lines) + 1] = m.now
          /\ \A i \in 1..Len(m.lines) : L[i] = m.lines[i]
      BY <1>0, <3>1, AppendProperties
    <3>3. m2.lines = L /\ DOMAIN L = 1..Len(L)
      BY <1>m, <1>6, <3>1, <3>2
    <3> QED
      BY <1>0, <3>1, <3>2, <3>3
  <2>2. \A i \in DOMAIN m2.lines : i > w.lines => ~m2.lines[i].sure
    <3> SUFFICES ASSUME NEW i \in DOMAIN m2.lines, i > w.lines PROVE ~m2.lines[i].sure
      OBVIOUS
    <3>1. CASE i = Len(m.lines) + 1
      BY <1>1, <1>6, <2>1, <3>1
    <3>2. CASE i # Len(m.lines) + 1
      <4>1. i \in 1..Len(m.lines)
        BY <1>0, <2>1, <3>2
      <4> QED
        BY <1>0, <1>3, <2>1, <4>1
    <3> QED
      BY <3>1, <3>2
  <2>3. w.lines + 1 \in DOMAIN m2.lines /\ w.lines + 1 > w.lines /\ w.lines <= Len(m2.lines)
    BY <1>0, <1>1, <2>1
  <2>4. "enter" \in Symbols
    BY <1>0, <1>6
  <2>5. PICK x \in Ahead :
          /\ Reads(m2.lines, w, "enter", x) /\ Begun(x.part)
          /\ x.lines \in Nat /\ w.lines <= x.lines /\ x.lines <= Len(m2.lines)
    BY <2>1, <2>2, <2>3, <2>4, AnyByte
  <2>6. Leads(m2.lines, v, q2, x)
    <3>1. Leads(m2.lines, v, q, w)
      <4>1. Leads(Append(m.lines, m.now), v, q, w)
        BY <1>0, LeadsLonger
      <4> QED
        BY <2>1, <4>1
    <3>2. q2 = Append(q, "enter")
      BY <1>4, <1>6 DEF Editor!Escaped
    <3> QED
      BY <2>4, <2>5, <3>1, <3>2, LeadsOn
  <2>7. Meets(m2, x)
    <3>1. \A i \in DOMAIN m2.lines : i > x.lines => ~m2.lines[i].sure
      BY <1>0, <2>1, <2>2, <2>5
    <3> QED
      BY <1>m, <1>6, <2>5, <3>1 DEF Meets
  <2> QED
    BY <2>5, <2>6, <2>7
<1>7. CASE /\ m.apart /\ stroke # "enter" /\ (console = "nt" \/ stroke # "esc")
           /\ (console = "nt" \/ stroke \notin Editor!Escaped \cup {"e2"})
  <2>1. m2.now.sure => m.now.sure /\ stroke \in Plain
    BY <1>m, <1>7 DEF Editor!Unclear, Plain
  <2>2. m2.now.sure \in BOOLEAN
    BY <1>m, <1>0, <1>7
  <2>3. PICK x \in Ahead :
          /\ Does(m.lines, w, stroke, x) /\ x.part = <<>> /\ x.lines = w.lines
          /\ x.sure = m2.now.sure /\ x.left = Editor!Typed(m.now, stroke).left
          /\ x.right = Editor!Typed(m.now, stroke).right
    <3>1. Struck(m.lines, w, m.now, stroke, m2.now.sure)
      BY <1>0, <1>1, <1>7, <2>1, <2>2, KeyStruck
    <3> QED
      BY <3>1 DEF Struck
  <2>4. Editor!Complete(Append(<<>>, stroke)) /\ Editor!KeyOf(Append(<<>>, stroke)) = stroke
    <3>1. stroke # "C3"
      BY DEF Editor!Chars, Editor!Escaped, Editor!Control
    <3> QED
      BY <1>0, <1>7, <3>1, ReadAtOnce
  <2>5. Reads(m.lines, w, stroke, x)
    BY <1>1, <1>7, <2>3, <2>4 DEF Reads
  <2>6. Leads(m2.lines, v, q2, x)
    <3>1. Leads(m.lines, v, Append(q, stroke), x)
      BY <1>0, <2>5, LeadsOn
    <3> QED
      BY <1>m, <1>4, <1>7, <3>1
  <2>7. Meets(m2, x)
    BY <1>m, <1>0, <1>1, <1>7, <2>3 DEF Meets
  <2> QED
    BY <1>2, <2>3, <2>6, <2>7
<1>8. CASE /\ ~m2.apart /\ stroke # "enter"
           /\ (console = "nt" \/ stroke \notin Editor!Escaped \cup {"e2"})
  <2>1. PICK x \in Ahead : Reads(m.lines, w, stroke, x) /\ Begun(x.part)
                           /\ x.lines = w.lines
    BY <1>0, <1>1, <1>8, AnyByte
  <2>2. Leads(m2.lines, v, q2, x)
    <3>1. Leads(m.lines, v, Append(q, stroke), x)
      BY <1>0, <2>1, LeadsOn
    <3> QED
      BY <1>m, <1>4, <1>8, <3>1
  <2>3. Meets(m2, x)
    BY <1>m, <1>1, <1>3, <1>8, <2>1 DEF Meets
  <2> QED
    BY <2>1, <2>2, <2>3
<1>9. CASE console = "posix" /\ stroke = "e2" /\ m.apart
  <2>0. "C3" \in Symbols /\ "A9" \in Symbols
    BY DEF Symbols
  <2>1. q2 = Append(Append(q, "C3"), "A9")
    <3>1. Sends(q, <<"C3", "A9">>, q2)
      <4>1. Editor!Bytes("e2") = <<"C3", "A9">>
        BY DEF Editor!Bytes, Editor!Escaped
      <4> QED
        BY <1>9, <4>1
    <3> QED
      BY <3>1, OneByOne
  <2>2. /\ Append(<<>>, "C3") = <<"C3">> /\ ~Editor!Complete(<<"C3">>)
        /\ Append(<<"C3">>, "A9") = <<"C3", "A9">> /\ Editor!Complete(<<"C3", "A9">>)
        /\ Editor!KeyOf(<<"C3", "A9">>) = "e2"
    BY <1>9, TwoBytes
  <2> DEFINE y == [part |-> <<"C3">>, left |-> w.left, right |-> w.right,
                   sure |-> w.sure, lines |-> w.lines]
  <2>3. /\ y \in Ahead /\ y.part = <<"C3">> /\ y.left = w.left /\ y.right = w.right
        /\ y.sure = w.sure /\ y.lines = w.lines
    <3>1. <<"C3">> \in Texts
      BY <2>0 DEF Texts
    <3> QED
      BY <3>1 DEF Ahead
  <2> HIDE DEF y
  <2>4. Reads(m.lines, w, "C3", y)
    BY <1>1, <1>9, <2>2, <2>3 DEF Reads
  <2>5. "e2" \in Plain /\ "e2" \in Symbols
    BY <1>0, <1>9 DEF Plain, Editor!Chars
  <2>6. m2.now.sure \in BOOLEAN /\ (m2.now.sure => m.now.sure)
    BY <1>m, <1>0, <1>9
  <2>7. PICK x \in Ahead :
          /\ Does(m.lines, y, "e2", x) /\ x.part = <<>> /\ x.lines = y.lines
          /\ x.sure = m2.now.sure /\ x.left = Editor!Typed(m.now, "e2").left
          /\ x.right = Editor!Typed(m.now, "e2").right
    <3>1. Struck(m.lines, y, m.now, "e2", m2.now.sure)
      BY <1>0, <1>1, <2>3, <2>5, <2>6, KeyStruck
    <3> QED
      BY <3>1 DEF Struck
  <2>8. Reads(m.lines, y, "A9", x)
    BY <2>2, <2>3, <2>7 DEF Reads
  <2>9. Leads(m.lines, v, Append(q, "C3"), y)
    BY <2>0, <2>3, <2>4, LeadsOn
  <2>10. Leads(m.lines, v, q2, x)
    <3>1. Append(q, "C3") \in Texts
      BY <2>0, Longer
    <3> QED
      BY <2>0, <2>1, <2>8, <2>9, <3>1, LeadsOn
  <2>11. Meets(m2, x)
    BY <1>m, <1>0, <1>1, <1>9, <2>3, <2>7 DEF Meets
  <2> QED
    BY <1>m, <1>2, <1>9, <2>7, <2>10, <2>11
<1>10. CASE console = "posix" /\ stroke = "e2" /\ ~m.apart
  <2>0. "C3" \in Symbols /\ "A9" \in Symbols
    BY DEF Symbols
  <2>1. q2 = Append(Append(q, "C3"), "A9")
    <3>1. Sends(q, <<"C3", "A9">>, q2)
      <4>1. Editor!Bytes("e2") = <<"C3", "A9">>
        BY DEF Editor!Bytes, Editor!Escaped
      <4> QED
        BY <1>10, <4>1
    <3> QED
      BY <3>1, OneByOne
  <2>2. PICK y \in Ahead : Reads(m.lines, w, "C3", y) /\ Begun(y.part) /\ y.lines = w.lines
    BY <1>0, <1>1, <2>0, AnyByte
  <2>3. PICK x \in Ahead : Reads(m.lines, y, "A9", x) /\ Begun(x.part) /\ x.lines = w.lines
    BY <1>0, <1>1, <2>0, <2>2, AnyByte
  <2>4. Leads(m.lines, v, q2, x)
    <3>1. Append(q, "C3") \in Texts
      BY <2>0, Longer
    <3>2. Leads(m.lines, v, Append(q, "C3"), y)
      BY <2>0, <2>2, LeadsOn
    <3> QED
      BY <2>0, <2>1, <2>3, <3>1, <3>2, LeadsOn
  <2>5. Meets(m2, x)
    BY <1>m, <1>1, <1>3, <1>10, <2>3 DEF Meets
  <2> QED
    BY <1>m, <1>10, <2>3, <2>4, <2>5
<1>11. CASE console = "posix" /\ stroke \in Editor!Escaped
  <2>1. stroke # "enter" /\ stroke # "esc" /\ ~m2.now.sure /\ m2.apart = m.apart
        /\ m2.lines = m.lines
    <3>1. stroke # "enter" /\ stroke # "esc"
      BY <1>11 DEF Editor!Escaped
    <3>2. Editor!Unclear(stroke)
      BY <1>11 DEF Editor!Unclear
    <3> QED
      BY <1>m, <1>0, <3>1, <3>2
  <2>2. ASSUME NEW x \in Ahead, Leads(m.lines, v, q2, x), Begun(x.part), x.lines = w.lines,
               w.part = <<>> => x.part = <<>>
        PROVE  Leads(m2.lines, v, q2, x) /\ Begun(x.part) /\ Meets(m2, x)
    BY <1>m, <1>1, <2>1, <2>2 DEF Meets
  <2>3. CASE stroke # "delete"
    <3> DEFINE c == Editor!Final(stroke)
    <3>1. c \in Symbols \ {"enter", "esc", "C3"}
      <4>1. c \in {"A", "B", "C", "D", "F", "H", "~"}
        BY DEF Editor!Final
      <4> QED
        BY <4>1 DEF Symbols, Editor!Finals
    <3>2. q2 = Append(Append(Append(q, "esc"), "["), c)
      <4>1. Editor!Bytes(stroke) = <<"esc", "[", c>>
        BY <1>11, <2>3 DEF Editor!Bytes, Editor!Escaped
      <4> HIDE DEF c
      <4>2. Sends(q, <<"esc", "[", c>>, q2)
        BY <1>11, <4>1
      <4> QED
        BY <4>2, OneByOne
    <3> HIDE DEF c
    <3>3. PICK x \in Ahead : /\ Leads(m.lines, v, q2, x)
                             /\ Begun(x.part) /\ x.lines = w.lines
                             /\ (w.part = <<>> => x.part = <<>>)
      BY <1>0, <1>1, <1>11, <3>1, <3>2, SequenceStruck
    <3> QED
      BY <2>2, <3>3
  <2>4. CASE stroke = "delete"
    <3>0. "3" \in Symbols \ {"enter", "esc", "C3"} /\ "~" \in Symbols
          /\ "esc" \in Symbols /\ "[" \in Symbols
      BY DEF Symbols, Editor!Finals, Editor!Control
    <3> DEFINE q1 == Append(Append(Append(q, "esc"), "["), "3")
    <3>1. q2 = Append(q1, "~")
      <4>1. Editor!Bytes(stroke) = <<"esc", "[", "3", "~">>
        BY <2>4 DEF Editor!Bytes
      <4>2. Sends(q, <<"esc", "[", "3", "~">>, q2)
        BY <1>11, <4>1
      <4> QED
        BY <4>2, OneByOne
    <3>2. q1 \in Texts
      <4>1. Append(q, "esc") \in Texts
        BY <3>0, Longer
      <4>2. Append(Append(q, "esc"), "[") \in Texts
        BY <3>0, <4>1, Longer
      <4> QED
        BY <3>0, <4>2, Longer
    <3>3. PICK y \in Ahead : /\ Leads(m.lines, v, q1, y)
                             /\ Begun(y.part) /\ y.lines = w.lines
                             /\ (w.part = <<>> => y.part = <<>>)
      BY <1>0, <1>1, <1>11, <3>0, SequenceStruck
    <3> HIDE DEF q1
    <3>4. PICK x \in Ahead :
            /\ Reads(m.lines, y, "~", x) /\ Begun(x.part) /\ x.lines = w.lines
            /\ x.part = IF Editor!Complete(Append(y.part, "~")) THEN <<>>
               ELSE Append(y.part, "~")
      BY <1>0, <1>1, <3>0, <3>3, AnyByte
    <3>5. Leads(m.lines, v, q2, x)
      BY <3>0, <3>1, <3>2, <3>3, <3>4, LeadsOn
    <3>6. w.part = <<>> => x.part = <<>>
      <4>1. Editor!Complete(Append(<<>>, "~"))
        BY <3>0, ReadAtOnce
      <4> QED
        BY <3>3, <3>4, <4>1
    <3> QED
      BY <2>2, <3>4, <3>5, <3>6
  <2> QED
    BY <2>3, <2>4
<1>12. \/ m.apart /\ stroke = "enter"
       \/ ~m.apart /\ stroke = "enter"
       \/ /\ m.apart /\ stroke # "enter" /\ (console = "nt" \/ stroke # "esc")
          /\ (console = "nt" \/ stroke \notin Editor!Escaped \cup {"e2"})
       \/ /\ ~m2.apart /\ stroke # "enter"
          /\ (console = "nt" \/ stroke \notin Editor!Escaped \cup {"e2"})
       \/ console = "posix" /\ stroke = "e2" /\ m.apart
       \/ console = "posix" /\ stroke = "e2" /\ ~m.apart
       \/ console = "posix" /\ stroke \in Editor!Escaped
  BY <1>m
<1> QED
  BY <1>5, <1>6, <1>7, <1>8, <1>9, <1>10, <1>11, <1>12

\* A key is struck: the chain of lines ahead gets longer.
LEMMA StrikeKeeps ==
  EditorInv /\ (\E stroke \in Strokes : Editor!Strike(stroke)) => EditorInv'
<1> SUFFICES ASSUME EditorInv, NEW stroke \in Strokes, Editor!Strike(stroke)
  PROVE EditorInv'
  OBVIOUS
<1> DEFINE bytes == IF console = "nt" THEN <<stroke>> ELSE Editor!Bytes(stroke)
<1>1. /\ wire' = wire \o bytes
      /\ console' = console /\ partial' = partial /\ buf' = buf /\ pos' = pos
      /\ history' = history /\ histIdx' = histIdx /\ draft' = draft /\ returned' = returned
  BY DEF Editor!Strike, Editor!line
<1>2. EditorTypes /\ Returned
  BY DEF EditorInv
<1>3. stroke \in Editor!Chars \cup Editor!Escaped \cup Editor!Control
  BY PartsAssumption DEF Editor!EditorAssumption
<1>4. stroke \in Symbols
  BY <1>3 DEF Symbols
<1>5. PICK m : m = meant
  OBVIOUS
<1>6. /\ m \in [now : Line, lines : Seq(Line), apart : BOOLEAN] /\ wire \in Texts
      /\ console \in {"posix", "nt"} /\ (console = "nt" => m.apart)
      /\ m.now \in Line /\ m.lines \in Seq(Line) /\ m.apart \in BOOLEAN
         /\ m.now.sure \in BOOLEAN
  BY <1>2, <1>5 DEF EditorTypes, Line
<1>7. PICK t : t = Editor!Typed(m.now, stroke) /\ t \in Line
  BY <1>4, <1>6, TypedIsText
<1>8. PICK apart \in BOOLEAN : apart = (m.apart /\ ~(console = "posix" /\ stroke = "esc"))
  OBVIOUS
<1>9. PICK sure \in BOOLEAN : sure = (t.sure /\ apart /\ ~Editor!Unclear(stroke))
  OBVIOUS
<1>10. PICK m2 : m2 = meant'
  OBVIOUS
<1>11. m2 = IF stroke = "enter"
            THEN [now |-> [Editor!NoLine EXCEPT !.sure = apart],
                  lines |-> Append(m.lines, m.now), apart |-> apart]
            ELSE [m EXCEPT !.now = [t EXCEPT !.sure = sure], !.apart = apart]
  BY <1>5, <1>7, <1>8, <1>9, <1>10 DEF Editor!Strike
<1>12. t.sure = m.now.sure
  BY <1>4, <1>6, <1>7, TypedKeepsDoubt
<1>13. /\ m2 \in [now : Line, lines : Seq(Line), apart : BOOLEAN] /\ Means(m, stroke, m2)
       /\ Len(m2.lines) >= Len(m.lines)
       /\ \A i \in 1..Len(m.lines) : m2.lines[i] = m.lines[i]
  <2>1. CASE stroke = "enter"
    <3>1. /\ m2 = [now |-> m2.now, lines |-> m2.lines, apart |-> apart] /\ m2.apart = apart
          /\ m2.now = [left |-> <<>>, right |-> <<>>, sure |-> apart]
          /\ m2.lines = Append(m.lines, m.now)
      BY <1>11, <2>1 DEF Editor!NoLine
    <3>2. /\ m2.lines \in Seq(Line) /\ Len(m2.lines) = Len(m.lines) + 1
          /\ \A i \in 1..Len(m.lines) : m2.lines[i] = m.lines[i]
      BY <1>6, <3>1, AppendProperties
    <3>3. m2.now \in Line
      BY <3>1 DEF Line, Texts
    <3>4. Means(m, stroke, m2)
      BY <1>8, <2>1, <3>1 DEF Means
    <3>5. Len(m.lines) \in Nat
      BY <1>6
    <3>6. m2 \in [now : Line, lines : Seq(Line), apart : BOOLEAN]
      BY <3>1, <3>2, <3>3
    <3>7. Len(m2.lines) >= Len(m.lines)
      BY <3>2, <3>5
    <3> QED
      BY <3>2, <3>4, <3>6, <3>7
  <2>2. CASE stroke # "enter"
    <3>1. /\ m2 = [now |-> m2.now, lines |-> m2.lines, apart |-> apart] /\ m2.apart = apart
          /\ m2.now = [t EXCEPT !.sure = sure] /\ m2.lines = m.lines
      BY <1>6, <1>11, <2>2
    <3>2. m2.now \in Line /\ m2.now.sure = sure /\ m2.now.left = t.left
          /\ m2.now.right = t.right
      BY <1>7, <3>1 DEF Line
    <3>3. Means(m, stroke, m2)
      BY <1>7, <1>8, <1>9, <1>12, <2>2, <3>1, <3>2 DEF Means
    <3>4. Len(m.lines) \in Nat
      BY <1>6
    <3> QED
      BY <1>6, <3>1, <3>2, <3>3, <3>4
  <2> QED
    BY <2>1, <2>2
<1>14. PICK v \in Ahead, w \in Ahead :
         Holds(v) /\ Leads(m.lines, v, wire, w) /\ Begun(w.part) /\ Meets(m, w)
  BY <1>5 DEF EditorInv
<1>15. PICK q2 : q2 = wire' /\ Sends(wire, bytes, q2)
  BY <1>1 DEF Sends
<1>16. PICK x \in Ahead : Leads(m2.lines, v, q2, x) /\ Begun(x.part) /\ Meets(m2, x)
  <2> \E x \in Ahead : Leads(m2.lines, v, q2, x) /\ Begun(x.part) /\ Meets(m2, x)
    BY <1>3, <1>6, <1>13, <1>14, <1>15, StrokeLeads
  <2> QED
    OBVIOUS
<1>17. EditorTypes'
  <2>1. wire' \in Texts
    <3>1. bytes \in Texts
      <4>1. /\ <<stroke>> \in Texts /\ <<"C3", "A9">> \in Texts
            /\ <<"esc", "[", "3", "~">> \in Texts
            /\ \A c \in {"A", "B", "C", "D", "F", "H", "~"} : <<"esc", "[", c>> \in Texts
        <5>1. /\ "C3" \in Symbols /\ "A9" \in Symbols /\ "esc" \in Symbols
                 /\ "[" \in Symbols
              /\ "3" \in Symbols /\ "~" \in Symbols
              /\ \A c \in {"A", "B", "C", "D", "F", "H", "~"} : c \in Symbols
          BY DEF Symbols, Editor!Control, Editor!Finals
        <5> QED
          BY <1>4, <5>1 DEF Texts
      <4>2. Editor!Final(stroke) \in {"A", "B", "C", "D", "F", "H", "~"}
        BY DEF Editor!Final
      <4>3. Editor!Bytes(stroke) \in {<<stroke>>, <<"C3", "A9">>, <<"esc", "[", "3", "~">>,
                                     <<"esc", "[", Editor!Final(stroke)>>}
        BY DEF Editor!Bytes
      <4> QED
        BY <4>1, <4>2, <4>3
    <3> HIDE DEF bytes
    <3>2. wire \o bytes \in Seq(Symbols)
      BY <1>6, <3>1, ConcatProperties DEF Texts
    <3> QED
      BY <1>1, <3>2 DEF Texts
  <2>2. Begun(partial)'
    BY <1>1, <1>2 DEF EditorTypes, Begun, Editor!Complete
  <2>3. console' = "nt" => meant'.apart
    <3>1. console = "nt" => m2.apart
      BY <1>6, <1>13 DEF Means
    <3> QED
      BY <1>1, <1>10, <3>1
  <2>4. meant' \in [now : Line, lines : Seq(Line), apart : BOOLEAN]
    BY <1>10, <1>13
  <2> QED
    BY <1>1, <1>2, <2>1, <2>2, <2>3, <2>4 DEF EditorTypes
<1>18. Returned'
  <2>1. Len(returned) \in Nat /\ DOMAIN returned = 1..Len(returned) /\ Len(m.lines) \in Nat
        /\ Len(m2.lines) \in Nat
    BY <1>2, <1>6, <1>13 DEF EditorTypes
  <2>2. Len(returned) <= Len(m.lines)
    BY <1>2, <1>5 DEF Returned
  <2>3. \A i \in DOMAIN returned : m2.lines[i] = m.lines[i]
    BY <1>13, <2>1, <2>2
  <2>4. Len(returned) <= Len(m2.lines)
    BY <1>13, <2>1, <2>2
  <2> QED
    BY <1>1, <1>2, <1>5, <1>10, <2>3, <2>4 DEF Returned
<1>19. Holds(v)'
  BY <1>1, <1>14 DEF Holds, Stands
<1>20. Begun(x.part)'
  BY <1>1, <1>16 DEF Begun, Editor!Complete
<1>21. PICK M : M = m2.lines
  OBVIOUS
<1>22. Leads(M, v, q2, x)'
  <2>1. Leads(M, v, q2, x)
    BY <1>16, <1>21
  <2> QED
    BY <1>1, <2>1, LeadsStay
<1>23. Leads(meant.lines, v, wire, x)'
  BY <1>10, <1>15, <1>21, <1>22
<1>24. Meets(meant', x)
  BY <1>10, <1>16
<1> QED
  BY <1>17, <1>18, <1>19, <1>20, <1>23, <1>24 DEF EditorInv

LEMMA EditorStepKeeps == EditorInv /\ [Editor!Next]_editorVars => EditorInv'
<1> SUFFICES ASSUME EditorInv, [Editor!Next]_editorVars PROVE EditorInv'
  OBVIOUS
<1>1. CASE Editor!Next
  BY <1>1, StrikeKeeps, ReadByteKeeps, ReadKeyKeeps, EscapeTimesOutKeeps, InterruptKeeps
     DEF Editor!Next
<1>2. CASE UNCHANGED editorVars
  <2>1. /\ wire' = wire /\ partial' = partial /\ buf' = buf /\ pos' = pos
           /\ console' = console
        /\ history' = history /\ histIdx' = histIdx /\ draft' = draft
           /\ returned' = returned
        /\ meant' = meant
    BY <1>2 DEF editorVars
  <2>2. PICK v \in Ahead, w \in Ahead :
          Holds(v) /\ Leads(meant.lines, v, wire, w) /\ Begun(w.part) /\ Meets(meant, w)
    BY DEF EditorInv
  <2>3. PICK M, q : M = meant.lines /\ q = wire
    OBVIOUS
  <2>4. Leads(meant.lines, v, wire, w)'
    <3>1. Leads(M, v, q, w)
      BY <2>2, <2>3
    <3>2. Leads(M, v, q, w)'
      BY <2>1, <3>1, LeadsStay
    <3> QED
      BY <2>1, <2>3, <3>2
  <2>5. EditorTypes' /\ Returned' /\ Holds(v)' /\ Begun(w.part)' /\ Meets(meant', w)
    BY <2>1, <2>2 DEF EditorInv, EditorTypes, Returned, Holds, Stands, Begun,
       Editor!Complete
  <2> QED
    BY <2>4, <2>5 DEF EditorInv
<1> QED
  BY <1>1, <1>2

\* What follows for the operator.
LEMMA LineFollows == EditorInv => Editor!LineIsTyped /\ Editor!TypeOK
<1> SUFFICES ASSUME EditorInv PROVE Editor!LineIsTyped /\ Editor!TypeOK
  OBVIOUS
<1>1. EditorTypes /\ Returned
  BY DEF EditorInv
<1>2. PICK v \in Ahead, w \in Ahead :
        Holds(v) /\ Leads(meant.lines, v, wire, w) /\ Meets(meant, w)
  BY DEF EditorInv
<1>3. ASSUME wire = <<>>, partial = <<>>, meant.now.sure
      PROVE  /\ Editor!Left = meant.now.left /\ Editor!Right = meant.now.right
             /\ Len(returned) = Len(meant.lines)
  <2>1. w = v
    <3>1. PICK M : M = meant.lines
      OBVIOUS
    <3>2. Leads(M, v, <<>>, w)
      BY <1>2, <1>3, <3>1
    <3> QED
      BY <3>2, LeadsNone
  <2>2. v.sure /\ v.left = meant.now.left /\ v.right = meant.now.right /\ meant.apart
    BY <1>2, <1>3, <2>1 DEF Meets
  <2>3. v.left \in Texts /\ v.right \in Texts /\ Stands(v.left, v.right)
    BY <1>2, <2>2 DEF Ahead, Holds
  <2>4. Editor!Left = v.left /\ Editor!Right = v.right
    BY <2>3, CutAtCursor
  <2>5. v.lines = Len(returned) /\ v.lines = Len(meant.lines)
    BY <1>2, <2>1, <2>2 DEF Meets, Holds
  <2> QED
    BY <2>2, <2>4, <2>5
<1>4. Editor!LineIsTyped
  BY <1>1, <1>3 DEF Editor!LineIsTyped, Returned
<1>5. Editor!TypeOK
  <2>1. Len(meant.lines) >= Len(returned)
    <3>1. Len(meant.lines) \in Nat /\ Len(returned) \in Nat
      BY <1>1 DEF EditorTypes
    <3> QED
      BY <1>1, <3>1 DEF Returned
  <2> QED
    BY <1>1, <2>1 DEF EditorTypes, Begun, Editor!TypeOK
<1> QED
  BY <1>4, <1>5

\* What was struck, and read, is what the editor holds, and poll returns the
\* lines as they were typed and in their order, whatever is struck ahead of
\* what is read and however the bytes of a key are spread over reads
\* (LineReader.poll, _insert, _decode_utf8).
THEOREM LineIsWhatWasTyped == Spec => []LineIsTyped
<1>1. Init => EditorInv
  BY EditorStarts DEF Init
<1>2. EditorInv /\ [Next]_vars => EditorInv'
  BY EditorStepKeeps, OneChannelMoves
<1>3. EditorInv => LineIsTyped
  BY LineFollows DEF LineIsTyped
<1> QED
  BY <1>1, <1>2, <1>3, PTL DEF Spec
=============================================================================
