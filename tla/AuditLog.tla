------------------------------ MODULE AuditLog ------------------------------
(***************************************************************************)
(* The hash-chained audit log (`audit/auditlog.py'): one file to which     *)
(* several `AuditLog' instances append, each with the sequence number and  *)
(* the last hash it keeps in memory, and each with a redactor of its own.  *)
(* `harness secrets' opens a new instance for every record; a run holds    *)
(* one for its length; `label' and `report' open one on the run's file.    *)
(*                                                                         *)
(* A digest is collision-free, so it stands for what it was computed from: *)
(* the bodies of its record and of the records chained before it.          *)
(***************************************************************************)
EXTENDS Integers, Sequences, FiniteSetsExt

CONSTANTS
    Writers,   \* AuditLog instances, each in a process of its own
    Redacting, \* the ones whose redactor holds the secret
    MaxEvents  \* how many events are appended

ASSUME LogAssumption == /\ Redacting \subseteq Writers
                        /\ MaxEvents \in Nat

VARIABLES
    file,       \* the lines of the file
    terminated, \* its last line ends in a newline
    handle,     \* the state of each instance
    events,     \* how many events were given to append
    current,    \* whether an instance knows the tail of the file
    suspects,   \* the lines that an accident touched
    damaged     \* a stored line was changed from outside

ghostVars == <<current, suspects, damaged>>
vars == <<file, terminated, handle, events, ghostVars>>

Texts == {"plain", "secret", "redacted"}
Bodies == [seq : 0..MaxEvents, id : 0..MaxEvents, text : Texts]
Hashes == Seq(Bodies)
Lines == [json : BOOLEAN, prev : Hashes, body : Bodies, hash : Hashes]

Handles == [open : BOOLEAN, seq : 0..MaxEvents, last : Hashes]

Genesis == <<>>
Digest(prev, body) == Append(prev, body)

(* A line that does not parse as JSON. *)
Malformed == [json |-> FALSE, prev |-> Genesis, hash |-> Genesis,
              body |-> [seq |-> 0, id |-> 0, text |-> "plain"]]

Redacted(w, body) ==
    IF w \in Redacting /\ body.text = "secret" THEN [body EXCEPT !.text = "redacted"] ELSE body

(***************************************************************************)
(* `verify': the line numbers it reports, for each of its three errors.    *)
(* A line that does not parse leaves its running hash as it was.           *)
(***************************************************************************)
Chained(f, i) ==
    \/ /\ f[i].prev = Genesis
       /\ \A j \in 1..i-1 : ~f[j].json
    \/ \E j \in 1..i-1 :
          /\ f[j].json
          /\ f[i].prev = f[j].hash
          /\ \A k \in j+1..i-1 : ~f[k].json

\* Fault: the digest of a record is not computed again.
SoundByChain(f, i) == f[i].json /\ Chained(f, i)

Sound(f, i) == f[i].json /\ Chained(f, i) /\ Digest(f[i].prev, f[i].body) = f[i].hash

verify(f) == {i \in DOMAIN f : ~Sound(f, i)}

Init ==
    /\ file = <<>> /\ terminated = TRUE /\ events = 0
    /\ handle = [w \in Writers |-> [open |-> FALSE, seq |-> 0, last |-> Genesis]]
    /\ current = [w \in Writers |-> FALSE] /\ suspects = {} /\ damaged = FALSE

(***************************************************************************)
(* `__init__': the chain goes on from the last line; a last line that does *)
(* not parse raises, and the instance is not made.                         *)
(***************************************************************************)
Open(w) ==
    /\ ~handle[w].open
    /\ file # <<>> => file[Len(file)].json
    /\ handle' = [handle EXCEPT ![w] =
          [open |-> TRUE, seq |-> 0,
           last |-> IF file = <<>> THEN Genesis ELSE file[Len(file)].hash]]
    /\ current' = [current EXCEPT ![w] = TRUE]
    /\ UNCHANGED <<file, terminated, events, suspects, damaged>>

Close(w) ==
    /\ handle[w].open
    /\ handle' = [handle EXCEPT ![w].open = FALSE]
    /\ UNCHANGED <<file, terminated, events, ghostVars>>

(* The line of an event: hashed as it is, then redacted. *)
Event(w, text) == [seq |-> handle[w].seq + 1, id |-> events + 1, text |-> text]

Line(w, body) == [json |-> TRUE, prev |-> handle[w].last, body |-> Redacted(w, body),
                  hash |-> Digest(handle[w].last, body)]

(* What the file holds after a line was written to its end: behind a line  *)
(* without its newline, both run together.                                 *)
Written(line) ==
    IF terminated THEN Append(file, line) ELSE [file EXCEPT ![Len(file)] = Malformed]

\* Fault: _last_hash is the digest of the stored line.
AppendEventStored(w, text) ==
    LET body == Event(w, text) IN
    /\ handle[w].open /\ events < MaxEvents
    /\ events' = events + 1
    /\ file' = Written(Line(w, body))
    /\ terminated' = TRUE
    /\ handle' = [handle EXCEPT ![w] =
          [open |-> TRUE, seq |-> body.seq,
           last |-> Digest(handle[w].last, Redacted(w, body))]]
    /\ suspects' = IF ~terminated \/ ~current[w] \/ Redacted(w, body) # body
                   THEN suspects \cup {Len(file')} ELSE suspects
    /\ current' = [v \in Writers |-> v = w /\ terminated]
    /\ UNCHANGED damaged

(* `append', its write complete. *)
AppendEvent(w, text) ==
    LET body == Event(w, text) IN
    /\ handle[w].open /\ events < MaxEvents
    /\ events' = events + 1
    /\ file' = Written(Line(w, body))
    /\ terminated' = TRUE
    /\ handle' = [handle EXCEPT ![w] =
          [open |-> TRUE, seq |-> body.seq, last |-> Digest(handle[w].last, body)]]
    /\ suspects' = IF ~terminated \/ ~current[w] \/ Redacted(w, body) # body
                   THEN suspects \cup {Len(file')} ELSE suspects
    /\ current' = [v \in Writers |-> v = w /\ terminated]
    /\ UNCHANGED damaged

(* `append', its write cut off by a crash or a full disk: inside the line, *)
(* or between the line and its newline.  The process gives up.             *)
Interrupted(w, text) ==
    LET body == Event(w, text)
        line == Line(w, body) IN
    /\ handle[w].open /\ events < MaxEvents
    /\ events' = events + 1
    /\ \E cut \in {line, Malformed} :
          /\ file' = Written(cut)
          /\ suspects' = IF \/ ~terminated \/ cut = Malformed \/ ~current[w]
                            \/ Redacted(w, body) # body
                         THEN suspects \cup {Len(file')} ELSE suspects
    /\ terminated' = FALSE
    /\ handle' = [handle EXCEPT ![w].open = FALSE]
    /\ current' = [v \in Writers |-> FALSE]
    /\ UNCHANGED damaged

(***************************************************************************)
(* One historical line is changed, removed or swapped with the next by     *)
(* something other than the log; a changed one may be given its own hash.  *)
(***************************************************************************)
Without(i) == [j \in 1..Len(file)-1 |-> IF j < i THEN file[j] ELSE file[j+1]]

Changed(i, text, rehashed) ==
    LET body == [file[i].body EXCEPT !.text = text] IN
    [file EXCEPT ![i].body = body,
                 ![i].hash = IF rehashed THEN Digest(file[i].prev, body) ELSE @]

Swapped(i) == [file EXCEPT ![i] = file[i+1], ![i+1] = file[i]]

Damage ==
    /\ ~damaged /\ verify(file) = {}
    /\ \E i \in 1..Len(file)-1 :
          \/ file' = Without(i)
          \/ file' = Swapped(i)
          \/ \E text \in Texts \ {file[i].body.text}, rehashed \in BOOLEAN :
                file' = Changed(i, text, rehashed)
    /\ damaged' = TRUE
    /\ UNCHANGED <<terminated, handle, events, current, suspects>>

Next ==
    \/ \E w \in Writers :
          \/ Open(w)
          \/ Close(w)
          \/ \E text \in {"plain", "secret"} : AppendEvent(w, text) \/ Interrupted(w, text)
    \/ Damage

Spec == Init /\ [][Next]_vars

-----------------------------------------------------------------------------

TypeOK ==
    /\ file \in Seq(Lines) /\ terminated \in BOOLEAN
    /\ events \in 0..MaxEvents /\ Len(file) <= events
    /\ handle \in [Writers -> Handles]
    /\ \A w \in Writers : handle[w].seq <= events
    /\ current \in [Writers -> BOOLEAN]
    /\ suspects \subseteq 1..events /\ damaged \in BOOLEAN

(* On a log nobody touched, `verify' reports only lines that an accident    *)
(* made: written by an instance that did not know the tail of the file,    *)
(* altered by its own redactor, or cut off.  A chain taken over by a new   *)
(* instance, and a record after any of these, is not blamed.               *)
VerifyBlamesAccidents == ~damaged => verify(file) \subseteq suspects

(* The strengthening the proofs need: the chain goes on from the last hash *)
(* of every instance that knows the tail of an untouched file.             *)
Continues(f, h) ==
    \/ /\ h = Genesis
       /\ \A j \in DOMAIN f : ~f[j].json
    \/ \E j \in DOMAIN f :
          /\ f[j].json
          /\ h = f[j].hash
          /\ \A k \in j+1..Len(f) : ~f[k].json

ChainInv ==
    /\ ~terminated => file # <<>>
    /\ ~damaged => \A w \in Writers :
          handle[w].open /\ current[w] => Continues(file, handle[w].last)

(* "Tampering with any historical entry is detectable because the          *)
(* subsequent hash no longer matches": no line changed, removed or swapped *)
(* before the last one goes unnoticed, neither then nor after the records  *)
(* that follow.                                                            *)
TamperEvident == damaged => verify(file) # {}

(* "Return list of chain-consistency errors (empty == tamper-free)": a log *)
(* nobody touched, and whose every line was written whole, verifies.       *)
UntouchedVerifies == ~damaged /\ (\A i \in DOMAIN file : file[i].json) => verify(file) = {}
=============================================================================
