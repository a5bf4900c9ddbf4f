---------------------------- MODULE RecordsProofs ----------------------------
(***************************************************************************)
(* Proofs about Records, for any runs, outcomes, instances and bounds.     *)
(*                                                                         *)
(* AuditLog: verify blames accidents only, and no historical line can be   *)
(* changed, removed or moved unnoticed.  This is said of the log by        *)
(* itself, with writers and damage that its own Spec allows.               *)
(*                                                                         *)
(* CaseStore: what the store of verified outcomes keeps through every      *)
(* crash.  The temporary file and the case a command replaces are what the *)
(* command made and read of them, since one command works at a time; and   *)
(* the case of a run is the last outcome stored for it.  From there each   *)
(* event the audit log of a run gets tells the outcome just stored and the *)
(* one before it.                                                          *)
(***************************************************************************)
EXTENDS Records, SequenceTheorems, TLAPS

-----------------------------------------------------------------------------
(* AuditLog.                                                               *)

(* What the definitions return. *)
LEMMA MalformedLine == Malformed \in Lines /\ ~Malformed.json
BY LogAssumption, EmptySeq DEF Malformed, Lines, Hashes, Bodies, Texts, Genesis

LEMMA DigestType ==
  ASSUME NEW prev \in Hashes, NEW body \in Bodies
  PROVE  /\ Digest(prev, body) \in Hashes
         /\ Digest(prev, body) # prev
         /\ Digest(prev, body) # Genesis
<1>1. /\ Append(prev, body) \in Seq(Bodies)
      /\ Append(prev, body) # <<>>
      /\ Len(Append(prev, body)) = Len(prev) + 1
  BY AppendProperties DEF Hashes
<1>2. Len(prev) \in Nat
  BY LenProperties DEF Hashes
<1>. QED
  BY <1>1, <1>2 DEF Digest, Hashes, Genesis

(* A digest determines what it was computed from. *)
LEMMA DigestInjective ==
  ASSUME NEW p \in Hashes, NEW q \in Hashes, NEW b \in Bodies, NEW c \in Bodies,
         Digest(p, b) = Digest(q, c)
  PROVE  p = q /\ b = c
BY AppendInjective DEF Digest, Hashes

LEMMA EventType ==
  ASSUME TypeOK, NEW w \in Writers, NEW text \in Texts, events < MaxEvents
  PROVE  Event(w, text) \in Bodies /\ Event(w, text).seq <= events + 1
<1>1. handle[w] \in Handles /\ handle[w].seq <= events /\ events \in Nat
  BY LogAssumption DEF TypeOK
<1>2. handle[w].seq \in Nat
  BY <1>1, LogAssumption DEF Handles
<1>. QED
  BY <1>1, <1>2, LogAssumption DEF TypeOK, Event, Bodies

LEMMA RedactedType ==
  ASSUME NEW w \in Writers, NEW body \in Bodies
  PROVE  Redacted(w, body) \in Bodies
BY DEF Redacted, Bodies, Texts

LEMMA LineType ==
  ASSUME TypeOK, NEW w \in Writers, NEW body \in Bodies
  PROVE  /\ Line(w, body) \in Lines
         /\ Line(w, body).json
         /\ Line(w, body).prev = handle[w].last
         /\ Line(w, body).body = Redacted(w, body)
         /\ Line(w, body).hash = Digest(handle[w].last, body)
<1>1. handle[w].last \in Hashes
  BY DEF TypeOK, Handles
<1>. QED
  BY <1>1, DigestType, RedactedType DEF Line, Lines

-----------------------------------------------------------------------------
(* The verdict on a line depends on the lines up to it. *)
LEMMA SamePrefix ==
  ASSUME NEW f, NEW g, NEW i \in Nat,
         \A j \in 1..i : f[j] = g[j], i >= 1
  PROVE  Sound(f, i) <=> Sound(g, i)
<1>1. \A j \in 1..i-1 : f[j] = g[j]
  OBVIOUS
<1>2. f[i] = g[i]
  OBVIOUS
<1>3. Chained(f, i) <=> Chained(g, i)
  BY <1>1, <1>2 DEF Chained
<1>. QED
  BY <1>2, <1>3 DEF Sound

(* Appending to the file leaves the verdict on the lines in it, and chains *)
(* the new one when its prev_hash continues them.                          *)
LEMMA Appended ==
  ASSUME NEW f \in Seq(Lines), NEW line \in Lines, NEW g, g = Append(f, line)
  PROVE  /\ g \in Seq(Lines) /\ Len(g) = Len(f) + 1 /\ g[Len(g)] = line
         /\ \A i \in 1..Len(f) : g[i] = f[i] /\ (Sound(g, i) <=> Sound(f, i))
         /\ Continues(f, line.prev) => Chained(g, Len(g))
<1>1. /\ g \in Seq(Lines) /\ Len(g) = Len(f) + 1
      /\ \A i \in 1..Len(f) : g[i] = f[i]
      /\ g[Len(f) + 1] = line
  BY AppendProperties
<1>2. Len(f) \in Nat /\ DOMAIN f = 1..Len(f)
  BY LenProperties
<1>3. \A i \in 1..Len(f) : Sound(g, i) <=> Sound(f, i)
  <2>. TAKE i \in 1..Len(f)
  <2>1. i \in Nat /\ i >= 1 /\ \A j \in 1..i : f[j] = g[j]
    BY <1>1, <1>2
  <2>. QED
    BY <2>1, SamePrefix
<1>4. Continues(f, line.prev) => Chained(g, Len(g))
  BY <1>1, <1>2 DEF Continues, Chained
<1>. QED
  BY <1>1, <1>2, <1>3, <1>4

(* A line run together with the one before it: both are lost. *)
LEMMA Joined ==
  ASSUME NEW f \in Seq(Lines), f # <<>>, NEW g, g = [f EXCEPT ![Len(f)] = Malformed]
  PROVE  /\ g \in Seq(Lines) /\ Len(g) = Len(f) /\ Len(f) >= 1
         /\ \A i \in 1..Len(f)-1 : g[i] = f[i] /\ (Sound(g, i) <=> Sound(f, i))
         /\ ~Sound(g, Len(g))
<1>1. Len(f) \in Nat /\ Len(f) >= 1
  BY EmptySeq, LenProperties
<1>2. /\ g \in Seq(Lines) /\ Len(g) = Len(f)
      /\ \A i \in 1..Len(f) : g[i] = IF i = Len(f) THEN Malformed ELSE f[i]
  BY <1>1, ExceptSeq, MalformedLine
<1>3. g[Len(g)] = Malformed
  BY <1>1, <1>2
<1>4. \A i \in 1..Len(f)-1 : g[i] = f[i]
  <2>. SUFFICES ASSUME NEW i \in 1..Len(f)-1 PROVE g[i] = f[i]
    OBVIOUS
  <2>1. i \in 1..Len(f) /\ i # Len(f)
    BY <1>1
  <2>. QED
    BY <1>2, <2>1
<1>5. \A i \in 1..Len(f)-1 : Sound(g, i) <=> Sound(f, i)
  <2>. SUFFICES ASSUME NEW i \in 1..Len(f)-1 PROVE Sound(g, i) <=> Sound(f, i)
    OBVIOUS
  <2>1. i \in Nat /\ i >= 1 /\ \A j \in 1..i : f[j] = g[j]
    BY <1>1, <1>4
  <2>. QED
    BY <2>1, SamePrefix
<1>6. ~Sound(g, Len(g))
  BY <1>3, MalformedLine DEF Sound
<1>. QED
  BY <1>1, <1>2, <1>4, <1>5, <1>6

(* Both cases, for whatever an append manages to write. *)
LEMMA WrittenLines ==
  ASSUME TypeOK, ChainInv, NEW line \in Lines, NEW g, g = Written(line)
  PROVE  /\ g \in Seq(Lines) /\ g # <<>>
         /\ Len(g) \in 1..events + 1
         /\ \A i \in DOMAIN g \ {Len(g)} :
               i \in DOMAIN file /\ g[i] = file[i] /\ (Sound(g, i) <=> Sound(file, i))
         /\ DOMAIN g = 1..Len(g)
         /\ verify(g) \subseteq verify(file) \cup {Len(g)}
         /\ verify(file) # {} => verify(g) # {}
         /\ terminated => g[Len(g)] = line
         /\ terminated /\ Continues(file, line.prev) => Chained(g, Len(g))
<1>1. Len(file) \in Nat /\ DOMAIN file = 1..Len(file) /\ Len(file) <= events /\ events \in Nat
  BY LenProperties DEF TypeOK
<1>2. CASE terminated
  <2>1. g = Append(file, line)
    BY <1>2 DEF Written
  <2>2. /\ g \in Seq(Lines) /\ Len(g) = Len(file) + 1 /\ g[Len(g)] = line
        /\ \A i \in 1..Len(file) : g[i] = file[i] /\ (Sound(g, i) <=> Sound(file, i))
        /\ Continues(file, line.prev) => Chained(g, Len(g))
    BY <2>1, Appended DEF TypeOK
  <2>3. DOMAIN g = 1..Len(g) /\ g # <<>>
    BY <1>1, <2>2, LenProperties, EmptySeq
  <2>. QED
    BY <1>1, <2>2, <2>3 DEF verify
<1>3. CASE ~terminated
  <2>1. file # <<>> /\ g = [file EXCEPT ![Len(file)] = Malformed]
    BY <1>3 DEF Written, ChainInv
  <2>2. /\ g \in Seq(Lines) /\ Len(g) = Len(file) /\ Len(file) >= 1
        /\ \A i \in 1..Len(file)-1 : g[i] = file[i] /\ (Sound(g, i) <=> Sound(file, i))
        /\ ~Sound(g, Len(g))
    BY <2>1, Joined DEF TypeOK
  <2>3. DOMAIN g = 1..Len(g) /\ g # <<>>
    BY <1>1, <2>2, LenProperties, EmptySeq
  <2>. QED
    BY <1>1, <1>3, <2>2, <2>3 DEF verify
<1>. QED
  BY <1>2, <1>3 DEF TypeOK

-----------------------------------------------------------------------------
(* In a log that verifies, each line is chained with the one before it.    *)
LEMMA SoundLog ==
  ASSUME NEW f \in Seq(Lines), verify(f) = {}, NEW i \in 1..Len(f)
  PROVE  /\ f[i] \in Lines /\ f[i].json
         /\ Digest(f[i].prev, f[i].body) = f[i].hash
         /\ i = 1 => f[i].prev = Genesis
         /\ i > 1 => f[i].prev = f[i-1].hash
<1>1. Len(f) \in Nat /\ DOMAIN f = 1..Len(f)
  BY LenProperties
<1>2. \A j \in 1..Len(f) : f[j] \in Lines /\ Sound(f, j)
  BY <1>1, ElementOfSeq DEF verify
<1>3. f[i].json /\ Chained(f, i) /\ Digest(f[i].prev, f[i].body) = f[i].hash
  BY <1>2 DEF Sound
<1>4. \A j \in 1..i-1 : f[j].json
  BY <1>1, <1>2 DEF Sound
<1>5. CASE i = 1
  BY <1>2, <1>3, <1>5 DEF Chained
<1>6. CASE i > 1
  <2>1. i - 1 \in 1..i-1 /\ f[i-1].json
    BY <1>1, <1>4, <1>6
  <2>2. PICK j \in 1..i-1 : /\ f[i].prev = f[j].hash
                            /\ \A k \in j+1..i-1 : ~f[k].json
    BY <1>3, <2>1 DEF Chained
  <2>3. j = i - 1
    BY <1>1, <1>6, <2>1, <2>2
  <2>. QED
    BY <1>2, <1>3, <1>6, <2>2, <2>3
<1>. QED
  BY <1>1, <1>2, <1>3, <1>5, <1>6

(* The digest of a line is not the prev_hash it was computed with. *)
LEMMA HashIsNew ==
  ASSUME NEW f \in Seq(Lines), verify(f) = {}, NEW i \in 1..Len(f)
  PROVE  f[i].hash # f[i].prev /\ f[i].hash # Genesis
<1>1. /\ f[i].prev \in Hashes /\ f[i].body \in Bodies
      /\ Digest(f[i].prev, f[i].body) = f[i].hash
  BY SoundLog DEF Lines
<1>. QED
  BY <1>1, DigestType

(* A line whose successor took its place betrays the gap. *)
LEMMA GapShows ==
  ASSUME NEW f \in Seq(Lines), verify(f) = {}, NEW i \in 1..Len(f)-1,
         NEW g \in Seq(Lines), Len(g) >= i,
         \A j \in 1..i-1 : g[j] = f[j], g[i] = f[i+1]
  PROVE  verify(g) # {}
<1>. SUFFICES ASSUME verify(g) = {} PROVE FALSE
  OBVIOUS
<1>1. Len(f) \in Nat /\ Len(g) \in Nat /\ i \in 1..Len(f) /\ i + 1 \in 1..Len(f)
  BY LenProperties
<1>2. f[i+1].prev = f[i].hash
  BY <1>1, SoundLog, i + 1 - 1 = i
<1>3. CASE i = 1
  <2>1. g[1].prev = Genesis
    BY <1>1, <1>3, SoundLog
  <2>. QED
    BY <1>1, <1>2, <1>3, <2>1, HashIsNew
<1>4. CASE i > 1
  <2>1. g[i].prev = g[i-1].hash /\ f[i].prev = f[i-1].hash
    BY <1>1, <1>4, SoundLog
  <2>2. i - 1 \in 1..i-1
    BY <1>4
  <2>. QED
    BY <1>1, <1>2, <2>1, <2>2, HashIsNew
<1>. QED
  BY <1>3, <1>4

(* A changed line is betrayed by its own digest, or by its successor. *)
LEMMA ChangeShows ==
  ASSUME NEW f \in Seq(Lines), verify(f) = {}, NEW i \in 1..Len(f)-1,
         NEW body \in Bodies, body # f[i].body, NEW hash,
         hash = f[i].hash \/ hash = Digest(f[i].prev, body),
         NEW g \in Seq(Lines), Len(g) = Len(f), g[i+1] = f[i+1],
         g[i].prev = f[i].prev, g[i].body = body, g[i].hash = hash
  PROVE  verify(g) # {}
<1>. SUFFICES ASSUME verify(g) = {} PROVE FALSE
  OBVIOUS
<1>1. Len(f) \in Nat /\ i \in 1..Len(f) /\ i + 1 \in 1..Len(f) /\ i + 1 > 1
  BY LenProperties
<1>2. /\ f[i].prev \in Hashes /\ f[i].body \in Bodies
      /\ Digest(f[i].prev, f[i].body) = f[i].hash
  BY <1>1, SoundLog DEF Lines
<1>3. f[i+1].prev = f[i].hash /\ g[i+1].prev = g[i].hash
  BY <1>1, SoundLog, i + 1 - 1 = i
<1>4. Digest(g[i].prev, g[i].body) = g[i].hash
  BY <1>1, SoundLog
<1>5. Digest(f[i].prev, body) = Digest(f[i].prev, f[i].body)
  BY <1>2, <1>3, <1>4
<1>. QED
  BY <1>2, <1>5, DigestInjective

LEMMA DamageShows ==
  ASSUME TypeOK, Damage
  PROVE  /\ file' \in Seq(Lines) /\ Len(file') <= Len(file)
         /\ file' # <<>> /\ verify(file') # {}
<1>1. /\ file \in Seq(Lines) /\ verify(file) = {}
      /\ Len(file) \in Nat
  BY LenProperties DEF TypeOK, Damage
<1>2. PICK i \in 1..Len(file)-1 :
        \/ file' = Without(i)
        \/ file' = Swapped(i)
        \/ \E text \in Texts \ {file[i].body.text}, rehashed \in BOOLEAN :
              file' = Changed(i, text, rehashed)
  BY DEF Damage
<1>3. i \in 1..Len(file) /\ i + 1 \in 1..Len(file)
  BY <1>1
<1>4. \A j \in 1..Len(file) : file[j] \in Lines
  BY <1>1, ElementOfSeq
<1>5. CASE file' = Without(i)
  <2>. DEFINE e(j) == IF j < i THEN file[j] ELSE file[j+1]
  <2>1. Len(file) - 1 \in Nat /\ \A j \in 1..Len(file)-1 : e(j) \in Lines
    BY <1>1, <1>3, <1>4
  <2>2. [j \in 1..Len(file)-1 |-> e(j)] \in Seq(Lines)
    BY <2>1, IsASeq
  <2>3. file' = [j \in 1..Len(file)-1 |-> e(j)]
    BY <1>5 DEF Without
  <2>4. file' \in Seq(Lines) /\ Len(file') = Len(file) - 1
    BY <1>1, <2>2, <2>3, LenProperties
  <2>5. file'[i] = file[i+1] /\ \A j \in 1..i-1 : file'[j] = file[j]
    BY <1>1, <1>3, <2>3
  <2>6. Len(file') >= i
    BY <1>1, <2>4
  <2>7. verify(file') # {}
    BY <1>1, <2>4, <2>5, <2>6, GapShows
  <2>. QED
    BY <1>1, <2>4, <2>6, <2>7, EmptySeq
<1>6. CASE file' = Swapped(i)
  <2>. DEFINE f1 == [file EXCEPT ![i] = file[i+1]]
  <2>1. f1 \in Seq(Lines) /\ Len(f1) = Len(file)
        /\ \A j \in 1..Len(file) : f1[j] = IF j = i THEN file[i+1] ELSE file[j]
    BY <1>1, <1>3, <1>4, ExceptSeq
  <2>2. file' = [f1 EXCEPT ![i+1] = file[i]]
    BY <1>6 DEF Swapped
  <2>. HIDE DEF f1
  <2>3. /\ file' \in Seq(Lines) /\ Len(file') = Len(file)
        /\ \A j \in 1..Len(file) : file'[j] = IF j = i+1 THEN file[i] ELSE f1[j]
    BY <1>3, <1>4, <2>1, <2>2, ExceptSeq
  <2>4. file'[i] = file[i+1] /\ \A j \in 1..i-1 : file'[j] = file[j]
    BY <1>1, <1>3, <2>1, <2>3
  <2>5. Len(file') >= i
    BY <1>1, <2>3
  <2>6. verify(file') # {}
    BY <1>1, <2>3, <2>4, <2>5, GapShows
  <2>. QED
    BY <1>1, <1>3, <2>3, <2>6, EmptySeq
<1>7. ASSUME NEW text \in Texts \ {file[i].body.text}, NEW rehashed \in BOOLEAN,
             file' = Changed(i, text, rehashed)
      PROVE  /\ file' \in Seq(Lines) /\ Len(file') <= Len(file)
             /\ file' # <<>> /\ verify(file') # {}
  <2>. DEFINE body == [file[i].body EXCEPT !.text = text]
              hash == IF rehashed THEN Digest(file[i].prev, body) ELSE file[i].hash
              line == [file[i] EXCEPT !.body = body, !.hash = hash]
  <2>1. file[i].body \in Bodies /\ file[i].prev \in Hashes /\ file[i].hash \in Hashes
        /\ file[i].json \in BOOLEAN
    BY <1>3, <1>4 DEF Lines
  <2>2. body \in Bodies /\ body # file[i].body
    BY <2>1 DEF Bodies
  <2>. HIDE DEF body
  <2>3. hash \in Hashes
    BY <2>1, <2>2, DigestType
  <2>. HIDE DEF hash
  <2>4. /\ line \in Lines /\ line.prev = file[i].prev
        /\ line.body = body /\ line.hash = hash
    BY <1>3, <1>4, <2>1, <2>2, <2>3 DEF Lines
  <2>5. file' = [file EXCEPT ![i] = line]
    BY <1>1, <1>3, <1>4, <1>7 DEF Changed, body, hash, Lines
  <2>. HIDE DEF line
  <2>6. /\ file' \in Seq(Lines) /\ Len(file') = Len(file)
        /\ \A j \in 1..Len(file) : file'[j] = IF j = i THEN line ELSE file[j]
    BY <1>1, <1>3, <2>4, <2>5, ExceptSeq
  <2>7. hash = file[i].hash \/ hash = Digest(file[i].prev, body)
    BY DEF hash
  <2>8. file'[i+1] = file[i+1] /\ file'[i] = line
    BY <1>1, <1>3, <2>6
  <2>9. verify(file') # {}
    BY <1>1, <2>2, <2>4, <2>6, <2>7, <2>8, ChangeShows
  <2>. QED
    BY <1>1, <1>3, <2>6, <2>9, EmptySeq
<1>. QED
  BY <1>2, <1>5, <1>6, <1>7

-----------------------------------------------------------------------------
(* One instance changes its state, and stays within the counts. *)
LEMMA HandleUpdate ==
  ASSUME NEW h \in [Writers -> Handles], NEW n \in Nat, NEW m \in Nat, n <= m,
         \A v \in Writers : h[v].seq <= n,
         NEW w \in Writers, NEW r \in Handles, r.seq <= m
  PROVE  /\ [h EXCEPT ![w] = r] \in [Writers -> Handles]
         /\ \A v \in Writers : [h EXCEPT ![w] = r][v].seq <= m
<1>1. [h EXCEPT ![w] = r] \in [Writers -> Handles]
  OBVIOUS
<1>2. ASSUME NEW v \in Writers PROVE [h EXCEPT ![w] = r][v].seq <= m
  <2>1. h[v] \in Handles
    OBVIOUS
  <2>2. h[v].seq \in Nat
    BY <2>1, LogAssumption DEF Handles
  <2>3. CASE v = w
    BY <2>3
  <2>4. CASE v # w
    <3>1. [h EXCEPT ![w] = r][v] = h[v]
      BY <2>4
    <3>. QED
      BY <2>2, <3>1
  <2>. QED
    BY <2>3, <2>4
<1>. QED
  BY <1>1, <1>2

LEMMA ClosedHandle ==
  ASSUME NEW h \in Handles
  PROVE  /\ [h EXCEPT !.open = FALSE] \in Handles
         /\ [h EXCEPT !.open = FALSE].seq = h.seq
         /\ h.seq \in Nat
<1>1. h.seq \in 0..MaxEvents /\ h.last \in Hashes
  BY DEF Handles
<1>2. 0..MaxEvents \subseteq Nat
  BY LogAssumption
<1>3. /\ [h EXCEPT !.open = FALSE] \in Handles
      /\ [h EXCEPT !.open = FALSE].seq = h.seq
  BY DEF Handles
<1>4. h.seq \in Nat
  BY <1>1, <1>2
<1>. QED
  BY <1>3, <1>4

LogInv == TypeOK /\ ChainInv /\ VerifyBlamesAccidents /\ TamperEvident

LEMMA LogInitInv == Init => LogInv
<1>. SUFFICES ASSUME Init PROVE LogInv
  OBVIOUS
<1>1. <<>> \in Seq(Lines) /\ Len(<<>>) = 0 /\ <<>> \in Hashes
  BY EmptySeq DEF Hashes
<1>2. DOMAIN file = {}
  BY <1>1, LenProperties DEF Init
<1>3. TypeOK
  <2>1. handle \in [Writers -> Handles] /\ \A w \in Writers : handle[w].seq <= 0
    BY <1>1, LogAssumption DEF Init, Handles, Genesis
  <2>2. 0 \in 0..MaxEvents /\ Len(file) <= 0 /\ file \in Seq(Lines)
    BY <1>1, LogAssumption DEF Init
  <2>. QED
    BY <2>1, <2>2 DEF Init, TypeOK
<1>4. verify(file) = {}
  BY <1>2 DEF verify
<1>. QED
  BY <1>3, <1>4 DEF LogInv, ChainInv, VerifyBlamesAccidents, TamperEvident, Init

LEMMA OpenInv ==
  ASSUME LogInv, NEW w \in Writers, Open(w)
  PROVE  LogInv'
<1>. USE DEF LogInv
<1>1. Len(file) \in Nat /\ DOMAIN file = 1..Len(file)
      /\ \A i \in 1..Len(file) : file[i] \in Lines
  BY LenProperties, ElementOfSeq DEF TypeOK
<1>2. file # <<>> => Len(file) \in 1..Len(file) /\ file[Len(file)].json
  BY <1>1, EmptySeq DEF Open, TypeOK
<1>. DEFINE last == IF file = <<>> THEN Genesis ELSE file[Len(file)].hash
<1>3. last \in Hashes
  BY <1>1, <1>2, EmptySeq DEF Lines, Hashes, Genesis
<1>4. Continues(file, last)
  <2>1. CASE file = <<>>
    BY <1>1, <2>1, EmptySeq DEF Continues
  <2>2. CASE file # <<>>
    <3>1. \A k \in Len(file)+1..Len(file) : ~file[k].json
      BY <1>1
    <3>. QED
      BY <1>1, <1>2, <2>2, <3>1 DEF Continues
  <2>. QED
    BY <2>1, <2>2
<1>5. handle' = [handle EXCEPT ![w] = [open |-> TRUE, seq |-> 0, last |-> last]]
  BY DEF Open
<1>. HIDE DEF last
<1>6. TypeOK'
  <2>. DEFINE r == [open |-> TRUE, seq |-> 0, last |-> last]
  <2>1. r \in Handles /\ r.seq = 0 /\ events \in Nat
    BY <1>3, LogAssumption DEF Handles, TypeOK
  <2>2. handle' = [handle EXCEPT ![w] = r]
    BY <1>5
  <2>. HIDE DEF r
  <2>3. handle' \in [Writers -> Handles] /\ \A v \in Writers : handle'[v].seq <= events
    BY <2>1, <2>2, HandleUpdate DEF TypeOK
  <2>. QED
    BY <2>3 DEF TypeOK, Open
<1>7. ChainInv'
  BY <1>4, <1>5 DEF TypeOK, ChainInv, Open, Continues
<1>. QED
  BY <1>6, <1>7 DEF VerifyBlamesAccidents, TamperEvident, Open, verify, Sound, Chained

LEMMA CloseInv ==
  ASSUME LogInv, NEW w \in Writers, Close(w)
  PROVE  LogInv'
<1>. USE DEF LogInv
<1>1. TypeOK'
  <2>. DEFINE r == [handle[w] EXCEPT !.open = FALSE]
  <2>1. handle[w] \in Handles /\ handle[w].seq <= events /\ events \in Nat
    BY LogAssumption DEF TypeOK
  <2>2. r \in Handles /\ r.seq <= events
    BY <2>1, ClosedHandle
  <2>3. handle' = [handle EXCEPT ![w] = r]
    BY DEF Close
  <2>. HIDE DEF r
  <2>4. handle' \in [Writers -> Handles] /\ \A v \in Writers : handle'[v].seq <= events
    BY <2>1, <2>2, <2>3, HandleUpdate DEF TypeOK
  <2>. QED
    BY <2>4 DEF TypeOK, Close, ghostVars
<1>2. ChainInv'
  BY DEF TypeOK, ChainInv, Close, ghostVars, Continues
<1>. QED
  BY <1>1, <1>2 DEF VerifyBlamesAccidents, TamperEvident, Close, ghostVars, verify, Sound, Chained

(* The new line of a complete append is sound unless an accident made it. *)
LEMMA AppendInv ==
  ASSUME LogInv, NEW w \in Writers, NEW text \in {"plain", "secret"}, AppendEvent(w, text)
  PROVE  LogInv'
<1>. USE DEF LogInv
<1>. DEFINE body == Event(w, text)
            line == Line(w, body)
<1>1. text \in Texts /\ events < MaxEvents /\ events \in Nat /\ MaxEvents \in Nat
  BY LogAssumption DEF AppendEvent, TypeOK, Texts
<1>2. body \in Bodies /\ body.seq <= events + 1 /\ handle[w].last \in Hashes
  BY <1>1, EventType DEF TypeOK, Handles
<1>3. /\ line \in Lines /\ line.json /\ line.prev = handle[w].last
      /\ line.body = Redacted(w, body) /\ line.hash = Digest(handle[w].last, body)
  BY <1>2, LineType
<1>4. /\ file' = Written(line) /\ events' = events + 1 /\ terminated' = TRUE
      /\ handle' = [handle EXCEPT ![w] = [open |-> TRUE, seq |-> body.seq,
                                          last |-> Digest(handle[w].last, body)]]
      /\ suspects' = IF ~terminated \/ ~current[w] \/ Redacted(w, body) # body
                     THEN suspects \cup {Len(file')} ELSE suspects
      /\ current' = [v \in Writers |-> v = w /\ terminated]
      /\ damaged' = damaged /\ handle[w].open
  BY DEF AppendEvent
<1>. HIDE DEF body, line
<1>5. /\ file' \in Seq(Lines) /\ file' # <<>>
      /\ Len(file') \in 1..events + 1 /\ DOMAIN file' = 1..Len(file')
      /\ verify(file') \subseteq verify(file) \cup {Len(file')}
      /\ verify(file) # {} => verify(file') # {}
      /\ terminated => file'[Len(file')] = line
      /\ terminated /\ Continues(file, line.prev) => Chained(file', Len(file'))
  BY <1>3, <1>4, WrittenLines
<1>6. Digest(handle[w].last, body) \in Hashes
  BY <1>2, DigestType
<1>7. TypeOK'
  <2>1. handle' \in [Writers -> Handles] /\ \A v \in Writers : handle'[v].seq <= events + 1
    <3>. DEFINE r == [open |-> TRUE, seq |-> body.seq, last |-> Digest(handle[w].last, body)]
    <3>1. r \in Handles /\ r.seq <= events + 1
      BY <1>2, <1>6 DEF Handles, Bodies
    <3>2. handle' = [handle EXCEPT ![w] = r]
      BY <1>4
    <3>. HIDE DEF r
    <3>. QED
      BY <1>1, <3>1, <3>2, HandleUpdate, events + 1 \in Nat, events <= events + 1 DEF TypeOK
  <2>2. current' \in [Writers -> BOOLEAN]
    BY <1>4 DEF TypeOK
  <2>3. suspects' \subseteq 1..events + 1
    <3>1. suspects \subseteq 1..events + 1
      BY <1>1 DEF TypeOK
    <3>. QED
      BY <1>4, <1>5, <3>1
  <2>. QED
    BY <1>1, <1>4, <1>5, <2>1, <2>2, <2>3 DEF TypeOK
<1>8. ChainInv'
  <2>1. ASSUME NEW v \in Writers, handle'[v].open, current'[v]
        PROVE  Continues(file', handle'[v].last)
    <3>1. v = w /\ terminated
      BY <1>4, <2>1
    <3>2. handle'[v].last = file'[Len(file')].hash /\ file'[Len(file')].json
      BY <1>3, <1>4, <1>5, <3>1 DEF TypeOK
    <3>3. \A k \in Len(file')+1..Len(file') : ~file'[k].json
      BY <1>5
    <3>. QED
      BY <1>5, <3>2, <3>3 DEF Continues
  <2>. QED
    BY <1>4, <2>1 DEF ChainInv
<1>9. VerifyBlamesAccidents'
  <2>. SUFFICES ASSUME ~damaged PROVE verify(file') \subseteq suspects'
    BY <1>4 DEF VerifyBlamesAccidents
  <2>1. verify(file) \subseteq suspects
    BY DEF VerifyBlamesAccidents
  <2>2. CASE ~terminated \/ ~current[w] \/ Redacted(w, body) # body
    BY <1>4, <1>5, <2>1, <2>2
  <2>3. CASE terminated /\ current[w] /\ Redacted(w, body) = body
    <3>1. Continues(file, line.prev)
      BY <1>3, <1>4, <2>3 DEF ChainInv
    <3>2. Sound(file', Len(file'))
      BY <1>3, <1>5, <2>3, <3>1 DEF Sound
    <3>3. Len(file') \notin verify(file')
      BY <3>2 DEF verify
    <3>. QED
      BY <1>4, <1>5, <2>1, <2>3, <3>3
  <2>. QED
    BY <2>2, <2>3
<1>10. TamperEvident'
  BY <1>4, <1>5 DEF TamperEvident
<1>. QED
  BY <1>7, <1>8, <1>9, <1>10

LEMMA InterruptedInv ==
  ASSUME LogInv, NEW w \in Writers, NEW text \in {"plain", "secret"}, Interrupted(w, text)
  PROVE  LogInv'
<1>. USE DEF LogInv
<1>. DEFINE body == Event(w, text)
            line == Line(w, body)
<1>1. text \in Texts /\ events < MaxEvents /\ events \in Nat /\ MaxEvents \in Nat
  BY LogAssumption DEF Interrupted, TypeOK, Texts
<1>2. body \in Bodies /\ body.seq <= events + 1 /\ handle[w].last \in Hashes
  BY <1>1, EventType DEF TypeOK, Handles
<1>3. /\ line \in Lines /\ line.json /\ line.prev = handle[w].last
      /\ line.body = Redacted(w, body) /\ line.hash = Digest(handle[w].last, body)
  BY <1>2, LineType
<1>4. PICK cut \in {line, Malformed} :
        /\ file' = Written(cut)
        /\ suspects' = IF \/ ~terminated \/ cut = Malformed \/ ~current[w]
                          \/ Redacted(w, body) # body
                       THEN suspects \cup {Len(file')} ELSE suspects
  BY DEF Interrupted
<1>5. /\ events' = events + 1 /\ terminated' = FALSE /\ handle[w].open
      /\ handle' = [handle EXCEPT ![w].open = FALSE]
      /\ current' = [v \in Writers |-> FALSE] /\ damaged' = damaged
  BY DEF Interrupted
<1>. HIDE DEF body, line
<1>6. cut \in Lines
  BY <1>3, MalformedLine
<1>7. /\ file' \in Seq(Lines) /\ file' # <<>>
      /\ Len(file') \in 1..events + 1 /\ DOMAIN file' = 1..Len(file')
      /\ verify(file') \subseteq verify(file) \cup {Len(file')}
      /\ verify(file) # {} => verify(file') # {}
      /\ terminated => file'[Len(file')] = cut
      /\ terminated /\ Continues(file, cut.prev) => Chained(file', Len(file'))
  BY <1>4, <1>6, WrittenLines
<1>8. TypeOK'
  <2>1. handle' \in [Writers -> Handles] /\ \A v \in Writers : handle'[v].seq <= events + 1
    <3>. DEFINE r == [handle[w] EXCEPT !.open = FALSE]
    <3>1. handle[w] \in Handles /\ handle[w].seq <= events
      BY DEF TypeOK
    <3>2. r \in Handles /\ r.seq = handle[w].seq /\ handle[w].seq \in Nat
      BY <3>1, ClosedHandle
    <3>3. handle' = [handle EXCEPT ![w] = r]
      BY <1>5
    <3>4. r.seq <= events + 1
      BY <1>1, <3>1, <3>2
    <3>. HIDE DEF r
    <3>. QED
      BY <1>1, <3>2, <3>3, <3>4, HandleUpdate, events + 1 \in Nat, events <= events + 1
      DEF TypeOK
  <2>2. suspects' \subseteq 1..events + 1
    <3>1. suspects \subseteq 1..events + 1
      BY <1>1 DEF TypeOK
    <3>. QED
      BY <1>4, <1>7, <3>1
  <2>3. current' \in [Writers -> BOOLEAN]
    BY <1>5
  <2>4. events + 1 \in 0..MaxEvents /\ Len(file') <= events + 1
    BY <1>1, <1>7
  <2>. QED
    BY <1>5, <1>7, <2>1, <2>2, <2>3, <2>4 DEF TypeOK
<1>9. ChainInv'
  BY <1>5, <1>7 DEF ChainInv
<1>10. VerifyBlamesAccidents'
  <2>. SUFFICES ASSUME ~damaged PROVE verify(file') \subseteq suspects'
    BY <1>5 DEF VerifyBlamesAccidents
  <2>1. verify(file) \subseteq suspects
    BY DEF VerifyBlamesAccidents
  <2>2. CASE ~terminated \/ cut = Malformed \/ ~current[w] \/ Redacted(w, body) # body
    BY <1>4, <1>7, <2>1, <2>2
  <2>3. CASE terminated /\ cut # Malformed /\ current[w] /\ Redacted(w, body) = body
    <3>1. cut = line /\ Continues(file, line.prev)
      BY <1>3, <1>4, <1>5, <2>3 DEF ChainInv
    <3>2. Sound(file', Len(file'))
      BY <1>3, <1>7, <2>3, <3>1 DEF Sound
    <3>3. Len(file') \notin verify(file')
      BY <3>2 DEF verify
    <3>. QED
      BY <1>4, <1>7, <2>1, <2>3, <3>3
  <2>. QED
    BY <2>2, <2>3
<1>11. TamperEvident'
  BY <1>5, <1>7 DEF TamperEvident
<1>. QED
  BY <1>8, <1>9, <1>10, <1>11

LEMMA DamageInv ==
  ASSUME LogInv, Damage
  PROVE  LogInv'
<1>. USE DEF LogInv
<1>1. /\ file' \in Seq(Lines) /\ Len(file') <= Len(file)
      /\ file' # <<>> /\ verify(file') # {}
  BY DamageShows
<1>2. /\ damaged' = TRUE
      /\ UNCHANGED <<terminated, handle, events, current, suspects>>
  BY DEF Damage
<1>3. Len(file) \in Nat /\ Len(file') \in Nat
  BY <1>1, LenProperties DEF TypeOK
<1>4. TypeOK'
  BY <1>1, <1>2, <1>3 DEF TypeOK
<1>. QED
  BY <1>1, <1>2, <1>4 DEF ChainInv, VerifyBlamesAccidents, TamperEvident

(* The invariant is inductive. *)
THEOREM LogInvariant == Spec => []LogInv
<1>1. Init => LogInv
  BY LogInitInv
<1>2. LogInv /\ [Next]_vars => LogInv'
  <2>. SUFFICES ASSUME LogInv, [Next]_vars PROVE LogInv'
    OBVIOUS
  <2>1. ASSUME NEW w \in Writers, Open(w) PROVE LogInv'
    BY <2>1, OpenInv
  <2>2. ASSUME NEW w \in Writers, Close(w) PROVE LogInv'
    BY <2>2, CloseInv
  <2>3. ASSUME NEW w \in Writers, NEW text \in {"plain", "secret"}, AppendEvent(w, text)
        PROVE  LogInv'
    BY <2>3, AppendInv
  <2>4. ASSUME NEW w \in Writers, NEW text \in {"plain", "secret"}, Interrupted(w, text)
        PROVE  LogInv'
    BY <2>4, InterruptedInv
  <2>5. CASE Damage
    BY <2>5, DamageInv
  <2>6. CASE UNCHANGED vars
    BY <2>6 DEF LogInv, TypeOK, ChainInv, Continues, VerifyBlamesAccidents, TamperEvident,
                verify, Sound, Chained, vars, ghostVars
  <2>. QED
    BY <2>1, <2>2, <2>3, <2>4, <2>5, <2>6 DEF Next
<1>. QED
  BY <1>1, <1>2, PTL DEF Spec

(* On an untouched log `verify' reports only lines that an accident made,  *)
(* for any number of instances and records.                                *)
THEOREM AccidentsAreBlamed == Spec => []VerifyBlamesAccidents
<1>1. LogInv => VerifyBlamesAccidents
  BY DEF LogInv
<1>. QED
  BY LogInvariant, <1>1, PTL

(* A historical line changed, removed or swapped is noticed, then and after*)
(* every record that follows, for a log of any length.                     *)
THEOREM HistoryIsTamperEvident == Spec => []TamperEvident
<1>1. LogInv => TamperEvident
  BY DEF LogInv
<1>. QED
  BY LogInvariant, <1>1, PTL

(* The file holds well-formed lines, at most one per event. *)
THEOREM TypeCorrect == Spec => []TypeOK
<1>1. LogInv => TypeOK
  BY DEF LogInv
<1>. QED
  BY LogInvariant, <1>1, PTL

-----------------------------------------------------------------------------
(* CaseStore.                                                              *)

(* The points between which a command holds on to what it has read, and    *)
(* the arguments it works with.                                            *)
Saving == {"check", "write", "replace"}

(* What record() writes is what its command says. *)
CommandInv ==
    /\ pc = "replace" => tmp[cmd.run] = cmd.outcome
    /\ pc \in {"write", "replace"} /\ case[cmd.run] # NoCase => cmd.revise
    /\ pc = "unlink" => cmd.drop
    /\ pc \in {"cases", "dirs", "files"} => cmd.kind = "import"
    /\ cmd.kind = "import" /\ pc \notin {"idle", "dirs", "files"} =>
          \A r \in todo : bundle.case[r] # NoCase

(* The case of a run is the last outcome stored for it, and the one that a *)
(* command read before it saved stands where it stood.                     *)
LastStored(r, n) == stored[r][Len(stored[r]) - n]

StoredInv ==
    /\ \A r \in Runs : case[r] # NoCase => stored[r] # <<>> /\ case[r] = LastStored(r, 0)
    /\ pc \in Saving /\ previous # NoCase =>
          stored[cmd.run] # <<>> /\ previous = LastStored(cmd.run, 0)
    /\ pc \in {"index", "append"} =>
          /\ stored[cmd.run] # <<>> /\ cmd.outcome = LastStored(cmd.run, 0)
          /\ previous # NoCase => Len(stored[cmd.run]) > 1 /\ previous = LastStored(cmd.run, 1)

(* The events of a run's log are of outcomes stored before the one that is *)
(* about to be told, and those of a bundle tell none of this device.       *)
AheadInv ==
    /\ pc \in {"index", "append"} =>
          \A i \in DOMAIN audit[cmd.run] : audit[cmd.run][i].at < Len(stored[cmd.run])
    /\ \A r \in Runs : \A i \in DOMAIN bundle.audit[r] : bundle.audit[r][i].at = 0

IndexInv == pc \notin {"index", "reindex"} /\ ~stale => index \in {Store!NoIndex, case}

StoreInv == /\ Store!TypeOK /\ previous # "partial" /\ CasesAreWhole /\ CommandInv
            /\ StoredInv /\ AheadInv /\ AuditRetellsHistory /\ IndexInv
-----------------------------------------------------------------------------
(* The parts of Store!TypeOK. *)
FileTypeOK ==
    /\ case \in [Runs -> Store!Files] /\ tmp \in [Runs -> Store!Files]
    /\ index = Store!NoIndex \/ index \in [Runs -> Store!Files]
    /\ dir \in [Runs -> Store!Dirs] /\ torn \in [Runs -> BOOLEAN]

AuditTypeOK == audit \in [Runs -> Seq(Store!Events)] /\ bundle \in Store!Bundles

CommandTypeOK ==
    /\ pc \in Store!Points /\ cmd \in Store!Commands
    /\ previous \in Store!Files /\ linked \in BOOLEAN /\ todo \subseteq Runs

HistoryTypeOK ==
    /\ commands \in 0..MaxCommands /\ crashes \in 0..MaxCrashes
    /\ stored \in [Runs -> Seq(Outcomes)] /\ replaced \in [Runs -> BOOLEAN]
    /\ stale \in BOOLEAN

LEMMA StoreTypeParts ==
  Store!TypeOK <=> FileTypeOK /\ AuditTypeOK /\ CommandTypeOK /\ HistoryTypeOK
BY DEF Store!TypeOK, FileTypeOK, AuditTypeOK, CommandTypeOK, HistoryTypeOK

\* The files of the store keep their types.
LEMMA FileTypeStep == Store!TypeOK /\ CommandInv /\ [Store!Next]_storeVars =>
   FileTypeOK'
<1> SUFFICES ASSUME Store!TypeOK, CommandInv, [Store!Next]_storeVars PROVE
             FileTypeOK'
  OBVIOUS
<1> USE StoreTypeParts DEF Store!vars, Store!fileVars, Store!commandVars,
        Store!boundVars, Store!historyVars, FileTypeOK, CommandTypeOK,
        Store!Files, Store!Dirs, Store!Commands, Store!NoIndex
<1>1. CASE Store!ReadPrevious
  BY <1>1 DEF Store!ReadPrevious
<1>2. CASE Store!CheckNew
  BY <1>2 DEF Store!CheckNew
<1>3. CASE Store!WriteTmp
  BY <1>3 DEF Store!WriteTmp
<1>4. CASE Store!Replace
  BY <1>4 DEF Store!Replace
<1>5. CASE Store!RebuildIndex
  BY <1>5 DEF Store!RebuildIndex, Store!Reindex
<1>6. CASE Store!AppendAudit
  BY <1>6 DEF Store!AppendAudit
<1>7. ASSUME NEW r \in Runs, NEW outcome \in Outcomes, NEW revise \in BOOLEAN,
           Store!Label(r, outcome, revise) PROVE FileTypeOK'
  BY <1>7 DEF Store!Label, Store!Given
<1>8. ASSUME NEW r \in Runs, NEW outcome \in Outcomes, NEW revise \in BOOLEAN,
           Store!Report(r, outcome, revise) PROVE FileTypeOK'
  BY <1>8 DEF Store!Report, Store!Given
<1>9. CASE Store!OpenAudit
  BY <1>9 DEF Store!OpenAudit
<1>10. CASE Store!Export
  BY <1>10 DEF Store!Export
<1>11. ASSUME NEW revise \in BOOLEAN, Store!Import(revise) PROVE FileTypeOK'
  BY <1>11 DEF Store!Import, Store!Given
<1>12. CASE Store!ImportCase
  BY <1>12 DEF Store!ImportCase
<1>13. CASE Store!ImportedCases
  BY <1>13 DEF Store!ImportedCases
<1>14. CASE Store!ImportDir
  BY <1>14 DEF Store!ImportDir
<1>15. CASE Store!ImportDone
  BY <1>15 DEF Store!ImportDone
<1>16. ASSUME NEW r \in Runs, NEW drop \in BOOLEAN, Store!Delete(r, drop) PROVE
           FileTypeOK'
  BY <1>16 DEF Store!Delete, Store!Given
<1>17. ASSUME NEW r \in Runs, NEW drop \in BOOLEAN, Store!Remove(r, drop) PROVE
           FileTypeOK'
  BY <1>17 DEF Store!Remove, Store!Given
<1>18. CASE Store!Unlink
  BY <1>18 DEF Store!Unlink
<1>19. CASE Store!RebuildAfterUnlink
  BY <1>19 DEF Store!RebuildAfterUnlink, Store!Reindex
<1>20. CASE Store!RemoveDir
  BY <1>20 DEF Store!RemoveDir
<1>21. CASE Store!Crash
  BY <1>21 DEF Store!Crash
<1>22. CASE UNCHANGED storeVars
  BY <1>22 DEF storeVars
<1>23. CASE Store!SkipDir
  BY <1>23 DEF Store!SkipDir
<1>24. CASE Store!ImportFiles
  BY <1>24 DEF Store!ImportFiles
<1> QED
  BY <1>1, <1>2, <1>3, <1>4, <1>5, <1>6, <1>7, <1>8, <1>9, <1>10, <1>11, <1>12,
     <1>13, <1>14, <1>15, <1>16, <1>17, <1>18, <1>19, <1>20, <1>21, <1>22, <1>23, <1>24 DEF
     Store!Next, Store!Finished, storeVars

\* So does the command.
LEMMA CommandTypeStep == Store!TypeOK /\ CommandInv /\ [Store!Next]_storeVars
   => CommandTypeOK'
<1> SUFFICES ASSUME Store!TypeOK, CommandInv, [Store!Next]_storeVars PROVE
             CommandTypeOK'
  OBVIOUS
<1> USE StoreTypeParts DEF Store!vars, Store!fileVars, Store!commandVars,
        Store!boundVars, Store!historyVars, CommandTypeOK, Store!Points,
        Store!Commands
<1>1. CASE Store!ReadPrevious
  BY <1>1 DEF Store!ReadPrevious, FileTypeOK, Store!Files
<1>2. CASE Store!CheckNew
  BY <1>2 DEF Store!CheckNew, Store!AfterRefusal
<1>3. CASE Store!WriteTmp
  BY <1>3 DEF Store!WriteTmp
<1>4. CASE Store!Replace
  BY <1>4 DEF Store!Replace
<1>5. CASE Store!RebuildIndex
  BY <1>5 DEF Store!RebuildIndex, Store!Reindex
<1>6. CASE Store!AppendAudit
  BY <1>6 DEF Store!AppendAudit
<1>7. ASSUME NEW r \in Runs, NEW outcome \in Outcomes, NEW revise \in BOOLEAN,
           Store!Label(r, outcome, revise) PROVE CommandTypeOK'
  BY <1>7 DEF Store!Label, Store!Given
<1>8. ASSUME NEW r \in Runs, NEW outcome \in Outcomes, NEW revise \in BOOLEAN,
           Store!Report(r, outcome, revise) PROVE CommandTypeOK'
  BY <1>8 DEF Store!Report, Store!Given
<1>9. CASE Store!OpenAudit
  BY <1>9 DEF Store!OpenAudit
<1>10. CASE Store!Export
  BY <1>10 DEF Store!Export
<1>11. ASSUME NEW revise \in BOOLEAN, Store!Import(revise) PROVE CommandTypeOK'
  BY <1>11 DEF Store!Import, Store!Given
<1>12. CASE Store!ImportCase
  BY <1>12 DEF Store!ImportCase, AuditTypeOK, Store!Bundles, Store!Records,
     CommandInv
<1>13. CASE Store!ImportedCases
  BY <1>13 DEF Store!ImportedCases
<1>14. CASE Store!ImportDir
  BY <1>14 DEF Store!ImportDir
<1>15. CASE Store!ImportDone
  BY <1>15 DEF Store!ImportDone
<1>16. ASSUME NEW r \in Runs, NEW drop \in BOOLEAN, Store!Delete(r, drop) PROVE
           CommandTypeOK'
  BY <1>16 DEF Store!Delete, Store!Given
<1>17. ASSUME NEW r \in Runs, NEW drop \in BOOLEAN, Store!Remove(r, drop) PROVE
           CommandTypeOK'
  BY <1>17 DEF Store!Remove, Store!Given
<1>18. CASE Store!Unlink
  BY <1>18 DEF Store!Unlink, Store!AfterUnlink
<1>19. CASE Store!RebuildAfterUnlink
  BY <1>19 DEF Store!RebuildAfterUnlink, Store!Reindex, Store!AfterUnlink
<1>20. CASE Store!RemoveDir
  BY <1>20 DEF Store!RemoveDir
<1>21. CASE Store!Crash
  BY <1>21 DEF Store!Crash
<1>22. CASE UNCHANGED storeVars
  BY <1>22 DEF storeVars
<1>23. CASE Store!SkipDir
  BY <1>23 DEF Store!SkipDir
<1>24. CASE Store!ImportFiles
  BY <1>24 DEF Store!ImportFiles
<1> QED
  BY <1>1, <1>2, <1>3, <1>4, <1>5, <1>6, <1>7, <1>8, <1>9, <1>10, <1>11, <1>12,
     <1>13, <1>14, <1>15, <1>16, <1>17, <1>18, <1>19, <1>20, <1>21, <1>22, <1>23, <1>24 DEF
     Store!Next, Store!Finished, storeVars

\* So do the bounds and what is remembered of the past.
LEMMA HistoryTypeStep == Store!TypeOK /\ CommandInv /\ [Store!Next]_storeVars
   => HistoryTypeOK'
<1> SUFFICES ASSUME Store!TypeOK, CommandInv, [Store!Next]_storeVars PROVE
             HistoryTypeOK'
  OBVIOUS
<1> USE StoreTypeParts, PartsAssumption DEF Store!vars, Store!fileVars,
        Store!commandVars, Store!boundVars, Store!historyVars, HistoryTypeOK,
        CommandTypeOK, Store!Commands, Store!StoreAssumption
<1>1. CASE Store!ReadPrevious
  BY <1>1 DEF Store!ReadPrevious
<1>2. CASE Store!CheckNew
  BY <1>2 DEF Store!CheckNew
<1>3. CASE Store!WriteTmp
  BY <1>3 DEF Store!WriteTmp
<1>4. CASE Store!Replace
  BY <1>4 DEF Store!Replace
<1>5. CASE Store!RebuildIndex
  BY <1>5 DEF Store!RebuildIndex, Store!Reindex
<1>6. CASE Store!AppendAudit
  BY <1>6 DEF Store!AppendAudit
<1>7. ASSUME NEW r \in Runs, NEW outcome \in Outcomes, NEW revise \in BOOLEAN,
           Store!Label(r, outcome, revise) PROVE HistoryTypeOK'
  BY <1>7 DEF Store!Label, Store!Given
<1>8. ASSUME NEW r \in Runs, NEW outcome \in Outcomes, NEW revise \in BOOLEAN,
           Store!Report(r, outcome, revise) PROVE HistoryTypeOK'
  BY <1>8 DEF Store!Report, Store!Given
<1>9. CASE Store!OpenAudit
  BY <1>9 DEF Store!OpenAudit
<1>10. CASE Store!Export
  BY <1>10 DEF Store!Export
<1>11. ASSUME NEW revise \in BOOLEAN, Store!Import(revise) PROVE HistoryTypeOK'
  BY <1>11 DEF Store!Import, Store!Given
<1>12. CASE Store!ImportCase
  BY <1>12 DEF Store!ImportCase
<1>13. CASE Store!ImportedCases
  BY <1>13 DEF Store!ImportedCases
<1>14. CASE Store!ImportDir
  BY <1>14 DEF Store!ImportDir
<1>15. CASE Store!ImportDone
  BY <1>15 DEF Store!ImportDone
<1>16. ASSUME NEW r \in Runs, NEW drop \in BOOLEAN, Store!Delete(r, drop) PROVE
           HistoryTypeOK'
  BY <1>16 DEF Store!Delete, Store!Given
<1>17. ASSUME NEW r \in Runs, NEW drop \in BOOLEAN, Store!Remove(r, drop) PROVE
           HistoryTypeOK'
  BY <1>17 DEF Store!Remove, Store!Given
<1>18. CASE Store!Unlink
  BY <1>18 DEF Store!Unlink
<1>19. CASE Store!RebuildAfterUnlink
  BY <1>19 DEF Store!RebuildAfterUnlink, Store!Reindex
<1>20. CASE Store!RemoveDir
  BY <1>20 DEF Store!RemoveDir
<1>21. CASE Store!Crash
  BY <1>21 DEF Store!Crash
<1>22. CASE UNCHANGED storeVars
  BY <1>22 DEF storeVars
<1>23. CASE Store!SkipDir
  BY <1>23 DEF Store!SkipDir
<1>24. CASE Store!ImportFiles
  BY <1>24 DEF Store!ImportFiles
<1> QED
  BY <1>1, <1>2, <1>3, <1>4, <1>5, <1>6, <1>7, <1>8, <1>9, <1>10, <1>11, <1>12,
     <1>13, <1>14, <1>15, <1>16, <1>17, <1>18, <1>19, <1>20, <1>21, <1>22, <1>23, <1>24 DEF
     Store!Next, Store!Finished, storeVars

\* An event keeps its type without its place.
LEMMA EventWithoutPlace ==
  ASSUME NEW e \in Store!Events
  PROVE  [e EXCEPT !.at = 0] \in Store!Events /\ [e EXCEPT !.at = 0].at = 0
BY DEF Store!Events

\* The bundles are well typed, another device's and the exported one.
LEMMA ExportedTyped ==
  ASSUME Store!TypeOK, CasesAreWhole, Store!Export
  PROVE  bundle' \in Store!Bundles
<1> USE StoreTypeParts
<1>1. [r \in Runs |-> IF r \in Store!Listed THEN case[r] ELSE NoCase] \in [Runs -> Store!Records]
  BY DEF CasesAreWhole, Store!CasesAreWhole, FileTypeOK, Store!Files, Store!Records
<1>2. ASSUME NEW r \in Runs
      PROVE  [i \in DOMAIN audit[r] |-> [audit[r][i] EXCEPT !.at = 0]] \in Seq(Store!Events)
  <2>1. audit[r] \in Seq(Store!Events) /\ Len(audit[r]) \in Nat /\ DOMAIN audit[r] = 1..Len(audit[r])
    BY DEF AuditTypeOK
  <2>2. \A i \in 1..Len(audit[r]) : [audit[r][i] EXCEPT !.at = 0] \in Store!Events
    BY <2>1, EventWithoutPlace, ElementOfSeq, Zenon
  <2> DEFINE e(i) == [audit[r][i] EXCEPT !.at = 0]
  <2>3. [i \in 1..Len(audit[r]) |-> e(i)] \in Seq(Store!Events)
    <3> HIDE DEF e
    <3>1. \A i \in 1..Len(audit[r]) : e(i) \in Store!Events
      BY <2>2 DEF e
    <3> QED
      BY <2>1, <3>1, IsASeq
  <2> QED
    BY <2>1, <2>3
<1>3. dir \in [Runs -> Store!Dirs]
  BY DEF FileTypeOK
<1> DEFINE cs == [r \in Runs |-> IF r \in Store!Listed THEN case[r] ELSE NoCase]
           au == [r \in Runs |-> [i \in DOMAIN audit[r] |-> [audit[r][i] EXCEPT !.at = 0]]]
<1>4. au \in [Runs -> Seq(Store!Events)]
  BY <1>2
<1>5. bundle' = [case |-> cs, dir |-> dir, audit |-> au]
  BY DEF Store!Export
<1> HIDE DEF cs, au
<1> QED
  BY <1>1, <1>3, <1>4, <1>5 DEF Store!Bundles, cs

\* The audit logs keep their type: what a command read is an outcome.
LEMMA AuditTypeStep == Store!TypeOK /\ CasesAreWhole /\ previous # "partial" /\
   [Store!Next]_storeVars => AuditTypeOK'
<1> SUFFICES ASSUME Store!TypeOK, CasesAreWhole, previous # "partial",
             [Store!Next]_storeVars PROVE AuditTypeOK'
  OBVIOUS
<1> USE StoreTypeParts DEF Store!vars, Store!fileVars, Store!commandVars,
        Store!boundVars, Store!historyVars, AuditTypeOK
<1>1. CASE Store!ReadPrevious
  BY <1>1 DEF Store!ReadPrevious
<1>2. CASE Store!CheckNew
  BY <1>2 DEF Store!CheckNew
<1>3. CASE Store!WriteTmp
  BY <1>3 DEF Store!WriteTmp
<1>4. CASE Store!Replace
  BY <1>4 DEF Store!Replace
<1>5. CASE Store!RebuildIndex
  BY <1>5 DEF Store!RebuildIndex, Store!Reindex
<1>6. CASE Store!AppendAudit
  <2>1. Store!CaseEvent \in Store!Events
    BY DEF Store!CaseEvent, Store!Events, Store!Records, Store!Files, CommandTypeOK, HistoryTypeOK,
       Store!Commands
  <2>2. PICK e \in Store!Events : e = Store!CaseEvent
    BY <2>1
  <2>3. audit' = [audit EXCEPT ![cmd.run] = Append(audit[cmd.run], e)] /\ bundle' = bundle
    BY <1>6, <2>2 DEF Store!AppendAudit
  <2>4. cmd.run \in Runs
    BY DEF CommandTypeOK, Store!Commands
  <2> QED
    BY <2>2, <2>3, <2>4
<1>7. ASSUME NEW r \in Runs, NEW outcome \in Outcomes, NEW revise \in BOOLEAN,
           Store!Label(r, outcome, revise) PROVE AuditTypeOK'
  BY <1>7 DEF Store!Label, Store!Given
<1>8. ASSUME NEW r \in Runs, NEW outcome \in Outcomes, NEW revise \in BOOLEAN,
           Store!Report(r, outcome, revise) PROVE AuditTypeOK'
  BY <1>8 DEF Store!Report, Store!Given
<1>9. CASE Store!OpenAudit
  BY <1>9 DEF Store!OpenAudit
<1>10. CASE Store!Export
  BY <1>10, ExportedTyped DEF Store!Export
<1>11. ASSUME NEW revise \in BOOLEAN, Store!Import(revise) PROVE AuditTypeOK'
  BY <1>11 DEF Store!Import, Store!Given
<1>12. CASE Store!ImportCase
  BY <1>12 DEF Store!ImportCase
<1>13. CASE Store!ImportedCases
  BY <1>13 DEF Store!ImportedCases
<1>14. CASE Store!ImportDir
  <2>1. PICK r \in todo : audit' = [audit EXCEPT ![r] = bundle.audit[r]]
    BY <1>14 DEF Store!ImportDir
  <2>2. bundle.audit \in [Runs -> Seq(Store!Events)] /\ r \in Runs
    BY <2>1, StoreTypeParts DEF AuditTypeOK, Store!Bundles, CommandTypeOK
  <2> QED
    BY <1>14, <2>1, <2>2 DEF Store!ImportDir
<1>15. CASE Store!ImportDone
  BY <1>15 DEF Store!ImportDone
<1>16. ASSUME NEW r \in Runs, NEW drop \in BOOLEAN, Store!Delete(r, drop) PROVE
           AuditTypeOK'
  BY <1>16 DEF Store!Delete, Store!Given
<1>17. ASSUME NEW r \in Runs, NEW drop \in BOOLEAN, Store!Remove(r, drop) PROVE
           AuditTypeOK'
  BY <1>17 DEF Store!Remove, Store!Given
<1>18. CASE Store!Unlink
  BY <1>18 DEF Store!Unlink
<1>19. CASE Store!RebuildAfterUnlink
  BY <1>19 DEF Store!RebuildAfterUnlink, Store!Reindex
<1>20. CASE Store!RemoveDir
  <2>1. audit' = [audit EXCEPT ![cmd.run] = <<>>] /\ bundle' = bundle
    BY <1>20 DEF Store!RemoveDir
  <2> QED
    BY <2>1, EmptySeq
<1>21. CASE Store!Crash
  BY <1>21 DEF Store!Crash
<1>22. CASE UNCHANGED storeVars
  BY <1>22 DEF storeVars
<1>23. CASE Store!SkipDir
  BY <1>23 DEF Store!SkipDir
<1>24. CASE Store!ImportFiles
  BY <1>24 DEF Store!ImportFiles
<1> QED
  BY <1>1, <1>2, <1>3, <1>4, <1>5, <1>6, <1>7, <1>8, <1>9, <1>10, <1>11, <1>12,
     <1>13, <1>14, <1>15, <1>16, <1>17, <1>18, <1>19, <1>20, <1>21, <1>22, <1>23, <1>24 DEF
     Store!Next, Store!Finished, storeVars

\* What a command writes is what it says.
LEMMA CommandStep == Store!TypeOK /\ CasesAreWhole /\ CommandInv /\
   [Store!Next]_storeVars => CommandInv'
<1> SUFFICES ASSUME Store!TypeOK, CasesAreWhole, CommandInv,
             [Store!Next]_storeVars PROVE CommandInv'
  OBVIOUS
<1> USE StoreTypeParts DEF Store!vars, Store!fileVars, Store!commandVars,
        Store!boundVars, Store!historyVars, CommandInv, CommandTypeOK,
        Store!Commands
<1>1. CASE Store!ReadPrevious
  BY <1>1 DEF Store!ReadPrevious
<1>2. CASE Store!CheckNew
  BY <1>2 DEF Store!CheckNew, Store!AfterRefusal
<1>3. CASE Store!WriteTmp
  BY <1>3 DEF Store!WriteTmp, FileTypeOK
<1>4. CASE Store!Replace
  BY <1>4 DEF Store!Replace
<1>5. CASE Store!RebuildIndex
  BY <1>5 DEF Store!RebuildIndex, Store!Reindex
<1>6. CASE Store!AppendAudit
  BY <1>6 DEF Store!AppendAudit
<1>7. ASSUME NEW r \in Runs, NEW outcome \in Outcomes, NEW revise \in BOOLEAN,
           Store!Label(r, outcome, revise) PROVE CommandInv'
  BY <1>7 DEF Store!Label, Store!Given
<1>8. ASSUME NEW r \in Runs, NEW outcome \in Outcomes, NEW revise \in BOOLEAN,
           Store!Report(r, outcome, revise) PROVE CommandInv'
  BY <1>8 DEF Store!Report, Store!Given
<1>9. CASE Store!OpenAudit
  BY <1>9 DEF Store!OpenAudit
<1>10. CASE Store!Export
  BY <1>10 DEF Store!Export
<1>11. ASSUME NEW revise \in BOOLEAN, Store!Import(revise) PROVE CommandInv'
  BY <1>11 DEF Store!Import, Store!Given, AuditTypeOK, Store!Bundles
<1>12. CASE Store!ImportCase
  BY <1>12 DEF Store!ImportCase
<1>13. CASE Store!ImportedCases
  BY <1>13 DEF Store!ImportedCases
<1>14. CASE Store!ImportDir
  BY <1>14 DEF Store!ImportDir
<1>15. CASE Store!ImportDone
  BY <1>15 DEF Store!ImportDone
<1>16. ASSUME NEW r \in Runs, NEW drop \in BOOLEAN, Store!Delete(r, drop) PROVE
           CommandInv'
  BY <1>16 DEF Store!Delete, Store!Given
<1>17. ASSUME NEW r \in Runs, NEW drop \in BOOLEAN, Store!Remove(r, drop) PROVE
           CommandInv'
  BY <1>17 DEF Store!Remove, Store!Given
<1>18. CASE Store!Unlink
  BY <1>18 DEF Store!Unlink, Store!AfterUnlink
<1>19. CASE Store!RebuildAfterUnlink
  BY <1>19 DEF Store!RebuildAfterUnlink, Store!Reindex, Store!AfterUnlink
<1>20. CASE Store!RemoveDir
  <2>1. CASE cmd.kind = "remove" /\ cmd.drop
    BY <1>20, <2>1 DEF Store!RemoveDir
  <2>2. CASE ~(cmd.kind = "remove" /\ cmd.drop)
    BY <1>20, <2>2 DEF Store!RemoveDir
  <2> QED
    BY <2>1, <2>2, Zenon
<1>21. CASE Store!Crash
  BY <1>21 DEF Store!Crash
<1>22. CASE UNCHANGED storeVars
  BY <1>22 DEF storeVars
<1>23. CASE Store!SkipDir
  BY <1>23 DEF Store!SkipDir
<1>24. CASE Store!ImportFiles
  BY <1>24 DEF Store!ImportFiles
<1> QED
  BY <1>1, <1>2, <1>3, <1>4, <1>5, <1>6, <1>7, <1>8, <1>9, <1>10, <1>11, <1>12,
     <1>13, <1>14, <1>15, <1>16, <1>17, <1>18, <1>19, <1>20, <1>21, <1>22, <1>23, <1>24 DEF
     Store!Next, Store!Finished, storeVars

\* No case is in parts, and no command has read one that is.
LEMMA WholeStep == Store!TypeOK /\ CasesAreWhole /\ CommandInv /\ previous #
   "partial" /\ [Store!Next]_storeVars => (CasesAreWhole /\ previous #
   "partial")'
<1> SUFFICES ASSUME Store!TypeOK, CasesAreWhole, CommandInv, previous #
             "partial", [Store!Next]_storeVars PROVE (CasesAreWhole /\ previous
             # "partial")'
  OBVIOUS
<1> USE StoreTypeParts DEF Store!vars, Store!fileVars, Store!commandVars,
        Store!boundVars, Store!historyVars, CasesAreWhole, Store!CasesAreWhole,
        FileTypeOK, CommandTypeOK, Store!Commands
<1>1. CASE Store!ReadPrevious
  BY <1>1, PartsAssumption DEF Store!ReadPrevious, Store!StoreAssumption
<1>2. CASE Store!CheckNew
  BY <1>2 DEF Store!CheckNew
<1>3. CASE Store!WriteTmp
  BY <1>3 DEF Store!WriteTmp
<1>4. CASE Store!Replace
  BY <1>4, PartsAssumption DEF Store!Replace, CommandInv, Store!Files,
     Store!StoreAssumption
<1>5. CASE Store!RebuildIndex
  BY <1>5 DEF Store!RebuildIndex, Store!Reindex
<1>6. CASE Store!AppendAudit
  BY <1>6 DEF Store!AppendAudit
<1>7. ASSUME NEW r \in Runs, NEW outcome \in Outcomes, NEW revise \in BOOLEAN,
           Store!Label(r, outcome, revise) PROVE (CasesAreWhole /\ previous #
           "partial")'
  BY <1>7 DEF Store!Label, Store!Given
<1>8. ASSUME NEW r \in Runs, NEW outcome \in Outcomes, NEW revise \in BOOLEAN,
           Store!Report(r, outcome, revise) PROVE (CasesAreWhole /\ previous #
           "partial")'
  BY <1>8 DEF Store!Report, Store!Given
<1>9. CASE Store!OpenAudit
  BY <1>9 DEF Store!OpenAudit
<1>10. CASE Store!Export
  BY <1>10 DEF Store!Export
<1>11. ASSUME NEW revise \in BOOLEAN, Store!Import(revise) PROVE (CasesAreWhole
           /\ previous # "partial")'
  BY <1>11 DEF Store!Import, Store!Given
<1>12. CASE Store!ImportCase
  BY <1>12 DEF Store!ImportCase
<1>13. CASE Store!ImportedCases
  BY <1>13 DEF Store!ImportedCases
<1>14. CASE Store!ImportDir
  BY <1>14 DEF Store!ImportDir
<1>15. CASE Store!ImportDone
  BY <1>15 DEF Store!ImportDone
<1>16. ASSUME NEW r \in Runs, NEW drop \in BOOLEAN, Store!Delete(r, drop) PROVE
           (CasesAreWhole /\ previous # "partial")'
  BY <1>16 DEF Store!Delete, Store!Given
<1>17. ASSUME NEW r \in Runs, NEW drop \in BOOLEAN, Store!Remove(r, drop) PROVE
           (CasesAreWhole /\ previous # "partial")'
  BY <1>17 DEF Store!Remove, Store!Given
<1>18. CASE Store!Unlink
  BY <1>18, PartsAssumption DEF Store!Unlink, Store!StoreAssumption
<1>19. CASE Store!RebuildAfterUnlink
  BY <1>19 DEF Store!RebuildAfterUnlink, Store!Reindex
<1>20. CASE Store!RemoveDir
  BY <1>20 DEF Store!RemoveDir
<1>21. CASE Store!Crash
  BY <1>21 DEF Store!Crash
<1>22. CASE UNCHANGED storeVars
  BY <1>22 DEF storeVars
<1>23. CASE Store!SkipDir
  BY <1>23 DEF Store!SkipDir
<1>24. CASE Store!ImportFiles
  BY <1>24 DEF Store!ImportFiles
<1> QED
  BY <1>1, <1>2, <1>3, <1>4, <1>5, <1>6, <1>7, <1>8, <1>9, <1>10, <1>11, <1>12,
     <1>13, <1>14, <1>15, <1>16, <1>17, <1>18, <1>19, <1>20, <1>21, <1>22, <1>23, <1>24 DEF
     Store!Next, Store!Finished, storeVars

\* The case of a run is the last outcome stored for it.
LEMMA StoredStep == Store!TypeOK /\ CommandInv /\ StoredInv /\
   [Store!Next]_storeVars => StoredInv'
<1> SUFFICES ASSUME Store!TypeOK, CommandInv, StoredInv, [Store!Next]_storeVars
             PROVE StoredInv'
  OBVIOUS
<1> USE StoreTypeParts DEF Store!vars, Store!fileVars, Store!commandVars,
        Store!boundVars, Store!historyVars, StoredInv, Saving, LastStored,
        CommandTypeOK, Store!Commands, HistoryTypeOK
<1>1. CASE Store!ReadPrevious
  BY <1>1 DEF Store!ReadPrevious
<1>2. CASE Store!CheckNew
  BY <1>2 DEF Store!CheckNew, Store!AfterRefusal
<1>3. CASE Store!WriteTmp
  BY <1>3 DEF Store!WriteTmp
<1>4. CASE Store!Replace
  <2> DEFINE run == cmd.run
  <2>1. run \in Runs /\ cmd' = cmd /\ tmp[run] = cmd.outcome /\ cmd.outcome \in Outcomes
    BY <1>4 DEF Store!Replace, CommandInv
  <2>2. /\ case' = [case EXCEPT ![run] = cmd.outcome]
        /\ stored' = [stored EXCEPT ![run] = Append(stored[run], cmd.outcome)]
        /\ previous' = previous /\ pc = "replace" /\ pc' = "index"
    BY <1>4, <2>1 DEF Store!Replace
  <2>3. /\ stored[run] \in Seq(Outcomes) /\ stored'[run] = Append(stored[run], cmd.outcome)
        /\ Len(stored'[run]) = Len(stored[run]) + 1 /\ stored'[run] # <<>>
        /\ stored'[run][Len(stored'[run])] = cmd.outcome
        /\ \A i \in 1..Len(stored[run]) : stored'[run][i] = stored[run][i]
    <3>1. stored[run] \in Seq(Outcomes) /\ stored'[run] = Append(stored[run], cmd.outcome)
      BY <2>1, <2>2
    <3> QED
      BY <2>1, <3>1, AppendProperties, LenProperties
  <2>4. \A r \in Runs : r # run => case'[r] = case[r] /\ stored'[r] = stored[r]
    BY <2>1, <2>2 DEF FileTypeOK
  <2>5. case'[run] = cmd.outcome
    BY <2>1, <2>2 DEF FileTypeOK
  <2>6. \A r \in Runs : case'[r] # NoCase => stored'[r] # <<>> /\ case'[r] = LastStored(r, 0)'
    BY <2>1, <2>3, <2>4, <2>5
  <2>7. previous # NoCase => /\ Len(stored'[run]) > 1
                             /\ previous = stored'[run][Len(stored'[run]) - 1]
    BY <2>1, <2>2, <2>3
  <2> QED
    BY <2>1, <2>2, <2>3, <2>6, <2>7
<1>5. CASE Store!RebuildIndex
  BY <1>5 DEF Store!RebuildIndex, Store!Reindex
<1>6. CASE Store!AppendAudit
  BY <1>6 DEF Store!AppendAudit
<1>7. ASSUME NEW r \in Runs, NEW outcome \in Outcomes, NEW revise \in BOOLEAN,
           Store!Label(r, outcome, revise) PROVE StoredInv'
  BY <1>7 DEF Store!Label, Store!Given
<1>8. ASSUME NEW r \in Runs, NEW outcome \in Outcomes, NEW revise \in BOOLEAN,
           Store!Report(r, outcome, revise) PROVE StoredInv'
  BY <1>8 DEF Store!Report, Store!Given
<1>9. CASE Store!OpenAudit
  BY <1>9 DEF Store!OpenAudit
<1>10. CASE Store!Export
  BY <1>10 DEF Store!Export
<1>11. ASSUME NEW revise \in BOOLEAN, Store!Import(revise) PROVE StoredInv'
  BY <1>11 DEF Store!Import, Store!Given
<1>12. CASE Store!ImportCase
  BY <1>12 DEF Store!ImportCase
<1>13. CASE Store!ImportedCases
  BY <1>13 DEF Store!ImportedCases
<1>14. CASE Store!ImportDir
  BY <1>14 DEF Store!ImportDir
<1>15. CASE Store!ImportDone
  BY <1>15 DEF Store!ImportDone
<1>16. ASSUME NEW r \in Runs, NEW drop \in BOOLEAN, Store!Delete(r, drop) PROVE
           StoredInv'
  BY <1>16 DEF Store!Delete, Store!Given
<1>17. ASSUME NEW r \in Runs, NEW drop \in BOOLEAN, Store!Remove(r, drop) PROVE
           StoredInv'
  BY <1>17 DEF Store!Remove, Store!Given
<1>18. CASE Store!Unlink
  BY <1>18 DEF Store!Unlink, FileTypeOK, Store!AfterUnlink
<1>19. CASE Store!RebuildAfterUnlink
  BY <1>19 DEF Store!RebuildAfterUnlink, Store!Reindex, Store!AfterUnlink
<1>20. CASE Store!RemoveDir
  BY <1>20 DEF Store!RemoveDir
<1>21. CASE Store!Crash
  BY <1>21 DEF Store!Crash
<1>22. CASE UNCHANGED storeVars
  BY <1>22 DEF storeVars
<1>23. CASE Store!SkipDir
  BY <1>23 DEF Store!SkipDir
<1>24. CASE Store!ImportFiles
  BY <1>24 DEF Store!ImportFiles
<1> QED
  BY <1>1, <1>2, <1>3, <1>4, <1>5, <1>6, <1>7, <1>8, <1>9, <1>10, <1>11, <1>12,
     <1>13, <1>14, <1>15, <1>16, <1>17, <1>18, <1>19, <1>20, <1>21, <1>22, <1>23, <1>24, SMTT(30)
  DEF Store!Next, Store!Finished, storeVars

\* The index is what the files are.
LEMMA IndexStep == Store!TypeOK /\ IndexInv /\ [Store!Next]_storeVars =>
   IndexInv'
<1> SUFFICES ASSUME Store!TypeOK, IndexInv, [Store!Next]_storeVars PROVE
             IndexInv'
  OBVIOUS
<1> USE StoreTypeParts DEF Store!vars, Store!fileVars, Store!commandVars,
        Store!boundVars, Store!historyVars, IndexInv, FileTypeOK
<1>1. CASE Store!ReadPrevious
  BY <1>1 DEF Store!ReadPrevious
<1>2. CASE Store!CheckNew
  BY <1>2 DEF Store!CheckNew, Store!AfterRefusal
<1>3. CASE Store!WriteTmp
  BY <1>3 DEF Store!WriteTmp
<1>4. CASE Store!Replace
  BY <1>4 DEF Store!Replace
<1>5. CASE Store!RebuildIndex
  BY <1>5 DEF Store!RebuildIndex, Store!Reindex
<1>6. CASE Store!AppendAudit
  BY <1>6 DEF Store!AppendAudit
<1>7. ASSUME NEW r \in Runs, NEW outcome \in Outcomes, NEW revise \in BOOLEAN,
           Store!Label(r, outcome, revise) PROVE IndexInv'
  BY <1>7 DEF Store!Label, Store!Given
<1>8. ASSUME NEW r \in Runs, NEW outcome \in Outcomes, NEW revise \in BOOLEAN,
           Store!Report(r, outcome, revise) PROVE IndexInv'
  BY <1>8 DEF Store!Report, Store!Given
<1>9. CASE Store!OpenAudit
  BY <1>9 DEF Store!OpenAudit
<1>10. CASE Store!Export
  BY <1>10 DEF Store!Export
<1>11. ASSUME NEW revise \in BOOLEAN, Store!Import(revise) PROVE IndexInv'
  BY <1>11 DEF Store!Import, Store!Given
<1>12. CASE Store!ImportCase
  BY <1>12 DEF Store!ImportCase
<1>13. CASE Store!ImportedCases
  BY <1>13 DEF Store!ImportedCases
<1>14. CASE Store!ImportDir
  BY <1>14 DEF Store!ImportDir
<1>15. CASE Store!ImportDone
  BY <1>15 DEF Store!ImportDone
<1>16. ASSUME NEW r \in Runs, NEW drop \in BOOLEAN, Store!Delete(r, drop) PROVE
           IndexInv'
  BY <1>16 DEF Store!Delete, Store!Given
<1>17. ASSUME NEW r \in Runs, NEW drop \in BOOLEAN, Store!Remove(r, drop) PROVE
           IndexInv'
  BY <1>17 DEF Store!Remove, Store!Given
<1>18. CASE Store!Unlink
  BY <1>18 DEF Store!Unlink, Store!AfterUnlink, CommandTypeOK, Store!Commands
<1>19. CASE Store!RebuildAfterUnlink
  BY <1>19 DEF Store!RebuildAfterUnlink, Store!Reindex, Store!AfterUnlink
<1>20. CASE Store!RemoveDir
  BY <1>20 DEF Store!RemoveDir
<1>21. CASE Store!Crash
  BY <1>21 DEF Store!Crash
<1>22. CASE UNCHANGED storeVars
  BY <1>22 DEF storeVars
<1>23. CASE Store!SkipDir
  BY <1>23 DEF Store!SkipDir
<1>24. CASE Store!ImportFiles
  BY <1>24 DEF Store!ImportFiles
<1> QED
  BY <1>1, <1>2, <1>3, <1>4, <1>5, <1>6, <1>7, <1>8, <1>9, <1>10, <1>11, <1>12,
     <1>13, <1>14, <1>15, <1>16, <1>17, <1>18, <1>19, <1>20, <1>21, <1>22, <1>23, <1>24 DEF
     Store!Next, Store!Finished, storeVars

(* A log tells a history: AuditRetellsHistory, of one run. *)
Retold(a, s) ==
    \A i \in DOMAIN a :
        a[i].at > 0 =>
            /\ a[i].at <= Len(s) /\ s[a[i].at] = a[i].outcome
            /\ a[i].kind = "case_revised" => a[i].at > 1 /\ a[i].prev = s[a[i].at - 1]
            /\ \A j \in 1..i-1 : a[j].at < a[i].at

LEMMA RetoldEach == AuditRetellsHistory <=> \A r \in Runs : Retold(audit[r], stored[r])
BY DEF AuditRetellsHistory, Store!AuditRetellsHistory, Retold

\* What was told stays told when another outcome is stored,
LEMMA RetoldLonger ==
  ASSUME NEW a \in Seq(Store!Events), NEW s \in Seq(Outcomes), NEW o \in Outcomes, Retold(a, s)
  PROVE  /\ Retold(a, Append(s, o))
         /\ \A i \in DOMAIN a : a[i].at < Len(Append(s, o))
<1>1. /\ Len(Append(s, o)) = Len(s) + 1 /\ Len(s) \in Nat
      /\ \A k \in 1..Len(s) : Append(s, o)[k] = s[k]
  BY AppendProperties, LenProperties
<1>2. \A i \in DOMAIN a : a[i].at \in Nat
  <2>1. \A i \in DOMAIN a : a[i] \in Store!Events
    BY LenProperties, ElementOfSeq
  <2> QED
    BY <2>1 DEF Store!Events
<1>3. ASSUME NEW i \in DOMAIN a, a[i].at > 0
      PROVE  /\ a[i].at <= Len(Append(s, o)) /\ Append(s, o)[a[i].at] = a[i].outcome
             /\ a[i].kind = "case_revised" =>
                   a[i].at > 1 /\ a[i].prev = Append(s, o)[a[i].at - 1]
             /\ \A j \in 1..i-1 : a[j].at < a[i].at
  <2>1. a[i].at \in 1..Len(s) /\ s[a[i].at] = a[i].outcome
    BY <1>1, <1>2, <1>3 DEF Retold
  <2>2. a[i].kind = "case_revised" => a[i].at > 1 /\ a[i].prev = s[a[i].at - 1]
    BY <1>3 DEF Retold
  <2>3. \A j \in 1..i-1 : a[j].at < a[i].at
    BY <1>3 DEF Retold
  <2> QED
    BY <1>1, <2>1, <2>2, <2>3
<1>4. Retold(a, Append(s, o))
  BY <1>3, Zenon DEF Retold
<1>5. ASSUME NEW i \in DOMAIN a PROVE a[i].at < Len(Append(s, o))
  BY <1>1, <1>2 DEF Retold
<1> QED
  BY <1>4, <1>5

\* and an event of the outcome stored last can be told after all of them.
LEMMA RetoldMore ==
  ASSUME NEW a \in Seq(Store!Events), NEW s \in Seq(Outcomes), NEW e \in Store!Events,
         Retold(a, s), \A i \in DOMAIN a : a[i].at < Len(s),
         s # <<>>, e.at = Len(s), e.outcome = s[Len(s)],
         e.kind = "case_revised" => Len(s) > 1 /\ e.prev = s[Len(s) - 1]
  PROVE  Retold(Append(a, e), s)
<1> DEFINE b == Append(a, e)
<1>1. /\ Len(a) \in Nat /\ DOMAIN a = 1..Len(a) /\ DOMAIN b = 1..Len(a) + 1
      /\ \A i \in 1..Len(a) : b[i] = a[i]
      /\ b[Len(a) + 1] = e
  BY AppendProperties, LenProperties
<1> HIDE DEF b
<1>2. ASSUME NEW i \in DOMAIN b, b[i].at > 0
      PROVE  /\ b[i].at <= Len(s) /\ s[b[i].at] = b[i].outcome
             /\ b[i].kind = "case_revised" => b[i].at > 1 /\ b[i].prev = s[b[i].at - 1]
             /\ \A j \in 1..i-1 : b[j].at < b[i].at
  <2>1. CASE i \in 1..Len(a)
    <3>1. b[i] = a[i] /\ i \in DOMAIN a /\ \A j \in 1..i-1 : b[j] = a[j]
      BY <1>1, <2>1
    <3>2. /\ a[i].at <= Len(s) /\ s[a[i].at] = a[i].outcome
          /\ a[i].kind = "case_revised" => a[i].at > 1 /\ a[i].prev = s[a[i].at - 1]
          /\ \A j \in 1..i-1 : a[j].at < a[i].at
      BY <1>2, <3>1 DEF Retold
    <3> QED
      BY <3>1, <3>2
  <2>2. CASE i = Len(a) + 1
    <3>1. b[i] = e /\ Len(s) \in Nat
      BY <1>1, <2>2, LenProperties
    <3>2. \A j \in 1..i-1 : b[j].at < e.at
      BY <1>1, <2>2
    <3> QED
      BY <3>1, <3>2
  <2> QED
    BY <1>1, <2>1, <2>2
<1>3. Retold(b, s)
  BY <1>2, Zenon DEF Retold
<1> QED
  BY <1>3 DEF b

\* The event to be told is later than those told.
LEMMA AheadStep == Store!TypeOK /\ previous # "partial" /\ StoredInv /\
   AheadInv /\ AuditRetellsHistory /\ [Store!Next]_storeVars => AheadInv'
<1> SUFFICES ASSUME Store!TypeOK, previous # "partial", StoredInv, AheadInv,
             AuditRetellsHistory, [Store!Next]_storeVars PROVE AheadInv'
  OBVIOUS
<1> USE StoreTypeParts DEF Store!vars, Store!fileVars, Store!commandVars,
        Store!boundVars, Store!historyVars, AheadInv, CommandTypeOK,
        HistoryTypeOK
<1>1. CASE Store!ReadPrevious
  BY <1>1 DEF Store!ReadPrevious
<1>2. CASE Store!CheckNew
  BY <1>2 DEF Store!CheckNew, Store!AfterRefusal
<1>3. CASE Store!WriteTmp
  BY <1>3 DEF Store!WriteTmp
<1>4. CASE Store!Replace
  <2> DEFINE run == cmd.run
  <2>1. run \in Runs /\ cmd.outcome \in Outcomes /\ audit' = audit /\ bundle' = bundle /\ cmd' = cmd
    BY <1>4 DEF Store!Replace, Store!Commands
  <2>2. stored' = [stored EXCEPT ![run] = Append(stored[run], cmd.outcome)]
    BY <1>4 DEF Store!Replace
  <2>3. audit[run] \in Seq(Store!Events) /\ stored[run] \in Seq(Outcomes)
    BY <2>1 DEF AuditTypeOK
  <2>4. Retold(audit[run], stored[run])
    BY <2>1, RetoldEach
  <2>5. stored'[run] = Append(stored[run], cmd.outcome)
    BY <2>1, <2>2
  <2>6. \A i \in DOMAIN audit[run] : audit[run][i].at < Len(stored'[run])
    BY <2>1, <2>3, <2>4, <2>5, RetoldLonger
  <2> QED
    BY <2>1, <2>6
<1>5. CASE Store!RebuildIndex
  BY <1>5 DEF Store!RebuildIndex, Store!Reindex
<1>6. CASE Store!AppendAudit
  BY <1>6 DEF Store!AppendAudit
<1>7. ASSUME NEW r \in Runs, NEW outcome \in Outcomes, NEW revise \in BOOLEAN,
           Store!Label(r, outcome, revise) PROVE AheadInv'
  BY <1>7 DEF Store!Label, Store!Given
<1>8. ASSUME NEW r \in Runs, NEW outcome \in Outcomes, NEW revise \in BOOLEAN,
           Store!Report(r, outcome, revise) PROVE AheadInv'
  BY <1>8 DEF Store!Report, Store!Given
<1>9. CASE Store!OpenAudit
  BY <1>9 DEF Store!OpenAudit
<1>10. CASE Store!Export
  <2>1. ASSUME NEW r \in Runs, NEW i \in DOMAIN bundle'.audit[r]
        PROVE  bundle'.audit[r][i].at = 0
    <3>1. /\ bundle'.audit[r] = [k \in DOMAIN audit[r] |-> [audit[r][k] EXCEPT !.at = 0]]
          /\ i \in DOMAIN audit[r]
      BY <1>10, <2>1 DEF Store!Export
    <3>2. audit[r][i] \in Store!Events
      BY <3>1, LenProperties, ElementOfSeq DEF AuditTypeOK
    <3> QED
      BY <3>1, <3>2, EventWithoutPlace
  <2> QED
    BY <1>10, <2>1 DEF Store!Export
<1>11. ASSUME NEW revise \in BOOLEAN, Store!Import(revise) PROVE AheadInv'
  BY <1>11 DEF Store!Import, Store!Given
<1>12. CASE Store!ImportCase
  BY <1>12 DEF Store!ImportCase
<1>13. CASE Store!ImportedCases
  BY <1>13 DEF Store!ImportedCases
<1>14. CASE Store!ImportDir
  BY <1>14 DEF Store!ImportDir
<1>15. CASE Store!ImportDone
  BY <1>15 DEF Store!ImportDone
<1>16. ASSUME NEW r \in Runs, NEW drop \in BOOLEAN, Store!Delete(r, drop) PROVE
           AheadInv'
  BY <1>16 DEF Store!Delete, Store!Given
<1>17. ASSUME NEW r \in Runs, NEW drop \in BOOLEAN, Store!Remove(r, drop) PROVE
           AheadInv'
  BY <1>17 DEF Store!Remove, Store!Given
<1>18. CASE Store!Unlink
  BY <1>18 DEF Store!Unlink, Store!AfterUnlink
<1>19. CASE Store!RebuildAfterUnlink
  BY <1>19 DEF Store!RebuildAfterUnlink, Store!Reindex, Store!AfterUnlink
<1>20. CASE Store!RemoveDir
  BY <1>20 DEF Store!RemoveDir
<1>21. CASE Store!Crash
  BY <1>21 DEF Store!Crash
<1>22. CASE UNCHANGED storeVars
  BY <1>22 DEF storeVars
<1>23. CASE Store!SkipDir
  BY <1>23 DEF Store!SkipDir
<1>24. CASE Store!ImportFiles
  BY <1>24 DEF Store!ImportFiles
<1> QED
  BY <1>1, <1>2, <1>3, <1>4, <1>5, <1>6, <1>7, <1>8, <1>9, <1>10, <1>11, <1>12,
     <1>13, <1>14, <1>15, <1>16, <1>17, <1>18, <1>19, <1>20, <1>21, <1>22, <1>23, <1>24 DEF
     Store!Next, Store!Finished, storeVars

\* The log of a run tells what was stored, in order.
LEMMA RetellStep == Store!TypeOK /\ previous # "partial" /\ StoredInv /\
   AheadInv /\ AuditRetellsHistory /\ [Store!Next]_storeVars =>
   AuditRetellsHistory'
<1> SUFFICES ASSUME Store!TypeOK, previous # "partial", StoredInv, AheadInv,
             AuditRetellsHistory, [Store!Next]_storeVars PROVE
             AuditRetellsHistory'
  OBVIOUS
<1> USE StoreTypeParts DEF Store!vars, Store!fileVars, Store!commandVars,
        Store!boundVars, Store!historyVars, CommandTypeOK, HistoryTypeOK
<1>1. CASE Store!ReadPrevious
  BY <1>1 DEF Store!ReadPrevious, AuditRetellsHistory,
     Store!AuditRetellsHistory
<1>2. CASE Store!CheckNew
  BY <1>2 DEF Store!CheckNew, AuditRetellsHistory, Store!AuditRetellsHistory
<1>3. CASE Store!WriteTmp
  BY <1>3 DEF Store!WriteTmp, AuditRetellsHistory, Store!AuditRetellsHistory
<1>4. CASE Store!Replace
  <2> DEFINE run == cmd.run
  <2>1. run \in Runs /\ cmd.outcome \in Outcomes /\ audit' = audit /\ bundle' = bundle /\ cmd' = cmd
    BY <1>4 DEF Store!Replace, Store!Commands
  <2>2. stored' = [stored EXCEPT ![run] = Append(stored[run], cmd.outcome)]
    BY <1>4 DEF Store!Replace
  <2>3. audit[run] \in Seq(Store!Events) /\ stored[run] \in Seq(Outcomes)
    BY <2>1 DEF AuditTypeOK
  <2>4. Retold(audit[run], stored[run])
    BY <2>1, RetoldEach
  <2>5. stored'[run] = Append(stored[run], cmd.outcome)
    BY <2>1, <2>2
  <2>6. Retold(audit[run], stored'[run])
    BY <2>1, <2>3, <2>4, <2>5, RetoldLonger
  <2>7. \A r \in Runs : r # run => stored'[r] = stored[r]
    BY <2>1, <2>2
  <2>8. \A r \in Runs : Retold(audit'[r], stored'[r])
    BY <2>1, <2>6, <2>7, RetoldEach
  <2> QED
    BY <2>8 DEF AuditRetellsHistory,
       Store!AuditRetellsHistory, Retold
<1>5. CASE Store!RebuildIndex
  BY <1>5 DEF Store!RebuildIndex, Store!Reindex, AuditRetellsHistory,
     Store!AuditRetellsHistory
<1>6. CASE Store!AppendAudit
  <2> DEFINE run == cmd.run
  <2>1. run \in Runs /\ cmd.outcome \in Outcomes /\ pc = "append" /\ stored' = stored
    BY <1>6 DEF Store!AppendAudit, Store!Commands
  <2>2. PICK e : e = Store!CaseEvent
    OBVIOUS
  <2>3. audit' = [audit EXCEPT ![run] = Append(audit[run], e)]
    BY <1>6, <2>2 DEF Store!AppendAudit
  <2>4. audit[run] \in Seq(Store!Events) /\ stored[run] \in Seq(Outcomes)
    BY <2>1 DEF AuditTypeOK
  <2>5. /\ e.at = Len(stored[run]) /\ e.outcome = cmd.outcome /\ e.prev = previous
        /\ e.kind = "case_revised" => previous # NoCase
    BY <2>2 DEF Store!CaseEvent
  <2>6. /\ stored[run] # <<>> /\ e.outcome = stored[run][Len(stored[run])]
        /\ previous # NoCase => /\ Len(stored[run]) > 1
                                /\ previous = stored[run][Len(stored[run]) - 1]
        /\ \A i \in DOMAIN audit[run] : audit[run][i].at < Len(stored[run])
    BY <2>1, <2>4, <2>5 DEF StoredInv, LastStored, AheadInv
  <2>7. e \in Store!Events
    BY <2>1, <2>2, <2>4 DEF Store!CaseEvent, Store!Events, Store!Records, Store!Files
  <2>8. Retold(audit[run], stored[run])
    BY <2>1, RetoldEach
  <2>9. Retold(Append(audit[run], e), stored[run])
    BY <2>4, <2>5, <2>6, <2>7, <2>8, RetoldMore
  <2>10. \A r \in Runs : Retold(audit'[r], stored'[r])
    BY <2>1, <2>3, <2>9, RetoldEach DEF AuditTypeOK
  <2> QED
    BY <2>10 DEF AuditRetellsHistory,
       Store!AuditRetellsHistory, Retold
<1>7. ASSUME NEW r \in Runs, NEW outcome \in Outcomes, NEW revise \in BOOLEAN,
           Store!Label(r, outcome, revise) PROVE AuditRetellsHistory'
  BY <1>7 DEF Store!Label, Store!Given, AuditRetellsHistory,
     Store!AuditRetellsHistory
<1>8. ASSUME NEW r \in Runs, NEW outcome \in Outcomes, NEW revise \in BOOLEAN,
           Store!Report(r, outcome, revise) PROVE AuditRetellsHistory'
  BY <1>8 DEF Store!Report, Store!Given, AuditRetellsHistory,
     Store!AuditRetellsHistory
<1>9. CASE Store!OpenAudit
  BY <1>9 DEF Store!OpenAudit, AuditRetellsHistory, Store!AuditRetellsHistory
<1>10. CASE Store!Export
  BY <1>10 DEF Store!Export, AuditRetellsHistory, Store!AuditRetellsHistory
<1>11. ASSUME NEW revise \in BOOLEAN, Store!Import(revise) PROVE
           AuditRetellsHistory'
  BY <1>11 DEF Store!Import, Store!Given, AuditRetellsHistory,
     Store!AuditRetellsHistory
<1>12. CASE Store!ImportCase
  BY <1>12 DEF Store!ImportCase, AuditRetellsHistory, Store!AuditRetellsHistory
<1>13. CASE Store!ImportedCases
  BY <1>13 DEF Store!ImportedCases, AuditRetellsHistory,
     Store!AuditRetellsHistory
<1>14. CASE Store!ImportDir
  <2>1. PICK r \in todo : audit' = [audit EXCEPT ![r] = bundle.audit[r]]
    BY <1>14 DEF Store!ImportDir
  <2>2. r \in Runs /\ stored' = stored
    BY <1>14, <2>1 DEF Store!ImportDir
  <2>3. Retold(bundle.audit[r], stored[r])
    BY <2>2 DEF Retold, AheadInv
  <2>4. \A q \in Runs : Retold(audit'[q], stored'[q])
    BY <2>1, <2>2, <2>3, RetoldEach DEF AuditTypeOK
  <2> QED
    BY <2>4 DEF AuditRetellsHistory, Store!AuditRetellsHistory, Retold
<1>15. CASE Store!ImportDone
  BY <1>15 DEF Store!ImportDone, AuditRetellsHistory, Store!AuditRetellsHistory
<1>16. ASSUME NEW r \in Runs, NEW drop \in BOOLEAN, Store!Delete(r, drop) PROVE
           AuditRetellsHistory'
  BY <1>16 DEF Store!Delete, Store!Given, AuditRetellsHistory,
     Store!AuditRetellsHistory
<1>17. ASSUME NEW r \in Runs, NEW drop \in BOOLEAN, Store!Remove(r, drop) PROVE
           AuditRetellsHistory'
  BY <1>17 DEF Store!Remove, Store!Given, AuditRetellsHistory,
     Store!AuditRetellsHistory
<1>18. CASE Store!Unlink
  BY <1>18 DEF Store!Unlink, AuditRetellsHistory, Store!AuditRetellsHistory
<1>19. CASE Store!RebuildAfterUnlink
  BY <1>19 DEF Store!RebuildAfterUnlink, Store!Reindex, AuditRetellsHistory,
     Store!AuditRetellsHistory
<1>20. CASE Store!RemoveDir
  <2>1. audit' = [audit EXCEPT ![cmd.run] = <<>>] /\ stored' = stored
    BY <1>20 DEF Store!RemoveDir
  <2>2. \A s : Retold(<<>>, s)
    BY DEF Retold
  <2>3. \A r \in Runs : Retold(audit'[r], stored'[r])
    BY <2>1, <2>2, RetoldEach DEF AuditTypeOK
  <2> QED
    BY <2>3 DEF AuditRetellsHistory,
       Store!AuditRetellsHistory, Retold
<1>21. CASE Store!Crash
  BY <1>21 DEF Store!Crash, AuditRetellsHistory, Store!AuditRetellsHistory
<1>22. CASE UNCHANGED storeVars
  BY <1>22 DEF storeVars, AuditRetellsHistory, Store!AuditRetellsHistory
<1>23. CASE Store!SkipDir
  BY <1>23 DEF Store!SkipDir, AuditRetellsHistory,
     Store!AuditRetellsHistory
<1>24. CASE Store!ImportFiles
  BY <1>24 DEF Store!ImportFiles, AuditRetellsHistory,
     Store!AuditRetellsHistory
<1> QED
  BY <1>1, <1>2, <1>3, <1>4, <1>5, <1>6, <1>7, <1>8, <1>9, <1>10, <1>11, <1>12,
     <1>13, <1>14, <1>15, <1>16, <1>17, <1>18, <1>19, <1>20, <1>21, <1>22, <1>23, <1>24 DEF
     Store!Next, Store!Finished, storeVars
-----------------------------------------------------------------------------
(* The initial states, and every step. *)
LEMMA ForeignTyped ==
  ASSUME NEW b \in Store!Foreign
  PROVE  /\ b \in Store!Bundles
         /\ \A r \in Runs : \A i \in DOMAIN b.audit[r] : b.audit[r][i].at = 0
<1>1. PICK c \in [Runs -> Store!Records], d \in {"absent", "seeded"} :
        b = [case |-> c, dir |-> [r \in Runs |-> IF c[r] = NoCase THEN "absent" ELSE d],
             audit |-> [r \in Runs |-> IF c[r] = NoCase \/ d = "absent" THEN <<>>
                        ELSE <<[kind |-> "case_record", prev |-> NoCase, outcome |-> c[r],
                                at |-> 0]>>]]
  BY DEF Store!Foreign
<1> DEFINE log(r) == IF c[r] = NoCase \/ d = "absent" THEN <<>>
                     ELSE <<[kind |-> "case_record", prev |-> NoCase, outcome |-> c[r],
                             at |-> 0]>>
<1>2. ASSUME NEW r \in Runs
      PROVE  log(r) \in Seq(Store!Events) /\ \A i \in DOMAIN log(r) : log(r)[i].at = 0
  <2>1. CASE c[r] = NoCase \/ d = "absent"
    BY <2>1
  <2>2. CASE ~(c[r] = NoCase \/ d = "absent")
    <3> DEFINE e == [kind |-> "case_record", prev |-> NoCase, outcome |-> c[r], at |-> 0]
    <3>1. e \in Store!Events /\ e.at = 0
      BY <2>2 DEF Store!Events, Store!Records
    <3>2. log(r) = <<e>>
      BY <2>2
    <3> HIDE DEF e, log
    <3> QED
      BY <3>1, <3>2
  <2> QED
    BY <2>1, <2>2
<1>3. b.case = c /\ b.dir \in [Runs -> Store!Dirs]
  BY <1>1 DEF Store!Dirs
<1>4. b.audit = [r \in Runs |-> log(r)]
  BY <1>1
<1> HIDE DEF log
<1>5. b.audit \in [Runs -> Seq(Store!Events)]
  BY <1>2, <1>4
<1>6. b = [case |-> b.case, dir |-> b.dir, audit |-> b.audit]
  BY <1>1
<1> QED
  BY <1>2, <1>3, <1>4, <1>5, <1>6 DEF Store!Bundles

LEMMA StoreInitInv == RecordsInit => StoreInv
<1> SUFFICES ASSUME Store!Init PROVE StoreInv
  BY DEF RecordsInit
<1> USE PartsAssumption DEF Store!StoreAssumption, Store!Init
<1>1. FileTypeOK
  BY DEF FileTypeOK, Store!Files, Store!Dirs
<1>2. AuditTypeOK
  BY ForeignTyped DEF AuditTypeOK
<1>3. CommandTypeOK
  <2>1. PICK r \in Runs, outcome \in Outcomes : TRUE
    OBVIOUS
  <2>2. [kind |-> "label", run |-> r, outcome |-> outcome, revise |-> FALSE, drop |-> FALSE]
           \in Store!Commands
    BY DEF Store!Commands
  <2>3. cmd \in Store!Commands
    BY <2>2, Zenon
  <2>4. linked \in BOOLEAN
    OBVIOUS
  <2> QED
    BY <2>3, <2>4 DEF CommandTypeOK, Store!Points, Store!Files
<1>4. HistoryTypeOK
  <2>1. <<>> \in Seq(Outcomes)
    OBVIOUS
  <2>2. stored \in [Runs -> Seq(Outcomes)]
    BY <2>1
  <2>3. commands \in 0..MaxCommands /\ crashes \in 0..MaxCrashes
    OBVIOUS
  <2>4. replaced \in [Runs -> BOOLEAN] /\ stale \in BOOLEAN
    BY Zenon
  <2> QED
    BY <2>2, <2>3, <2>4 DEF HistoryTypeOK
<1>5. CommandInv /\ IndexInv /\ CasesAreWhole /\ previous # "partial"
  BY DEF CommandInv, IndexInv, CasesAreWhole, Store!CasesAreWhole
<1>6. StoredInv /\ AuditRetellsHistory
  BY DEF StoredInv, Saving, AuditRetellsHistory, Store!AuditRetellsHistory
<1>7. AheadInv
  BY ForeignTyped DEF AheadInv
<1> QED
  BY <1>1, <1>2, <1>3, <1>4, <1>5, <1>6, <1>7, StoreTypeParts DEF StoreInv

\* A step of the log leaves the store alone.
LEMMA StoreAlone == [RecordsNext]_parts => [Store!Next]_storeVars
BY DEF RecordsNext, LogStep, StoreStep, parts

LEMMA StoreNextInv == StoreInv /\ [RecordsNext]_parts => StoreInv'
<1> SUFFICES ASSUME StoreInv, [Store!Next]_storeVars PROVE StoreInv'
  BY StoreAlone
<1>1. Store!TypeOK'
  <2>1. FileTypeOK' /\ AuditTypeOK' /\ CommandTypeOK' /\ HistoryTypeOK'
    BY FileTypeStep, AuditTypeStep, CommandTypeStep, HistoryTypeStep DEF StoreInv
  <2> QED
    BY <2>1 DEF Store!TypeOK, FileTypeOK, AuditTypeOK, CommandTypeOK, HistoryTypeOK
<1>2. (CasesAreWhole /\ previous # "partial")' /\ CommandInv'
  BY WholeStep, CommandStep DEF StoreInv
<1>3. StoredInv' /\ AheadInv' /\ AuditRetellsHistory' /\ IndexInv'
  BY StoredStep, AheadStep, RetellStep, IndexStep DEF StoreInv
<1> QED
  BY <1>1, <1>2, <1>3 DEF StoreInv

LEMMA StoreInvariance == RecordsSpec => []StoreInv
BY StoreInitInv, StoreNextInv, PTL DEF RecordsSpec

(* A case file is whole whenever the program dies.                         *)
THEOREM WholeCases == RecordsSpec => []CasesAreWhole
<1>1. StoreInv => CasesAreWhole
  BY DEF StoreInv
<1> QED
  BY StoreInvariance, <1>1, PTL

(* Each event of a run's own audit log tells an outcome that was stored,   *)
(* in the order they were, and a revision the one it took the place of.    *)
THEOREM HistoryIsRetold == RecordsSpec => []AuditRetellsHistory
<1>1. StoreInv => AuditRetellsHistory
  BY DEF StoreInv
<1> QED
  BY StoreInvariance, <1>1, PTL

(* Between two commands every stored case is listed, but for what a crash  *)
(* left out until the next save or deletion.                               *)
THEOREM AllIsListed == RecordsSpec => []ListsWhatIsStored
<1>1. StoreInv => ListsWhatIsStored
  <2> SUFFICES ASSUME StoreInv, pc = "idle", ~stale PROVE Store!Listed = Store!Stored
    BY DEF ListsWhatIsStored, Store!ListsWhatIsStored
  <2>1. index = Store!NoIndex \/ index = case
    BY DEF StoreInv, IndexInv
  <2> QED
    BY <2>1 DEF Store!Listed, Store!Stored
<1> QED
  BY StoreInvariance, <1>1, PTL

(* A stored outcome changes only by a command that revises it and goes     *)
(* only by one that drops it; the audit log of a run only grows, unless    *)
(* the run is deleted or replaced by a revising import.                    *)
THEOREM StoreIsWriteOnce == RecordsSpec => RecordsStay
<1>1. ASSUME StoreInv, [Store!Next]_storeVars
      PROVE  [\A r \in Store!Stored : case'[r] # case[r] =>
                 r = cmd.run /\ (IF case'[r] = NoCase THEN cmd.drop ELSE cmd.revise)]_Store!vars
  <2>1. FileTypeOK /\ CommandInv /\ cmd.run \in Runs /\ NoCase \notin Outcomes
        /\ cmd.outcome \in Outcomes
    BY <1>1, StoreTypeParts, PartsAssumption
       DEF StoreInv, CommandTypeOK, Store!Commands, Store!StoreAssumption
  <2>2. CASE Store!Replace
    BY <2>1, <2>2 DEF Store!Replace, Store!Stored, FileTypeOK, CommandInv
  <2>3. CASE Store!Unlink
    BY <2>1, <2>3 DEF Store!Unlink, Store!Stored, FileTypeOK, CommandInv
  <2>4. CASE UNCHANGED case
    BY <2>4
  <2> QED
    BY <1>1, <2>2, <2>3, <2>4 DEF Store!Next, Store!Finished, storeVars, Store!vars,
       Store!fileVars, Store!ReadPrevious, Store!CheckNew, Store!WriteTmp,
       Store!RebuildIndex, Store!AppendAudit, Store!Label, Store!Report, Store!Given,
       Store!OpenAudit, Store!Export, Store!Import, Store!ImportCase,
       Store!ImportedCases, Store!SkipDir, Store!ImportDir, Store!ImportFiles,
       Store!ImportDone, Store!Delete, Store!Remove, Store!RebuildAfterUnlink, Store!RemoveDir, Store!Crash
<1>2. ASSUME StoreInv, [Store!Next]_storeVars
      PROVE  [\A r \in Runs : audit'[r] # audit[r] =>
                \/ Len(audit'[r]) = Len(audit[r]) + 1
                   /\ SubSeq(audit'[r], 1, Len(audit[r])) = audit[r]
                \/ pc = "rmtree"
                \/ pc = "dirs" /\ (cmd.revise \/ dir[r] = "absent")]_Store!vars
  <2>1. audit \in [Runs -> Seq(Store!Events)] /\ cmd.run \in Runs /\ todo \subseteq Runs
    BY <1>2, StoreTypeParts DEF StoreInv, AuditTypeOK, CommandTypeOK, Store!Commands
  <2>2. CASE Store!AppendAudit
    <3>1. PICK e : audit' = [audit EXCEPT ![cmd.run] = Append(audit[cmd.run], e)]
      BY <2>2 DEF Store!AppendAudit
    <3>2. /\ Len(Append(audit[cmd.run], e)) = Len(audit[cmd.run]) + 1
          /\ SubSeq(Append(audit[cmd.run], e), 1, Len(audit[cmd.run])) = audit[cmd.run]
      BY <2>1
    <3> QED
      BY <2>1, <3>1, <3>2
  <2>3. CASE Store!ImportDir
    <3>1. PICK r \in todo : /\ dir[r] = "absent" \/ cmd.revise
                            /\ audit' = [audit EXCEPT ![r] = bundle.audit[r]]
      BY <2>3 DEF Store!ImportDir
    <3> QED
      BY <2>1, <2>3, <3>1 DEF Store!ImportDir
  <2>4. CASE Store!RemoveDir
    BY <2>4 DEF Store!RemoveDir
  <2>5. CASE UNCHANGED audit
    BY <2>5
  <2> QED
    BY <1>2, <2>2, <2>3, <2>4, <2>5 DEF Store!Next, Store!Finished, storeVars, Store!vars,
       Store!fileVars, Store!ReadPrevious, Store!CheckNew, Store!WriteTmp, Store!Replace,
       Store!RebuildIndex, Store!Label, Store!Report, Store!Given, Store!OpenAudit,
       Store!Export, Store!Import, Store!ImportCase, Store!ImportedCases,
       Store!SkipDir, Store!ImportFiles, Store!ImportDone, Store!Delete, Store!Remove, Store!Unlink,
       Store!RebuildAfterUnlink, Store!Crash
<1> QED
  BY <1>1, <1>2, StoreAlone, StoreInvariance, PTL
     DEF RecordsStay, Store!StoredOnce, Store!AuditIsAppendOnly, RecordsSpec
=============================================================================
