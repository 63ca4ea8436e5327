---------------------------- MODULE ChunkStoreProofs ----------------------------
(* The transactions of state_store.py that ContinuationChunks is built from:    *)
(* what each of them does to the chunk and attempt rows, and that each keeps    *)
(* them one chain.  Nothing here depends on the state of the renderer.          *)
EXTENDS ContinuationChunks, FiniteSetTheorems, SequenceTheorems, WellFoundedInduction,
        TLAPS

-----------------------------------------------------------------------------
(* The store.  StoreOK speaks of a value of the tables, so that each            *)
(* transaction is proved to keep it once, whoever calls it.                     *)

AttemptStates == Active \cup FinalStates
ChunkStates == {"NONE", "READY", "BLOCKED_UPSTREAM"} \cup AttemptStates
PromptIds == [1 .. 3 -> Nat]
Attempts == [state : AttemptStates, inputs : Nat, up : Nat, ids : PromptIds]
ChunkRows == [state : ChunkStates, acc : Nat]
Tables == [scene : {"PENDING", "FAILED", "SUCCEEDED", "CANCELLED"}, plan : BOOLEAN,
           chunks : [Chunks -> ChunkRows], atts : [Chunks -> Seq(Attempts)]]

\* Chunk c is accepted on top of an accepted chunk, by a complete attempt begun from it.
Linked(d, c) ==
  LET acc == d.chunks[c].acc IN
  /\ acc <= Len(d.atts[c])
  /\ acc # 0 => /\ d.chunks[c].state = "COMPLETE"
                /\ d.atts[c][acc].state = "COMPLETE"
                /\ d.atts[c][acc].up = Upstream(d, c)
                /\ c > 1 => Upstream(d, c) # 0

\* An attempt in execution is the only one of its chunk, which is not accepted, and it
\* runs on top of what is accepted now.
Alone(d, c) ==
  \A a \in ActiveAttempts(d, c) :
    /\ ActiveAttempts(d, c) = {a}
    /\ d.chunks[c].acc = 0
    /\ d.atts[c][a].up = Upstream(d, c)
    /\ c > 1 => Upstream(d, c) # 0

\* No attempt is executed beside a complete one.
Unrivalled(d, c) ==
  ActiveAttempts(d, c) # {} => \A a \in DOMAIN d.atts[c] : d.atts[c][a].state # "COMPLETE"

\* Only attempts of the first chunk have nothing below.
Rooted(d, c) == c > 1 => \A a \in DOMAIN d.atts[c] : d.atts[c][a].up # 0

\* Before the chunk rows exist nothing was rendered.
Unplanned(d, c) == d.chunks[1].state = "NONE" => d.chunks[c].acc = 0 /\ d.atts[c] = <<>>

\* The attempts of chunk c that count against the budget of some inputs.
Spent(d, c, con, up) == {a \in DOMAIN d.atts[c] : /\ d.atts[c][a].state \notin Voided
                                                  /\ Matches(d, c, a, con, up)}
Frugal(d, c) ==
  \A con, up \in Nat : Cardinality(Spent(d, c, con, up)) <= MaxAttempts

RowsOK(d, c) == /\ Linked(d, c) /\ Alone(d, c) /\ Unrivalled(d, c)
                /\ Rooted(d, c) /\ Unplanned(d, c) /\ Frugal(d, c)
StoreOK(d) == d \in Tables /\ \A c \in Chunks : RowsOK(d, c)

-----------------------------------------------------------------------------
(* Highest                                                                      *)

\* A nonempty set of natural numbers has a least element.
LEMMA LeastElement ==
  ASSUME NEW S \in SUBSET Nat, S # {}
  PROVE  \E n \in S : \A k \in S : n <= k
<1>1. \E n \in S : \A k \in S : <<k, n>> \notin OpToRel(<, Nat)
  BY NatLessThanWellFounded, WFMin
<1>2. PICK n \in S : \A k \in S : <<k, n>> \notin OpToRel(<, Nat)
  BY <1>1
<1>3. \A k \in S : ~(k < n)
  BY <1>2 DEF OpToRel
<1> QED BY <1>3

\* Highest is the greatest element of a nonempty bounded set of numbers.
LEMMA HighestIsGreatest ==
  ASSUME NEW k \in Nat, NEW S \in SUBSET (0 .. k), S # {}
  PROVE  Highest(S) \in S /\ \A m \in S : m <= Highest(S)
<1> DEFINE T == {k - n : n \in S}
<1>1. T \in SUBSET Nat /\ T # {}
  <2>1. \A n \in S : k - n \in Nat OBVIOUS
  <2> QED BY <2>1
<1>2. PICK t \in T : \A u \in T : t <= u
  <2> HIDE DEF T
  <2> QED BY <1>1, LeastElement
<1>3. PICK n \in S : t = k - n BY <1>2
<1>4. \A m \in S : m <= n
  <2> TAKE m \in S
  <2>1. k - m \in T OBVIOUS
  <2> QED BY <1>2, <1>3, <2>1
<1> QED BY <1>4 DEF Highest

LEMMA HighestOfOne == ASSUME NEW n \in Nat PROVE Highest({n}) = n
BY DEF Highest

LEMMA UpToIsFinite == ASSUME NEW n \in Nat PROVE IsFiniteSet(1 .. n)
BY FS_Interval

-----------------------------------------------------------------------------
(* Transactions that only take away                                             *)

\* The tables e lost the acceptances of chunk k and above, whose attempts no longer run,
\* and below k some attempts that are not accepted have ended; nothing was begun.
Weaker(d, e, k) ==
  /\ \A c \in Chunks :
       /\ Len(e.atts[c]) = Len(d.atts[c])
       /\ e.chunks[c].acc = IF c < k THEN d.chunks[c].acc ELSE 0
       /\ e.chunks[c].acc # 0 => e.chunks[c].state = d.chunks[c].state
       /\ \A a \in DOMAIN d.atts[c] :
            LET x == d.atts[c][a]
                y == e.atts[c][a]
            IN /\ y.up = x.up /\ y.inputs = x.inputs
               /\ e.chunks[c].acc = a => y.state = x.state
               /\ y.state \in Active => x.state \in Active /\ c < k
               /\ y.state \notin Voided => x.state \notin Voided
               /\ y.state = "COMPLETE" =>
                    x.state = "COMPLETE" \/ ActiveAttempts(e, c) = {}
  /\ e.chunks[1].state = "NONE" => d.chunks[1].state = "NONE"

LEMMA DomainOfRows ==
  ASSUME NEW d \in Tables, NEW c \in Chunks
  PROVE  /\ d.atts[c] \in Seq(Attempts) /\ Len(d.atts[c]) \in Nat
         /\ DOMAIN d.atts[c] = 1 .. Len(d.atts[c])
         /\ \A a \in DOMAIN d.atts[c] : d.atts[c][a] \in Attempts
         /\ d.chunks[c] \in ChunkRows
BY DEF Tables

LEMMA WeakerKeeps ==
  ASSUME NEW d, StoreOK(d), NEW e \in Tables, NEW k \in Nat, Weaker(d, e, k)
  PROVE  StoreOK(e)
<1> SUFFICES ASSUME NEW c \in Chunks PROVE RowsOK(e, c)
  BY DEF StoreOK
<1>0. d \in Tables /\ RowsOK(d, c) /\ c \in Nat /\ 1 \in Chunks
  BY ChunkAssumption DEF StoreOK, Chunks
<1>1. /\ DOMAIN e.atts[c] = DOMAIN d.atts[c]
      /\ DOMAIN d.atts[c] = 1 .. Len(d.atts[c]) /\ Len(d.atts[c]) \in Nat
      /\ d.chunks[c].acc \in Nat /\ e.chunks[c].acc \in Nat
  BY <1>0, DomainOfRows DEF Weaker, ChunkRows
<1>2. c < k => Upstream(e, c) = Upstream(d, c)
  <2>1. c # 1 => c - 1 \in Chunks /\ (c < k => c - 1 < k)
    BY <1>0, ChunkAssumption DEF Chunks
  <2> QED BY <2>1 DEF Upstream, Weaker
<1>3. ActiveAttempts(e, c) \subseteq ActiveAttempts(d, c) /\ (ActiveAttempts(e, c) # {} => c < k)
  BY <1>1 DEF ActiveAttempts, Weaker
<1>4. Linked(e, c)
  <2>1. CASE e.chunks[c].acc = 0 BY <2>1, <1>1 DEF Linked, Weaker
  <2>2. CASE e.chunks[c].acc # 0
    <3>1. c < k /\ e.chunks[c].acc = d.chunks[c].acc /\ e.chunks[c].state = d.chunks[c].state
      BY <2>2 DEF Weaker
    <3>2. Linked(d, c) BY <1>0 DEF RowsOK
    <3>3. d.chunks[c].acc \in DOMAIN d.atts[c]
      BY <2>2, <3>1, <3>2, <1>1 DEF Linked
    <3>4. /\ e.atts[c][e.chunks[c].acc].state = d.atts[c][d.chunks[c].acc].state
          /\ e.atts[c][e.chunks[c].acc].up = d.atts[c][d.chunks[c].acc].up
          /\ Len(e.atts[c]) = Len(d.atts[c])
      BY <3>1, <3>3 DEF Weaker
    <3> QED BY <2>2, <3>1, <3>2, <3>4, <1>2 DEF Linked
  <2> QED BY <2>1, <2>2
<1>5. Alone(e, c)
  <2> SUFFICES ASSUME NEW a \in ActiveAttempts(e, c)
               PROVE  /\ ActiveAttempts(e, c) = {a} /\ e.chunks[c].acc = 0
                      /\ e.atts[c][a].up = Upstream(e, c)
                      /\ c > 1 => Upstream(e, c) # 0
    BY DEF Alone
  <2>1. a \in ActiveAttempts(d, c) /\ c < k /\ a \in DOMAIN d.atts[c]
    BY <1>3 DEF ActiveAttempts
  <2>2. /\ ActiveAttempts(d, c) = {a} /\ d.chunks[c].acc = 0
        /\ d.atts[c][a].up = Upstream(d, c) /\ (c > 1 => Upstream(d, c) # 0)
    BY <2>1, <1>0 DEF RowsOK, Alone
  <2>3. e.chunks[c].acc = d.chunks[c].acc /\ e.atts[c][a].up = d.atts[c][a].up
    BY <2>1 DEF Weaker
  <2> QED BY <2>1, <2>2, <2>3, <1>2, <1>3
<1>6. Unrivalled(e, c)
  <2> SUFFICES ASSUME ActiveAttempts(e, c) # {}, NEW a \in DOMAIN d.atts[c],
                      e.atts[c][a].state = "COMPLETE"
               PROVE  FALSE
    BY <1>1 DEF Unrivalled
  <2>1. d.atts[c][a].state = "COMPLETE" BY DEF Weaker
  <2>2. ActiveAttempts(d, c) # {} BY <1>3
  <2> QED BY <2>1, <2>2, <1>0 DEF RowsOK, Unrivalled
<1>7. Rooted(e, c)
  BY <1>0, <1>1 DEF RowsOK, Rooted, Weaker
<1>8. Unplanned(e, c)
  <2> SUFFICES ASSUME e.chunks[1].state = "NONE" PROVE e.chunks[c].acc = 0 /\ e.atts[c] = <<>>
    BY DEF Unplanned
  <2>1. d.chunks[c].acc = 0 /\ d.atts[c] = <<>>
    BY <1>0 DEF RowsOK, Unplanned, Weaker
  <2>2. e.chunks[c].acc = 0 /\ Len(e.atts[c]) = 0
    BY <2>1 DEF Weaker
  <2> QED BY <2>2, EmptySeq, DomainOfRows
<1>9. Frugal(e, c)
  <2> SUFFICES ASSUME NEW con \in Nat, NEW up \in Nat
               PROVE  Cardinality(Spent(e, c, con, up)) <= MaxAttempts
    BY DEF Frugal
  <2>1. Spent(e, c, con, up) \subseteq Spent(d, c, con, up)
    BY <1>1 DEF Spent, Matches, Weaker
  <2>2. IsFiniteSet(Spent(d, c, con, up))
    <3>2. IsFiniteSet(DOMAIN d.atts[c]) BY <1>1, UpToIsFinite
    <3> QED BY <3>2, FS_Subset DEF Spent
  <2>3. /\ Cardinality(Spent(e, c, con, up)) <= Cardinality(Spent(d, c, con, up))
        /\ Cardinality(Spent(e, c, con, up)) \in Nat /\ Cardinality(Spent(d, c, con, up)) \in Nat
    BY <2>1, <2>2, FS_Subset, FS_CardinalityType
  <2>4. Cardinality(Spent(d, c, con, up)) <= MaxAttempts
    BY <1>0 DEF RowsOK, Frugal
  <2> QED BY <2>3, <2>4, ChunkAssumption
<1> QED BY <1>4, <1>5, <1>6, <1>7, <1>8, <1>9 DEF RowsOK

-----------------------------------------------------------------------------
(* One lemma for each transaction: what it does, and that it keeps StoreOK      *)

\* update_chunk_attempt writes one attempt and the row of a chunk nothing else is accepted of.
Updated(d, e, c, a, state, ids) ==
  /\ e \in Tables /\ e.scene = d.scene
  /\ \A i \in Chunks :
       /\ e.chunks[i].acc = d.chunks[i].acc
       /\ Len(e.atts[i]) = Len(d.atts[i])
       /\ i # c => e.chunks[i] = d.chunks[i] /\ e.atts[i] = d.atts[i]
  /\ e.chunks[c].state \in {d.chunks[c].state, state}
  /\ d.chunks[c].acc \notin {0, a} => e.chunks[c].state = d.chunks[c].state
  /\ \A b \in DOMAIN d.atts[c] : b # a => e.atts[c][b] = d.atts[c][b]
  /\ e.atts[c][a] = [d.atts[c][a] EXCEPT !.state = state, !.ids = ids]

\* It adds no attempt.
LEMMA UpdatedDomain ==
  ASSUME NEW d \in Tables, NEW e, NEW c, NEW a, NEW state, NEW ids,
         Updated(d, e, c, a, state, ids), NEW i \in Chunks
  PROVE  /\ DOMAIN d.atts[i] = 1 .. Len(d.atts[i])
         /\ DOMAIN e.atts[i] = 1 .. Len(e.atts[i])
         /\ Len(e.atts[i]) = Len(d.atts[i])
         /\ DOMAIN e.atts[i] = DOMAIN d.atts[i]
<1>1. DOMAIN d.atts[i] = 1 .. Len(d.atts[i]) BY DomainOfRows
<1>2. e \in Tables /\ Len(e.atts[i]) = Len(d.atts[i]) BY DEF Updated
<1>3. DOMAIN e.atts[i] = 1 .. Len(e.atts[i]) BY <1>2, DomainOfRows
<1> QED BY <1>1, <1>2, <1>3

LEMMA UpdateDoes ==
  ASSUME NEW d \in Tables, NEW c \in Chunks, NEW a \in DOMAIN d.atts[c],
         NEW state \in AttemptStates, NEW ids \in PromptIds,
         ~UpdateRefused(d, c, a, state, ids)
  PROVE  Updated(d, UpdateAttempt(d, c, a, state, ids), c, a, state, ids)
<1> DEFINE e == UpdateAttempt(d, c, a, state, ids)
           x == [d.atts[c][a] EXCEPT !.state = state, !.ids = ids]
<1> SUFFICES Updated(d, e, c, a, state, ids) OBVIOUS
<1>0. d.atts[c][a] \in Attempts /\ d.chunks[c] \in ChunkRows /\ d.atts[c] \in Seq(Attempts)
      /\ a \in 1 .. Len(d.atts[c])
  BY DomainOfRows
<1>1. CASE d.atts[c][a].state \in FinalStates /\ d.atts[c][a].state = state
  <2>1. e = d BY <1>1 DEF UpdateAttempt
  <2>2. d.atts[c][a].ids = ids BY <1>1 DEF UpdateRefused
  <2>3. d.atts[c][a] = x BY <1>0, <1>1, <2>2 DEF Attempts
  <2> QED BY <2>1, <2>3 DEF Updated
<1>2. CASE ~(d.atts[c][a].state \in FinalStates /\ d.atts[c][a].state = state)
  <2>1. x \in Attempts BY <1>0 DEF Attempts
  <2>2. [d.atts[c] EXCEPT ![a] = x] \in Seq(Attempts)
        /\ Len([d.atts[c] EXCEPT ![a] = x]) = Len(d.atts[c])
    BY <1>0, <2>1, ExceptSeq
  <2> DEFINE row == [d.chunks[c] EXCEPT !.state = IF d.chunks[c].acc \in {0, a}
                                                  THEN state ELSE @]
             ats == [d.atts[c] EXCEPT ![a] = x]
  <2>3. row \in ChunkRows BY <1>0 DEF ChunkRows, ChunkStates
  <2>4. /\ e.scene = d.scene /\ e.plan = d.plan
        /\ e.chunks = [d.chunks EXCEPT ![c] = row] /\ e.atts = [d.atts EXCEPT ![c] = ats]
        /\ e = [scene |-> e.scene, plan |-> e.plan, chunks |-> e.chunks, atts |-> e.atts]
    <3>1. e = [d EXCEPT !.atts[c][a].state = state, !.atts[c][a].ids = ids,
                        !.chunks[c].state = IF d.chunks[c].acc \in {0, a} THEN state ELSE @]
      BY <1>2 DEF UpdateAttempt
    <3> HIDE DEF e
    <3>2. e.scene = d.scene /\ e.plan = d.plan
      BY <3>1 DEF Tables
    <3>3. e.chunks = [d.chunks EXCEPT ![c] = row]
      BY <3>1, <1>0 DEF Tables, ChunkRows
    <3>4. e.atts = [d.atts EXCEPT ![c][a].state = state, ![c][a].ids = ids]
      BY <3>1 DEF Tables
    <3>5. e.atts = [d.atts EXCEPT ![c] = ats]
      BY <3>4, <1>0 DEF Tables, Attempts
    <3>6. e = [scene |-> e.scene, plan |-> e.plan, chunks |-> e.chunks, atts |-> e.atts]
      BY <3>1 DEF Tables
    <3> QED BY <3>2, <3>3, <3>5, <3>6
  <2>5. /\ row.acc = d.chunks[c].acc /\ row.state \in {d.chunks[c].state, state}
        /\ (d.chunks[c].acc \notin {0, a} => row.state = d.chunks[c].state)
    BY <1>0 DEF ChunkRows
  <2>6. ats[a] = x /\ \A b \in DOMAIN d.atts[c] : b # a => ats[b] = d.atts[c][b]
    BY <1>0
  <2> HIDE DEF row, ats, x
  <2>7. /\ e \in Tables /\ e.scene = d.scene /\ e.chunks[c] = row /\ e.atts[c] = ats
        /\ \A i \in Chunks : i # c => e.chunks[i] = d.chunks[i] /\ e.atts[i] = d.atts[i]
    <3> HIDE DEF e
    <3>1. ats \in Seq(Attempts) BY <2>2 DEF ats
    <3> QED BY <2>3, <2>4, <3>1, ZenonT(40) DEF Tables
  <2>8. Len(ats) = Len(d.atts[c]) BY <2>2 DEF ats
  <2> HIDE DEF e
  <2> QED BY <2>5, <2>6, <2>7, <2>8 DEF Updated, x
<1> QED BY <1>1, <1>2

LEMMA UpdateKeeps ==
  ASSUME NEW d, StoreOK(d), NEW e, NEW c \in Chunks, NEW a \in DOMAIN d.atts[c],
         NEW state \in AttemptStates, NEW ids \in PromptIds,
         ~UpdateRefused(d, c, a, state, ids), Updated(d, e, c, a, state, ids)
  PROVE  StoreOK(e)
<1>0. d \in Tables /\ RowsOK(d, c) /\ e \in Tables BY DEF StoreOK, Updated
<1>1. /\ d.atts[c][a] \in Attempts /\ DOMAIN e.atts[c] = DOMAIN d.atts[c]
      /\ DOMAIN d.atts[c] = 1 .. Len(d.atts[c]) /\ Len(d.atts[c]) \in Nat
  <2>1. Len(e.atts[c]) = Len(d.atts[c]) BY DEF Updated
  <2> QED BY <1>0, <2>1, DomainOfRows
<1>2. /\ e.atts[c][a].state = state /\ e.atts[c][a].up = d.atts[c][a].up
      /\ e.atts[c][a].inputs = d.atts[c][a].inputs
  BY <1>1 DEF Updated, Attempts
<1>3. \/ d.atts[c][a].state \in Active
      \/ d.atts[c][a].state = state
      \/ state \in Voided /\ d.chunks[c].acc # a
  BY <1>1 DEF UpdateRefused, Attempts, AttemptStates
<1>4. d.chunks[c].acc = a => d.atts[c][a].state = "COMPLETE" /\ state = "COMPLETE"
                             /\ d.chunks[c].state = "COMPLETE"
  BY <1>0, <1>1, <1>3 DEF RowsOK, Linked, Active, Voided
<1>5. Weaker(d, e, NChunks + 1)
  <2>1. state = "COMPLETE" => d.atts[c][a].state = "COMPLETE" \/ ActiveAttempts(e, c) = {}
    <3> SUFFICES ASSUME state = "COMPLETE", d.atts[c][a].state \in Active
                 PROVE  ActiveAttempts(e, c) = {}
      BY <1>3 DEF Voided
    <3>1. ActiveAttempts(d, c) = {a} BY <1>0 DEF RowsOK, Alone, ActiveAttempts
    <3>2. \A b \in DOMAIN d.atts[c] : b # a => d.atts[c][b].state \notin Active
      BY <3>1 DEF ActiveAttempts
    <3>3. \A b \in DOMAIN d.atts[c] : e.atts[c][b].state \notin Active
      BY <3>2, <1>2 DEF Updated, Active
    <3> QED BY <3>3, <1>1 DEF ActiveAttempts
  <2>2. /\ state \in Active => d.atts[c][a].state \in Active
        /\ state \notin Voided => d.atts[c][a].state \notin Voided
    BY <1>3 DEF Active, Voided
  <2>3. \A b \in DOMAIN d.atts[c] :
          /\ e.atts[c][b].up = d.atts[c][b].up /\ e.atts[c][b].inputs = d.atts[c][b].inputs
          /\ e.chunks[c].acc = b => e.atts[c][b].state = d.atts[c][b].state
          /\ e.atts[c][b].state \in Active => d.atts[c][b].state \in Active
          /\ e.atts[c][b].state \notin Voided => d.atts[c][b].state \notin Voided
          /\ e.atts[c][b].state = "COMPLETE" =>
               d.atts[c][b].state = "COMPLETE" \/ ActiveAttempts(e, c) = {}
    BY <1>2, <1>4, <2>1, <2>2 DEF Updated
  <2>4. e.chunks[c].acc # 0 => e.chunks[c].state = d.chunks[c].state
    BY <1>4 DEF Updated
  <2>5. \A i \in Chunks : i < NChunks + 1
    BY ChunkAssumption DEF Chunks
  <2>6. e.chunks[1].state = "NONE" => d.chunks[1].state = "NONE"
    <3>1. 1 \in Chunks BY ChunkAssumption DEF Chunks
    <3> QED BY <3>1 DEF Updated, AttemptStates, Active, FinalStates, Voided
  <2> QED BY <2>3, <2>4, <2>5, <2>6 DEF Updated, Weaker
<1> QED BY <1>0, <1>5, WeakerKeeps, ChunkAssumption

\* invalidate_chunk_and_descendants takes back chunk c and all above.
Invalidated(d, e, c) ==
  /\ e \in Tables /\ e.scene = d.scene
  /\ \A i \in Chunks :
       /\ Len(e.atts[i]) = Len(d.atts[i])
       /\ i < c => e.chunks[i] = d.chunks[i] /\ e.atts[i] = d.atts[i]
       /\ i >= c => /\ e.chunks[i].acc = 0 /\ e.chunks[i].state # "NONE"
                    /\ \A a \in DOMAIN d.atts[i] : e.atts[i][a].state \in Voided
       /\ \A a \in DOMAIN d.atts[i] : /\ e.atts[i][a].up = d.atts[i][a].up
                                      /\ e.atts[i][a].inputs = d.atts[i][a].inputs
                                      /\ e.atts[i][a].ids = d.atts[i][a].ids
                                      /\ d.atts[i][a].state \in Voided =>
                                           e.atts[i][a].state \in Voided

\* A sequence rewritten place by place is one of the same length.
LEMMA Rewritten ==
  ASSUME NEW S, NEW s \in Seq(S), NEW t, t = [a \in DOMAIN s |-> t[a]],
         \A a \in DOMAIN s : t[a] \in S
  PROVE  t \in Seq(S) /\ Len(t) = Len(s) /\ DOMAIN t = DOMAIN s
OBVIOUS

LEMMA InvalidateDoes ==
  ASSUME NEW d \in Tables, NEW c \in Chunks
  PROVE  Invalidated(d, InvalidateFrom(d, c), c)
<1> DEFINE e == InvalidateFrom(d, c)
           row(i) == IF i < c THEN d.chunks[i]
                     ELSE [state |-> e.chunks[i].state, acc |-> 0]
<1> SUFFICES Invalidated(d, e, c) OBVIOUS
<1>1. /\ e.scene = d.scene /\ e.plan = d.plan
      /\ DOMAIN e.chunks = Chunks /\ DOMAIN e.atts = Chunks
      /\ e = [scene |-> e.scene, plan |-> e.plan, chunks |-> e.chunks, atts |-> e.atts]
  <2>1. e = [d EXCEPT !.chunks = e.chunks, !.atts = e.atts]
    BY DEF InvalidateFrom, Tables
  <2>2. DOMAIN e.chunks = Chunks /\ DOMAIN e.atts = Chunks
    BY DEF InvalidateFrom, Tables
  <2> HIDE DEF e
  <2> QED BY <2>1, <2>2 DEF Tables
<1>2. ASSUME NEW i \in Chunks
      PROVE  /\ i < c => e.chunks[i] = d.chunks[i] /\ e.atts[i] = d.atts[i]
             /\ i >= c => /\ e.chunks[i].acc = 0 /\ e.chunks[i].state \in {"READY", "STALE_UPSTREAM"}
                          /\ e.chunks[i] = [state |-> e.chunks[i].state, acc |-> 0]
  <2>1. i \in Nat /\ c \in Nat BY DEF Chunks
  <2> QED BY <2>1 DEF InvalidateFrom, Tables
<1>3. ASSUME NEW i \in Chunks, i >= c
      PROVE  /\ e.atts[i] = [a \in DOMAIN d.atts[i] |-> e.atts[i][a]]
             /\ \A a \in DOMAIN d.atts[i] :
                  /\ e.atts[i][a] \in Attempts
                  /\ e.atts[i][a].state \in Voided
                  /\ e.atts[i][a].up = d.atts[i][a].up
                  /\ e.atts[i][a].inputs = d.atts[i][a].inputs
                  /\ e.atts[i][a].ids = d.atts[i][a].ids
  <2>1. ~(i < c) BY <1>3 DEF Chunks
  <2>2. e.atts[i] = [a \in DOMAIN d.atts[i] |->
                       IF d.atts[i][a].state = "CANCELLED" THEN d.atts[i][a]
                       ELSE [d.atts[i][a] EXCEPT !.state = IF i = c THEN "INVALIDATED"
                                                           ELSE "STALE_UPSTREAM"]]
    BY <2>1 DEF InvalidateFrom, Tables
  <2>3. \A a \in DOMAIN d.atts[i] : d.atts[i][a] \in Attempts BY DomainOfRows
  <2> HIDE DEF e
  <2> QED BY <2>2, <2>3, SMTT(30) DEF Attempts, AttemptStates, FinalStates, Voided
<1>4. ASSUME NEW i \in Chunks
      PROVE  /\ e.atts[i] \in Seq(Attempts) /\ Len(e.atts[i]) = Len(d.atts[i])
             /\ e.chunks[i] \in ChunkRows /\ (i < c \/ i >= c)
  <2>1. d.chunks[i] \in ChunkRows /\ d.atts[i] \in Seq(Attempts) BY DomainOfRows
  <2>2. CASE i < c BY <2>1, <2>2, <1>2
  <2>3. CASE i >= c
    <3> HIDE DEF e
    <3>1. e.chunks[i] \in ChunkRows
      <4>1. /\ e.chunks[i].state \in {"READY", "STALE_UPSTREAM"}
            /\ e.chunks[i] = [state |-> e.chunks[i].state, acc |-> 0]
        BY <2>3, <1>2
      <4>2. {"READY", "STALE_UPSTREAM"} \subseteq ChunkStates
        BY DEF ChunkStates, AttemptStates, FinalStates, Voided
      <4> QED BY <4>1, <4>2 DEF ChunkRows
    <3>2. /\ e.atts[i] = [a \in DOMAIN d.atts[i] |-> e.atts[i][a]]
          /\ \A a \in DOMAIN d.atts[i] : e.atts[i][a] \in Attempts
      BY <2>3, <1>3
    <3>3. e.atts[i] \in Seq(Attempts) /\ Len(e.atts[i]) = Len(d.atts[i])
      BY <2>1, <3>2, Rewritten
    <3> QED BY <2>3, <3>1, <3>3
  <2>4. i < c \/ i >= c BY DEF Chunks
  <2> QED BY <2>2, <2>3, <2>4
<1> HIDE DEF e
<1>5. e \in Tables
  <2>1. e.chunks \in [Chunks -> ChunkRows] /\ e.atts \in [Chunks -> Seq(Attempts)]
    <3>1. e.chunks = [i \in Chunks |-> e.chunks[i]] /\ e.atts = [i \in Chunks |-> e.atts[i]]
      BY DEF e, InvalidateFrom, Tables
    <3> QED BY <3>1, <1>4
  <2> QED BY <1>1, <2>1 DEF Tables
<1> QED BY <1>1, <1>2, <1>3, <1>4, <1>5 DEF Invalidated

LEMMA InvalidateKeeps ==
  ASSUME NEW d, StoreOK(d), NEW c \in Chunks, NEW e, Invalidated(d, e, c)
  PROVE  StoreOK(e)
<1>1. Weaker(d, e, c)
  <2> SUFFICES ASSUME NEW i \in Chunks
               PROVE  /\ Len(e.atts[i]) = Len(d.atts[i])
                      /\ e.chunks[i].acc = IF i < c THEN d.chunks[i].acc ELSE 0
                      /\ e.chunks[i].acc # 0 => e.chunks[i].state = d.chunks[i].state
                      /\ e.chunks[i].state = "NONE" => d.chunks[i].state = "NONE"
                      /\ \A a \in DOMAIN d.atts[i] :
                           LET x == d.atts[i][a]
                               y == e.atts[i][a]
                           IN /\ y.up = x.up /\ y.inputs = x.inputs
                              /\ e.chunks[i].acc = a => y.state = x.state
                              /\ y.state \in Active => x.state \in Active /\ i < c
                              /\ y.state \notin Voided => x.state \notin Voided
                              /\ y.state = "COMPLETE" =>
                                   x.state = "COMPLETE" \/ ActiveAttempts(e, i) = {}
    <3>1. 1 \in Chunks BY ChunkAssumption DEF Chunks
    <3> QED BY <3>1 DEF Weaker
  <2>1. CASE i < c BY <2>1 DEF Invalidated
  <2>2. CASE ~(i < c)
    <3>1. i >= c BY <2>2 DEF Chunks
    <3>2. \A a \in DOMAIN d.atts[i] : a # 0
      <4>1. DOMAIN d.atts[i] = 1 .. Len(d.atts[i]) BY DomainOfRows DEF StoreOK
      <4> QED BY <4>1
    <3> QED BY <2>2, <3>1, <3>2 DEF Invalidated, Active, Voided
  <2> QED BY <2>1, <2>2
<1> QED BY <1>1, WeakerKeeps DEF Invalidated, Chunks

\* select_chunk_attempt of a chunk that is not accepted yet: nothing above it changes but
\* the state of the next chunk.
Selected(d, e, c, a) ==
  /\ e \in Tables /\ e.scene = d.scene
  /\ \A i \in Chunks : /\ e.atts[i] = d.atts[i]
                       /\ i # c => e.chunks[i].acc = d.chunks[i].acc
                       /\ i # c /\ d.chunks[i].acc # 0 => e.chunks[i].state = d.chunks[i].state
                       /\ e.chunks[i].state = "NONE" => d.chunks[i].state = "NONE"
  /\ e.chunks[c] = [state |-> "COMPLETE", acc |-> a]

LEMMA SelectDoes ==
  ASSUME NEW d \in Tables, NEW c \in Chunks, NEW a \in DOMAIN d.atts[c], d.chunks[c].acc = 0
  PROVE  Selected(d, SelectAttempt(d, c, a), c, a)
<1> DEFINE e == SelectAttempt(d, c, a)
<1> SUFFICES Selected(d, e, c, a) OBVIOUS
<1>0. a \in Nat /\ a # 0
  <2>1. DOMAIN d.atts[c] = 1 .. Len(d.atts[c]) /\ Len(d.atts[c]) \in Nat BY DomainOfRows
  <2> QED BY <2>1
<1>1. e = [d EXCEPT !.chunks = [i \in Chunks |->
             CASE i = c -> [state |-> "COMPLETE", acc |-> a]
               [] i = c + 1 /\ d.chunks[i].acc = 0
                   /\ d.chunks[i].state \in {"BLOCKED_UPSTREAM", "STALE_UPSTREAM", "INVALIDATED"}
                   -> [d.chunks[i] EXCEPT !.state = "READY"]
               [] OTHER -> d.chunks[i]]]
  BY <1>0 DEF SelectAttempt
<1> HIDE DEF e
<1>2. e.scene = d.scene /\ e.atts = d.atts /\ e.plan = d.plan
  BY <1>1 DEF Tables
<1>3. e.chunks[c] = [state |-> "COMPLETE", acc |-> a]
  <2>1. c # c + 1 BY DEF Chunks
  <2> QED BY <1>1, <2>1 DEF Tables
<1>4. ASSUME NEW i \in Chunks, i # c
      PROVE  e.chunks[i] \in {d.chunks[i], [d.chunks[i] EXCEPT !.state = "READY"]}
             /\ (d.chunks[i].acc # 0 => e.chunks[i] = d.chunks[i])
  BY <1>1, <1>4 DEF Tables
<1>5. ASSUME NEW i \in Chunks PROVE e.chunks[i] \in ChunkRows
  <2>1. d.chunks[i] \in ChunkRows BY DomainOfRows
  <2>2. {"READY", "COMPLETE"} \subseteq ChunkStates
    BY DEF ChunkStates, AttemptStates, FinalStates
  <2>3. [state |-> "COMPLETE", acc |-> a] \in ChunkRows BY <1>0, <2>2 DEF ChunkRows
  <2>4. [d.chunks[i] EXCEPT !.state = "READY"] \in ChunkRows BY <2>1, <2>2 DEF ChunkRows
  <2> QED BY <1>3, <1>4, <2>1, <2>3, <2>4
<1>6. e \in Tables
  <2>1. DOMAIN e.chunks = Chunks /\ e = [d EXCEPT !.chunks = e.chunks]
    BY <1>1 DEF Tables
  <2>2. e.chunks = [i \in Chunks |-> e.chunks[i]] BY <1>1 DEF Tables
  <2>3. e.chunks \in [Chunks -> ChunkRows] BY <1>5, <2>2
  <2> QED BY <2>1, <2>3 DEF Tables
<1>7. ASSUME NEW i \in Chunks, i # c
      PROVE  /\ e.chunks[i].acc = d.chunks[i].acc
             /\ e.chunks[i].state = "NONE" => d.chunks[i].state = "NONE"
             /\ d.chunks[i].acc # 0 => e.chunks[i].state = d.chunks[i].state
  <2>1. d.chunks[i] \in ChunkRows BY DomainOfRows
  <2> QED BY <1>4, <1>7, <2>1 DEF ChunkRows
<1> QED BY <1>2, <1>3, <1>6, <1>7 DEF Selected

LEMMA SelectKeeps ==
  ASSUME NEW d, StoreOK(d), NEW c \in Chunks, NEW a \in DOMAIN d.atts[c],
         d.chunks[c].acc = 0, ~SelectRefused(d, c, a), NEW e, Selected(d, e, c, a)
  PROVE  StoreOK(e)
<1> SUFFICES ASSUME NEW i \in Chunks PROVE RowsOK(e, i)
  BY DEF StoreOK, Selected
<1>0. /\ d \in Tables /\ RowsOK(d, i) /\ RowsOK(d, c)
      /\ e.atts[i] = d.atts[i] /\ e.chunks[c].acc = a /\ e.chunks[c].state = "COMPLETE"
      /\ i # c => e.chunks[i].acc = d.chunks[i].acc
      /\ i # c /\ d.chunks[i].acc # 0 => e.chunks[i].state = d.chunks[i].state
      /\ i \in Nat /\ c \in Nat /\ c >= 1
  BY DEF StoreOK, Selected, Chunks
<1>1. /\ ActiveAttempts(e, i) = ActiveAttempts(d, i)
      /\ ActiveAttempts(d, c) = {}
  <2>1. ActiveAttempts(e, i) = ActiveAttempts(d, i) BY <1>0 DEF ActiveAttempts
  <2>2. d.atts[c][a].state = "COMPLETE" BY DEF SelectRefused
  <2> QED BY <2>1, <2>2, <1>0 DEF RowsOK, Unrivalled
<1>2. a \in Nat /\ a # 0 /\ a <= Len(d.atts[c])
  <2>1. DOMAIN d.atts[c] = 1 .. Len(d.atts[c]) /\ Len(d.atts[c]) \in Nat BY DomainOfRows, <1>0
  <2> QED BY <2>1
<1>3. /\ i # c + 1 => Upstream(e, i) = Upstream(d, i)
      /\ i = c + 1 => Upstream(d, i) = 0
  <2>1. i # 1 => i - 1 \in Chunks BY <1>0, ChunkAssumption DEF Chunks
  <2>2. i # 1 /\ i # c + 1 => i - 1 # c BY <1>0
  <2>3. i # 1 /\ i # c + 1 => e.chunks[i - 1].acc = d.chunks[i - 1].acc
    BY <2>1, <2>2 DEF Selected
  <2> QED BY <2>3, <1>0 DEF Upstream
<1>4. Linked(e, i)
  <2>1. CASE i = c
    <3>1. d.atts[c][a].state = "COMPLETE" /\ d.atts[c][a].up = Upstream(d, c)
      BY DEF SelectRefused
    <3>2. c > 1 => d.atts[c][a].up # 0 BY <1>0 DEF RowsOK, Rooted
    <3>3. Upstream(e, c) = Upstream(d, c) BY <1>3, <2>1, <1>0
    <3> QED BY <1>0, <1>2, <2>1, <3>1, <3>2, <3>3 DEF Linked
  <2>2. CASE i # c
    <3>1. e.chunks[i].acc = d.chunks[i].acc BY <1>0, <2>2
    <3>2. i = c + 1 => d.chunks[i].acc = 0
      BY <1>0, <1>3 DEF RowsOK, Linked
    <3> QED BY <1>0, <1>3, <2>2, <3>1, <3>2 DEF RowsOK, Linked
  <2> QED BY <2>1, <2>2
<1>5. Alone(e, i)
  <2>1. CASE i = c BY <1>1, <2>1 DEF Alone
  <2>2. CASE i # c
    <3>1. e.chunks[i].acc = d.chunks[i].acc BY <1>0, <2>2
    <3>2. i = c + 1 => ActiveAttempts(d, i) = {}
      BY <1>0, <1>3 DEF RowsOK, Alone
    <3> QED BY <1>0, <1>1, <1>3, <3>1, <3>2 DEF RowsOK, Alone
  <2> QED BY <2>1, <2>2
<1>6. Unrivalled(e, i) /\ Rooted(e, i)
  BY <1>0, <1>1 DEF RowsOK, Unrivalled, Rooted
<1>7. Unplanned(e, i)
  <2> SUFFICES ASSUME e.chunks[1].state = "NONE" PROVE FALSE BY DEF Unplanned
  <2>1. 1 \in Chunks BY ChunkAssumption DEF Chunks
  <2>2. d.chunks[1].state = "NONE" BY <2>1 DEF Selected
  <2>3. d.atts[c] = <<>> BY <1>0, <2>2 DEF RowsOK, Unplanned
  <2> QED BY <2>3
<1>8. Frugal(e, i)
  <2>1. \A con, up : Spent(e, i, con, up) = Spent(d, i, con, up)
    BY <1>0 DEF Spent, Matches
  <2> QED BY <1>0, <2>1 DEF RowsOK, Frugal
<1> QED BY <1>4, <1>5, <1>6, <1>7, <1>8 DEF RowsOK

\* begin_chunk_attempt of a chunk without an attempt in execution adds one.
NewAttempt(d, c, con) ==
  [state |-> "GENERATING_STAGE1", inputs |-> con, up |-> Upstream(d, c), ids |-> NoPrompts]
Begun(d, e, c, con) ==
  /\ e \in Tables /\ e.scene = d.scene
  /\ \A i \in Chunks : /\ e.chunks[i].acc = d.chunks[i].acc
                       /\ i # c => e.chunks[i] = d.chunks[i] /\ e.atts[i] = d.atts[i]
  /\ e.chunks[c].state \in {d.chunks[c].state, "GENERATING_STAGE1"}
  /\ d.chunks[c].acc # 0 => e.chunks[c].state = d.chunks[c].state
  /\ e.atts[c] = Append(d.atts[c], NewAttempt(d, c, con))

LEMMA BeginDoes ==
  ASSUME NEW d \in Tables, NEW c \in Chunks, NEW con \in Nat, ActiveAttempts(d, c) = {}
  PROVE  Begun(d, BeginAttempt(d, c, con), c, con)
<1> DEFINE e == BeginAttempt(d, c, con)
           row == [d.chunks[c] EXCEPT !.state = IF d.chunks[c].acc = 0
                                                THEN "GENERATING_STAGE1" ELSE @]
           ats == Append(d.atts[c], NewAttempt(d, c, con))
<1> SUFFICES Begun(d, e, c, con) OBVIOUS
<1>1. d.chunks[c] \in ChunkRows /\ d.atts[c] \in Seq(Attempts) BY DomainOfRows
<1>2. NewAttempt(d, c, con) \in Attempts
  <2>1. Upstream(d, c) \in Nat
    <3>1. c # 1 => c - 1 \in Chunks BY ChunkAssumption DEF Chunks
    <3>2. c # 1 => d.chunks[c - 1] \in ChunkRows BY <3>1, DomainOfRows
    <3> QED BY <3>2 DEF Upstream, ChunkRows
  <2>2. "GENERATING_STAGE1" \in AttemptStates BY DEF AttemptStates, Active
  <2>3. NoPrompts \in PromptIds BY DEF NoPrompts, PromptIds
  <2> QED BY <2>1, <2>2, <2>3 DEF NewAttempt, Attempts
<1>3. row \in ChunkRows /\ ats \in Seq(Attempts)
  <2>1. "GENERATING_STAGE1" \in ChunkStates BY DEF ChunkStates, AttemptStates, Active
  <2>2. row \in ChunkRows BY <1>1, <2>1 DEF ChunkRows
  <2> QED BY <1>1, <1>2, <2>2
<1>4. e = [d EXCEPT !.atts[c] = ats, !.chunks[c] = row]
  <2>1. e = [d EXCEPT !.atts[c] = ats,
                      !.chunks[c].state = IF d.chunks[c].acc = 0
                                          THEN "GENERATING_STAGE1" ELSE @]
    BY DEF BeginAttempt, NewAttempt
  <2> HIDE DEF e, ats
  <2> QED BY <2>1, <1>1 DEF Tables, ChunkRows
<1>5. /\ row.acc = d.chunks[c].acc /\ row.state \in {d.chunks[c].state, "GENERATING_STAGE1"}
      /\ d.chunks[c].acc # 0 => row.state = d.chunks[c].state
  BY <1>1 DEF ChunkRows
<1> HIDE DEF e, row, ats
<1>6. /\ e \in Tables /\ e.scene = d.scene /\ e.chunks[c] = row /\ e.atts[c] = ats
      /\ \A i \in Chunks : i # c => e.chunks[i] = d.chunks[i] /\ e.atts[i] = d.atts[i]
  BY <1>3, <1>4 DEF Tables
<1> QED BY <1>5, <1>6 DEF Begun, ats

\* A new attempt keeps the chain where the begin is not refused, no attempt of the chunk is
\* complete, and the budget has room.
LEMMA BeginKeeps ==
  ASSUME NEW d, StoreOK(d), NEW c \in Chunks, NEW con \in Nat, NEW up,
         ~BeginRefused(d, c, con, up), ActiveAttempts(d, c) = {},
         \A a \in DOMAIN d.atts[c] : d.atts[c][a].state # "COMPLETE",
         Cardinality(Spent(d, c, con, Upstream(d, c))) < MaxAttempts,
         NEW e, Begun(d, e, c, con)
  PROVE  StoreOK(e) /\ ActiveAttempts(e, c) = {Len(d.atts[c]) + 1}
<1> DEFINE n == Len(d.atts[c]) + 1
           x == NewAttempt(d, c, con)
<1>0. /\ d \in Tables /\ e \in Tables /\ d.atts[c] \in Seq(Attempts)
      /\ Len(d.atts[c]) \in Nat /\ DOMAIN d.atts[c] = 1 .. Len(d.atts[c])
      /\ c \in Nat /\ c >= 1
  BY DomainOfRows DEF StoreOK, Begun, Chunks
<1> SUFFICES StoreOK(e) /\ ActiveAttempts(e, c) = {n} OBVIOUS
<1>1. /\ Len(e.atts[c]) = n /\ n \in Nat /\ n # 0 /\ n \notin DOMAIN d.atts[c]
      /\ DOMAIN e.atts[c] = DOMAIN d.atts[c] \cup {n} /\ e.atts[c][n] = x
      /\ \A a \in DOMAIN d.atts[c] : e.atts[c][a] = d.atts[c][a]
  <2>1. Len(e.atts[c]) = n /\ DOMAIN e.atts[c] = 1 .. n /\ e.atts[c][n] = x
    BY <1>0 DEF Begun
  <2>2. \A a \in DOMAIN d.atts[c] : e.atts[c][a] = d.atts[c][a]
    BY <1>0 DEF Begun
  <2>3. 1 .. n = 1 .. Len(d.atts[c]) \cup {n} BY <1>0
  <2> QED BY <1>0, <2>1, <2>2, <2>3
<1>x. /\ x.up = Upstream(d, c) /\ x.inputs = con /\ x.state = "GENERATING_STAGE1"
      /\ x.state \in Active /\ x.state # "COMPLETE"
  BY DEF NewAttempt, Active
<1> HIDE DEF n, x
<1>2. d.chunks[c].acc = 0
  <2>1. Linked(d, c) BY DEF StoreOK, RowsOK
  <2>2. d.chunks[c].acc \in Nat BY <1>0, DomainOfRows DEF ChunkRows
  <2> QED BY <1>0, <2>1, <2>2 DEF Linked
<1>3. \A i \in Chunks : Upstream(e, i) = Upstream(d, i)
  <2> TAKE i \in Chunks
  <2>1. i # 1 => i - 1 \in Chunks BY ChunkAssumption DEF Chunks
  <2> QED BY <2>1 DEF Upstream, Begun
<1>4. ActiveAttempts(e, c) = {n}
  <2>1. \A a \in DOMAIN d.atts[c] : d.atts[c][a].state \notin Active BY DEF ActiveAttempts
  <2> QED BY <1>1, <1>x, <2>1 DEF ActiveAttempts
<1>5. c > 1 => Upstream(d, c) # 0 BY DEF BeginRefused
<1>6. d.chunks[1].state # "NONE"
  <2>1. SUFFICES ASSUME d.chunks[1].state = "NONE" PROVE FALSE OBVIOUS
  <2>2. c = 1
    <3>1. c # 1 => c - 1 \in Chunks BY ChunkAssumption DEF Chunks
    <3>2. c # 1 => d.chunks[c - 1].acc = 0 BY <2>1, <3>1 DEF StoreOK, RowsOK, Unplanned
    <3> QED BY <1>0, <1>5, <3>2 DEF Upstream
  <2> QED BY <2>1, <2>2 DEF BeginRefused, Startable
<1>7. ASSUME NEW i \in Chunks PROVE RowsOK(e, i)
  <2>1. RowsOK(d, i) BY DEF StoreOK
  <2>2. e.chunks[i].acc = d.chunks[i].acc BY DEF Begun
  <2>3. CASE i # c
    <3>1. e.atts[i] = d.atts[i] /\ e.chunks[i] = d.chunks[i] BY <2>3 DEF Begun
    <3>2. ActiveAttempts(e, i) = ActiveAttempts(d, i) BY <3>1 DEF ActiveAttempts
    <3>3. Linked(e, i) /\ Alone(e, i) /\ Unrivalled(e, i) /\ Rooted(e, i)
      BY <2>1, <3>1, <3>2, <1>3 DEF RowsOK, Linked, Alone, Unrivalled, Rooted
    <3>4. e.chunks[1].state = "NONE" => d.chunks[1].state = "NONE"
      <4>1. 1 \in Chunks BY ChunkAssumption DEF Chunks
      <4> QED BY <4>1 DEF Begun
    <3>5. Unplanned(e, i) BY <1>6, <3>4 DEF Unplanned
    <3>6. \A con2, up2 : Spent(e, i, con2, up2) = Spent(d, i, con2, up2)
      BY <3>1 DEF Spent, Matches
    <3>7. Frugal(e, i) BY <2>1, <3>6 DEF RowsOK, Frugal
    <3> QED BY <3>3, <3>5, <3>7 DEF RowsOK
  <2>4. CASE i = c
    <3>1. Linked(e, c)
      BY <1>0, <1>1, <1>2, <2>2, <2>4 DEF Linked
    <3>3. Alone(e, c)
      BY <1>1, <1>2, <1>3, <1>4, <1>5, <1>x, <2>2, <2>4 DEF Alone
    <3>4. Unrivalled(e, c)
      BY <1>1, <1>x DEF Unrivalled
    <3>5. Rooted(e, c)
      BY <1>1, <1>5, <1>x, <2>1, <2>4 DEF RowsOK, Rooted
    <3>6. Unplanned(e, c)
      <4>1. 1 \in Chunks BY ChunkAssumption DEF Chunks
      <4> QED BY <4>1, <1>6 DEF Unplanned, Begun
    <3>7. Frugal(e, c)
      <4> SUFFICES ASSUME NEW con2 \in Nat, NEW up2 \in Nat
                   PROVE  Cardinality(Spent(e, c, con2, up2)) <= MaxAttempts
        BY DEF Frugal
      <4> DEFINE S == Spent(d, c, con2, up2)
      <4>1. Cardinality(S) <= MaxAttempts BY <2>1, <2>4 DEF RowsOK, Frugal
      <4>2. IsFiniteSet(S)
        <5>1. IsFiniteSet(DOMAIN d.atts[c]) BY <1>0, UpToIsFinite
        <5> QED BY <5>1, FS_Subset DEF Spent
      <4>3. Cardinality(S) \in Nat BY <4>2, FS_CardinalityType
      <4>4. CASE con2 = con /\ up2 = Upstream(d, c)
        <5>1. Spent(e, c, con2, up2) \subseteq S \cup {n}
          BY <1>1 DEF Spent, Matches
        <5>2. IsFiniteSet(S \cup {n}) /\ Cardinality(S \cup {n}) <= Cardinality(S) + 1
          <6> HIDE DEF S
          <6>1. /\ IsFiniteSet(S \cup {n})
                /\ Cardinality(S \cup {n}) = IF n \in S THEN Cardinality(S) ELSE Cardinality(S) + 1
            BY <4>2, FS_AddElement
          <6> QED BY <4>3, <6>1
        <5>3. Cardinality(Spent(e, c, con2, up2)) <= Cardinality(S \cup {n})
          BY <5>1, <5>2, FS_Subset
        <5>4. /\ Cardinality(S \cup {n}) \in Nat
              /\ Cardinality(Spent(e, c, con2, up2)) \in Nat
          BY <5>1, <5>2, FS_Subset, FS_CardinalityType
        <5> QED BY <4>3, <4>4, <5>2, <5>3, <5>4, ChunkAssumption
      <4>5. CASE ~(con2 = con /\ up2 = Upstream(d, c))
        <5>1. Spent(e, c, con2, up2) = S
          BY <1>1, <1>x, <4>5 DEF Spent, Matches
        <5> QED BY <4>1, <5>1
      <4> QED BY <4>4, <4>5
    <3> QED BY <2>4, <3>1, <3>3, <3>4, <3>5, <3>6, <3>7 DEF RowsOK
  <2> QED BY <2>3, <2>4
<1> QED BY <1>0, <1>4, <1>7 DEF StoreOK

\* ensure_chunks writes the rows once.
LEMMA PlanKeeps ==
  ASSUME NEW d, StoreOK(d)
  PROVE  LET e == PlanChunks(EnsurePlan(d)) IN
         /\ StoreOK(e) /\ e.scene = d.scene /\ e.atts = d.atts
         /\ \A c \in Chunks : e.chunks[c].acc = d.chunks[c].acc
<1> DEFINE p == EnsurePlan(d)
           e == PlanChunks(p)
<1> SUFFICES /\ StoreOK(e) /\ e.scene = d.scene /\ e.atts = d.atts
             /\ \A c \in Chunks : e.chunks[c].acc = d.chunks[c].acc
  OBVIOUS
<1>0. d \in Tables BY DEF StoreOK
<1>1. p \in Tables /\ p.scene = d.scene /\ p.atts = d.atts /\ p.chunks = d.chunks
  BY <1>0 DEF EnsurePlan, Tables
<1>2. \A c \in Chunks : RowsOK(d, c) BY DEF StoreOK
<1> HIDE DEF p
<1>3. StoreOK(p)
  <2> SUFFICES ASSUME NEW c \in Chunks PROVE RowsOK(p, c) BY <1>1 DEF StoreOK
  <2>1. /\ ActiveAttempts(p, c) = ActiveAttempts(d, c) /\ Upstream(p, c) = Upstream(d, c)
        /\ \A con, up : Spent(p, c, con, up) = Spent(d, c, con, up)
    BY <1>1 DEF ActiveAttempts, Upstream, Spent, Matches
  <2>2. Linked(p, c) /\ Alone(p, c) /\ Unrivalled(p, c)
    BY <1>1, <1>2, <2>1 DEF RowsOK, Linked, Alone, Unrivalled
  <2>3. Rooted(p, c) /\ Unplanned(p, c) /\ Frugal(p, c)
    BY <1>1, <1>2, <2>1 DEF RowsOK, Rooted, Unplanned, Frugal
  <2> QED BY <2>2, <2>3 DEF RowsOK
<1>4. CASE p.chunks[1].state # "NONE"
  BY <1>1, <1>3, <1>4 DEF PlanChunks
<1>5. CASE p.chunks[1].state = "NONE"
  <2>1. e = [p EXCEPT !.chunks = [c \in Chunks |->
               [state |-> IF c = 1 THEN "READY" ELSE "BLOCKED_UPSTREAM", acc |-> 0]]]
    BY <1>5 DEF PlanChunks
  <2> HIDE DEF e
  <2>2. /\ e.scene = p.scene /\ e.atts = p.atts
        /\ \A c \in Chunks : /\ e.chunks[c].acc = 0
                             /\ e.chunks[c].state \in {"READY", "BLOCKED_UPSTREAM"}
                             /\ e.chunks[c] \in ChunkRows
    BY <2>1, <1>1 DEF Tables, ChunkRows, ChunkStates
  <2>3. e \in Tables
    <3>1. e.chunks = [c \in Chunks |-> e.chunks[c]] BY <2>1, <1>1 DEF Tables
    <3>2. e.chunks \in [Chunks -> ChunkRows] BY <2>2, <3>1
    <3> QED BY <2>1, <1>1, <3>2 DEF Tables
  <2>4. \A c \in Chunks : p.chunks[c].acc = 0 /\ p.atts[c] = <<>>
    BY <1>3, <1>5 DEF StoreOK, RowsOK, Unplanned
  <2>5. \A c \in Chunks : RowsOK(e, c)
    <3> TAKE c \in Chunks
    <3>1. e.atts[c] = <<>> /\ DOMAIN e.atts[c] = {} /\ e.chunks[c].acc = 0
      BY <2>2, <2>4
    <3>2. ActiveAttempts(e, c) = {} BY <3>1 DEF ActiveAttempts
    <3>3. Frugal(e, c)
      <4>1. \A con, up : Spent(e, c, con, up) = {} BY <3>1 DEF Spent
      <4> QED BY <4>1, FS_EmptySet, ChunkAssumption DEF Frugal
    <3> QED BY <3>1, <3>2, <3>3 DEF RowsOK, Linked, Alone, Unrivalled, Rooted, Unplanned
  <2> QED BY <1>1, <2>2, <2>3, <2>4, <2>5 DEF StoreOK
<1> QED BY <1>4, <1>5

\* retry_job and abandon_job end attempts and rewrite the states of the rows that are not
\* accepted; they accept nothing and take no acceptance back.
Swept(d, e) ==
  /\ e \in Tables
  /\ \A c \in Chunks :
       /\ e.chunks[c].acc = d.chunks[c].acc
       /\ e.chunks[c].acc # 0 => e.chunks[c].state = d.chunks[c].state
       /\ e.chunks[c].state = "NONE" => d.chunks[c].state = "NONE"
       /\ Len(e.atts[c]) = Len(d.atts[c])
       /\ \A a \in DOMAIN d.atts[c] :
            /\ e.atts[c][a].up = d.atts[c][a].up
            /\ e.atts[c][a].inputs = d.atts[c][a].inputs
            /\ e.atts[c][a].ids = d.atts[c][a].ids
            /\ \/ e.atts[c][a].state = d.atts[c][a].state
               \/ e.atts[c][a].state \in Voided /\ d.atts[c][a].state # "COMPLETE"

LEMMA SweepKeeps ==
  ASSUME NEW d, StoreOK(d), NEW e, Swept(d, e) PROVE StoreOK(e)
<1>1. Weaker(d, e, NChunks + 1)
  <2>1. \A c \in Chunks : c < NChunks + 1 BY ChunkAssumption DEF Chunks
  <2>2. 1 \in Chunks BY ChunkAssumption DEF Chunks
  <2>3. ASSUME NEW c \in Chunks, NEW a \in DOMAIN d.atts[c], e.chunks[c].acc = a
        PROVE  e.atts[c][a].state = d.atts[c][a].state
    <3>1. d.chunks[c].acc = a /\ a # 0
      <4>1. DOMAIN d.atts[c] = 1 .. Len(d.atts[c]) BY DomainOfRows DEF StoreOK
      <4> QED BY <2>3, <4>1 DEF Swept
    <3>2. d.atts[c][a].state = "COMPLETE" BY <3>1 DEF StoreOK, RowsOK, Linked
    <3> QED BY <3>2 DEF Swept
  <2>4. "COMPLETE" \notin Active /\ Voided \cap Active = {} /\ "COMPLETE" \notin Voided
    BY DEF Active, Voided
  <2> QED BY <2>1, <2>2, <2>3, <2>4 DEF Swept, Weaker
<1> QED BY <1>1, WeakerKeeps, ChunkAssumption DEF Swept

\* What a rewrite of every row and attempt in place amounts to.
LEMMA Rewrite ==
  ASSUME NEW d \in Tables, NEW scene \in {"PENDING", "FAILED", "SUCCEEDED", "CANCELLED"},
         NEW ats, ats = [c \in Chunks |-> [a \in DOMAIN d.atts[c] |-> ats[c][a]]],
         \A c \in Chunks : \A a \in DOMAIN d.atts[c] : ats[c][a] \in Attempts,
         NEW rows, rows = [c \in Chunks |-> rows[c]],
         \A c \in Chunks : rows[c] \in ChunkRows
  PROVE  /\ [d EXCEPT !.scene = scene, !.atts = ats, !.chunks = rows] \in Tables
         /\ \A c \in Chunks : Len(ats[c]) = Len(d.atts[c])
<1>1. ASSUME NEW c \in Chunks PROVE ats[c] \in Seq(Attempts) /\ Len(ats[c]) = Len(d.atts[c])
  <2>1. d.atts[c] \in Seq(Attempts) BY DomainOfRows
  <2>2. ats[c] = [a \in DOMAIN d.atts[c] |-> ats[c][a]] OBVIOUS
  <2> QED BY <2>1, <2>2, Rewritten
<1>2. ats \in [Chunks -> Seq(Attempts)] BY <1>1
<1>3. rows \in [Chunks -> ChunkRows] OBVIOUS
<1> QED BY <1>1, <1>2, <1>3 DEF Tables

LEMMA AbandonDoes ==
  ASSUME NEW d, StoreOK(d)
  PROVE  Swept(d, AbandonJob(d)) /\ AbandonJob(d).scene = "CANCELLED"
<1> DEFINE ats == [c \in Chunks |-> [a \in DOMAIN d.atts[c] |->
                     IF d.atts[c][a].state \in Active
                     THEN [d.atts[c][a] EXCEPT !.state = "CANCELLED"] ELSE d.atts[c][a]]]
           rows == [c \in Chunks |->
                     IF d.chunks[c].state = "NONE" \/ Accepted(d, c) THEN d.chunks[c]
                     ELSE [d.chunks[c] EXCEPT !.state = "CANCELLED"]]
           e == [d EXCEPT !.scene = "CANCELLED", !.atts = ats, !.chunks = rows]
<1>0. d \in Tables BY DEF StoreOK
<1>1. AbandonJob(d) = e BY DEF AbandonJob
<1>2. ASSUME NEW c \in Chunks, NEW a \in DOMAIN d.atts[c]
      PROVE  /\ ats[c][a] \in Attempts
             /\ ats[c][a].up = d.atts[c][a].up /\ ats[c][a].inputs = d.atts[c][a].inputs
             /\ ats[c][a].ids = d.atts[c][a].ids
             /\ \/ ats[c][a].state = d.atts[c][a].state
                \/ ats[c][a].state \in Voided /\ d.atts[c][a].state # "COMPLETE"
  <2>1. d.atts[c][a] \in Attempts BY <1>0, DomainOfRows
  <2>2. "CANCELLED" \in Voided /\ "CANCELLED" \in AttemptStates /\ "COMPLETE" \notin Active
    BY DEF Voided, AttemptStates, FinalStates, Active
  <2> QED BY <2>1, <2>2 DEF Attempts
<1>3. ASSUME NEW c \in Chunks
      PROVE  /\ rows[c] \in ChunkRows /\ rows[c].acc = d.chunks[c].acc
             /\ rows[c].acc # 0 => rows[c].state = d.chunks[c].state
             /\ rows[c].state = "NONE" => d.chunks[c].state = "NONE"
  <2>1. d.chunks[c] \in ChunkRows BY <1>0, DomainOfRows
  <2>2. d.chunks[c].acc # 0 => Accepted(d, c) BY DEF Accepted, StoreOK, RowsOK, Linked
  <2>3. "CANCELLED" \in ChunkStates BY DEF ChunkStates, AttemptStates, FinalStates, Voided
  <2> QED BY <2>1, <2>2, <2>3 DEF ChunkRows
<1>4. /\ ats = [c \in Chunks |-> [a \in DOMAIN d.atts[c] |-> ats[c][a]]]
      /\ rows = [c \in Chunks |-> rows[c]]
  OBVIOUS
<1> HIDE DEF ats, rows
<1>5. e \in Tables /\ \A c \in Chunks : Len(ats[c]) = Len(d.atts[c])
  <2>1. \A c \in Chunks : \A a \in DOMAIN d.atts[c] : ats[c][a] \in Attempts BY <1>2
  <2>2. \A c \in Chunks : rows[c] \in ChunkRows BY <1>3
  <2> QED BY <1>0, <1>4, <2>1, <2>2, Rewrite
<1>6. e.scene = "CANCELLED" /\ e.atts = ats /\ e.chunks = rows BY <1>0 DEF Tables
<1> HIDE DEF e
<1> QED BY <1>1, <1>2, <1>3, <1>5, <1>6 DEF Swept

LEMMA RetryDoes ==
  ASSUME NEW d, StoreOK(d)
  PROVE  Swept(d, RetryJob(d)) /\ RetryJob(d).scene = "PENDING"
<1> DEFINE ats == [c \in Chunks |-> [a \in DOMAIN d.atts[c] |->
                     IF d.atts[c][a].state \in {"FAILED_RETRYABLE", "FAILED_TERMINAL"}
                     THEN [d.atts[c][a] EXCEPT !.state = "INVALIDATED"] ELSE d.atts[c][a]]]
           restored(c) == LET live == ActiveAttempts(d, c)
                          IN CASE live # {} -> d.atts[c][Highest(live)].state
                               [] live = {} /\ \A i \in 1 .. c - 1 : Accepted(d, i) -> "READY"
                               [] OTHER -> "BLOCKED_UPSTREAM"
           rows == [c \in Chunks |->
                     IF d.chunks[c].state = "NONE" \/ Accepted(d, c) THEN d.chunks[c]
                     ELSE [d.chunks[c] EXCEPT !.state = restored(c)]]
           e == [d EXCEPT !.scene = "PENDING", !.atts = ats, !.chunks = rows]
<1>0. d \in Tables BY DEF StoreOK
<1>1. RetryJob(d) = e BY DEF RetryJob
<1>2. ASSUME NEW c \in Chunks, NEW a \in DOMAIN d.atts[c]
      PROVE  /\ ats[c][a] \in Attempts
             /\ ats[c][a].up = d.atts[c][a].up /\ ats[c][a].inputs = d.atts[c][a].inputs
             /\ ats[c][a].ids = d.atts[c][a].ids
             /\ \/ ats[c][a].state = d.atts[c][a].state
                \/ ats[c][a].state \in Voided /\ d.atts[c][a].state # "COMPLETE"
  <2>1. d.atts[c][a] \in Attempts BY <1>0, DomainOfRows
  <2>2. "INVALIDATED" \in Voided /\ "INVALIDATED" \in AttemptStates
    BY DEF Voided, AttemptStates, FinalStates
  <2> QED BY <2>1, <2>2 DEF Attempts
<1>3. ASSUME NEW c \in Chunks PROVE restored(c) \in ChunkStates \ {"NONE"}
  <2>1. CASE ActiveAttempts(d, c) # {}
    <3>1. PICK a \in ActiveAttempts(d, c) : TRUE BY <2>1
    <3>2. ActiveAttempts(d, c) = {a} BY <3>1 DEF StoreOK, RowsOK, Alone
    <3>3. a \in Nat /\ a \in DOMAIN d.atts[c]
      <4>1. DOMAIN d.atts[c] = 1 .. Len(d.atts[c]) BY <1>0, DomainOfRows
      <4> QED BY <3>1, <4>1 DEF ActiveAttempts
    <3>4. Highest(ActiveAttempts(d, c)) = a BY <3>2, <3>3, HighestOfOne
    <3>5. d.atts[c][a].state \in Active BY <3>1 DEF ActiveAttempts
    <3>6. restored(c) = d.atts[c][a].state BY <2>1, <3>4
    <3> QED BY <3>5, <3>6 DEF ChunkStates, AttemptStates, Active
  <2>2. CASE ActiveAttempts(d, c) = {}
    <3>1. restored(c) \in {"READY", "BLOCKED_UPSTREAM"} BY <2>2
    <3> QED BY <3>1 DEF ChunkStates
  <2> QED BY <2>1, <2>2
<1>4. ASSUME NEW c \in Chunks
      PROVE  /\ rows[c] \in ChunkRows /\ rows[c].acc = d.chunks[c].acc
             /\ rows[c].acc # 0 => rows[c].state = d.chunks[c].state
             /\ rows[c].state = "NONE" => d.chunks[c].state = "NONE"
  <2>1. d.chunks[c] \in ChunkRows BY <1>0, DomainOfRows
  <2>2. d.chunks[c].acc # 0 => Accepted(d, c) BY DEF Accepted, StoreOK, RowsOK, Linked
  <2>3. restored(c) \in ChunkStates /\ restored(c) # "NONE" BY <1>3
  <2> HIDE DEF restored
  <2> QED BY <2>1, <2>2, <2>3 DEF ChunkRows
<1>5. /\ ats = [c \in Chunks |-> [a \in DOMAIN d.atts[c] |-> ats[c][a]]]
      /\ rows = [c \in Chunks |-> rows[c]]
  OBVIOUS
<1> HIDE DEF ats, rows
<1>6. e \in Tables /\ \A c \in Chunks : Len(ats[c]) = Len(d.atts[c])
  <2>1. \A c \in Chunks : \A a \in DOMAIN d.atts[c] : ats[c][a] \in Attempts BY <1>2
  <2>2. \A c \in Chunks : rows[c] \in ChunkRows BY <1>4
  <2> QED BY <1>0, <1>5, <2>1, <2>2, Rewrite
<1>7. e.scene = "PENDING" /\ e.atts = ats /\ e.chunks = rows BY <1>0 DEF Tables
<1> HIDE DEF e
<1> QED BY <1>1, <1>2, <1>4, <1>6, <1>7 DEF Swept

\* A new state of the scene leaves the chunks alone.
LEMMA SceneKeeps ==
  ASSUME NEW d, StoreOK(d), NEW scene \in {"PENDING", "FAILED", "SUCCEEDED", "CANCELLED"}
  PROVE  LET e == [d EXCEPT !.scene = scene] IN
         StoreOK(e) /\ e.scene = scene /\ e.chunks = d.chunks /\ e.atts = d.atts
<1> DEFINE e == [d EXCEPT !.scene = scene]
<1>0. d \in Tables BY DEF StoreOK
<1>1. e \in Tables /\ e.scene = scene /\ e.chunks = d.chunks /\ e.atts = d.atts
  BY <1>0 DEF Tables
<1> HIDE DEF e
<1>2. Swept(d, e) BY <1>1 DEF Swept
<1>3. StoreOK(e) BY <1>2, SweepKeeps
<1> QED BY <1>1, <1>3 DEF e
=============================================================================
