---------------------------- MODULE MailboxProofs ----------------------------
(* What TLAPS proves about Mailbox: MailConsistent holds in every reachable     *)
(* state, for every set of mails and any number of faults.                      *)
EXTENDS Mailbox, FiniteSetTheorems, WellFoundedInduction, TLAPS

Records == {"none", "invalid", "claimed"}
PollSteps == {"rest", "fetch", "next", "reject", "claim", "reject-seen", "skip-seen",
              "accept-seen"}
PollStates == [pc : PollSteps, todo : SUBSET Mails, cur : Nat, idle : BOOLEAN]

Types == /\ jobs \subseteq [name : Nat \X Nat, content : Nat, key : Keys]
         /\ IsFiniteSet(jobs)
         /\ poll \in [Pollers -> PollStates]

\* The mail a poller holds is one of the author, and what the poller is about to put away
\* was malformed when it came or has become a job.
Filed(u) == \E j \in jobs : j.content = Mail[u].content /\ j.name[1] = Mail[u].id
InHand ==
  \A p \in Pollers :
    /\ poll[p].pc \notin {"rest", "fetch", "next"} => Mail[poll[p].cur].trusted
    /\ poll[p].pc \in {"reject", "reject-seen"} => poll[p].cur \in Broken
    /\ poll[p].pc \in {"skip-seen", "accept-seen"} => Filed(poll[p].cur)

\* A job keeps its message claimed for ever.
Recorded == \A j \in jobs : record[j.key] = "claimed"

IInv == MailConsistent /\ Types /\ InHand /\ Recorded

-----------------------------------------------------------------------------
\* A nonempty set of natural numbers has a least element.
LEMMA LeastElement ==
  ASSUME NEW S \in SUBSET Nat, S # {}
  PROVE  \E n \in S : \A k \in S : n <= k
<1>1. \E n \in S : \A k \in S : <<k, n>> \notin OpToRel(<, Nat)
  BY NatLessThanWellFounded, WFMin
<1>2. PICK n \in S : \A k \in S : <<k, n>> \notin OpToRel(<, Nat)
  BY <1>1
<1>3. \A k \in S : ~(k < n)
  BY <1>2 DEF OpToRel
<1> QED BY <1>3

\* The first mail of a nonempty list is on the list.
LEMMA FirstIsOne ==
  ASSUME NEW S \in SUBSET Nat, S # {}
  PROVE  First(S) \in S
BY LeastElement DEF First

\* Of one id there is always a suffix that no job has, and Suffix finds one.
LEMMA SuffixIsFree ==
  ASSUME IsFiniteSet(jobs), NEW id
  PROVE  Suffix(id) \in Nat /\ Named(<<id, Suffix(id)>>) = {}
<1> DEFINE N == Cardinality(jobs)
           Numbers == 2 .. N + 2
           Unused == {n \in Numbers : Named(<<id, n>>) = {}}
<1>1. N \in Nat BY FS_CardinalityType
<1>2. IsFiniteSet(Numbers) /\ N < Cardinality(Numbers)
  BY <1>1, FS_Interval
<1>3. Unused # {}
  <2> SUFFICES ASSUME Unused = {} PROVE FALSE OBVIOUS
  <2> DEFINE f == [n \in Numbers |-> CHOOSE j \in jobs : j.name = <<id, n>>]
  <2>1. \A n \in Numbers : f[n] \in jobs /\ f[n].name = <<id, n>>
    BY DEF Named
  <2>2. f \in [Numbers -> jobs] BY <2>1
  <2> HIDE DEF f, Numbers
  <2>3. \E x, y \in Numbers : x # y /\ f[x] = f[y]
    BY <1>2, <2>2, FS_PigeonHole
  <2> QED BY <2>1, <2>3
<1>4. \E n \in Unused : \A k \in Unused : n <= k
  <2>1. Unused \in SUBSET Nat BY <1>1
  <2> HIDE DEF Unused
  <2> QED BY <1>3, <2>1, LeastElement
<1>5. PICK n \in Unused : \A k \in Unused : n <= k BY <1>4
<1>6. /\ n \in Numbers /\ n \in Nat /\ Named(<<id, n>>) = {}
      /\ \A k \in 2 .. n - 1 : Named(<<id, k>>) # {}
  <2>1. n \in Nat /\ n <= N + 2 BY <1>1, <1>5
  <2>2. ASSUME NEW k \in 2 .. n - 1 PROVE k \in Numbers /\ ~(n <= k)
    BY <1>1, <2>1
  <2> QED BY <1>5, <2>1, <2>2
<1>7. Suffix(id) \in Numbers /\ Named(<<id, Suffix(id)>>) = {}
  BY <1>6 DEF Suffix
<1> QED BY <1>1, <1>7

\* The name of a new job is a name no job has.
LEMMA NameIsNew ==
  ASSUME IsFiniteSet(jobs), NEW m, m.id \in Nat
  PROVE  /\ JobName(m) \in Nat \X Nat
         /\ JobName(m)[1] = m.id
         /\ \A j \in jobs : j.name # JobName(m)
<1>1. CASE Named(<<m.id, 1>>) = {}
  BY <1>1 DEF JobName, Named
<1>2. CASE Named(<<m.id, 1>>) # {}
  BY <1>2, SuffixIsFree DEF JobName, Named
<1> QED BY <1>1, <1>2

-----------------------------------------------------------------------------
\* What the invariant asks of the pollers alone, given the jobs and the inbox.
PollersOK == /\ poll \in [Pollers -> PollStates]
             /\ InHand
             /\ \A p \in Pollers : /\ poll[p].todo \subseteq inbox
                                   /\ poll[p].pc \notin {"rest", "fetch", "next"}
                                        => poll[p].cur \in inbox

\* A poller that leaves or drops its mail holds nothing.
LEMMA LettingGo ==
  ASSUME PollersOK, NEW p \in Pollers, Leave(p) \/ Drop(p), UNCHANGED inbox, jobs \subseteq jobs'
  PROVE  PollersOK'
<1>1. \A q \in Pollers : poll'[q] = poll[q] \/ poll'[q].pc \in {"rest", "next"}
  BY DEF PollersOK, PollStates, Leave, Drop, Resting
<1>2. poll' \in [Pollers -> PollStates]
  <2>1. CASE Leave(p)
    <3>1. Resting \in PollStates BY DEF Resting, PollStates, PollSteps
    <3> QED BY <2>1, <3>1 DEF Leave, PollersOK
  <2>2. CASE Drop(p)
    <3> DEFINE r == [poll[p] EXCEPT !.pc = "next", !.todo = @ \ {poll[p].cur}, !.cur = 0]
    <3>1. r \in PollStates BY DEF PollersOK, PollStates, PollSteps
    <3>2. poll' = [poll EXCEPT ![p] = r] BY <2>2 DEF Drop, PollersOK
    <3> QED BY <3>1, <3>2 DEF PollersOK
  <2> QED BY <2>1, <2>2
<1>3. \A q \in Pollers : poll'[q].todo \subseteq inbox'
  BY DEF PollersOK, PollStates, Leave, Drop, Resting
<1>4. InHand'
  BY <1>1 DEF PollersOK, InHand, Filed
<1>5. \A q \in Pollers : poll'[q].pc \notin {"rest", "fetch", "next"} => poll'[q].cur \in inbox'
  BY <1>1 DEF PollersOK
<1> QED BY <1>2, <1>3, <1>4, <1>5 DEF PollersOK

\* A poller that goes on with its mail in hand has what the next step asks for.
LEMMA GoingOn ==
  ASSUME PollersOK, NEW p \in Pollers, NEW pc \in PollSteps, Go(p, pc),
         UNCHANGED inbox, jobs \subseteq jobs',
         poll[p].pc \in {"reject", "claim"},
         (pc = "reject-seen" /\ poll[p].pc = "reject") \/ pc \in {"skip-seen", "accept-seen"},
         pc \in {"skip-seen", "accept-seen"} => Filed(poll[p].cur)'
  PROVE  PollersOK'
<1>1. \A q \in Pollers : q # p => poll'[q] = poll[q]
  BY DEF PollersOK, Go
<1>2. /\ poll'[p].pc = pc /\ poll'[p].cur = poll[p].cur /\ poll'[p].todo = poll[p].todo
      /\ poll'[p].idle = poll[p].idle
  BY DEF PollersOK, PollStates, Go
<1>3. poll' \in [Pollers -> PollStates]
  BY DEF PollersOK, PollStates, Go
<1>4. InHand'
  BY <1>1, <1>2 DEF PollersOK, InHand, Filed
<1>5. \A q \in Pollers : /\ poll'[q].todo \subseteq inbox'
                         /\ poll'[q].pc \notin {"rest", "fetch", "next"} => poll'[q].cur \in inbox'
  BY <1>1, <1>2 DEF PollersOK
<1> QED BY <1>3, <1>4, <1>5 DEF PollersOK

-----------------------------------------------------------------------------
\* The invariant is about the mails and the store on one side and the pollers on the other.
StoreOK == /\ seen \subseteq inbox /\ inbox \subseteq Mails /\ broken \subseteq Broken
           /\ record \in [Keys -> Records]
           /\ pipe \in {"idle", "waiting", "busy"} /\ faults \in 0 .. MaxFaults
           /\ jobs \subseteq [name : Nat \X Nat, content : Nat, key : Keys]
           /\ IsFiniteSet(jobs)
           /\ MessageOnce /\ NamesDistinct /\ NothingPutAway /\ StrangersIgnored /\ Recorded

LEMMA Parts == IInv <=> StoreOK /\ PollersOK
BY DEF IInv, StoreOK, PollersOK, MailConsistent, TypeOK, Types, Records

\* The invariant holds initially.
LEMMA Initial == Init => IInv
<1> SUFFICES ASSUME Init PROVE StoreOK /\ PollersOK BY Parts
<1>1. StoreOK
  BY MailAssumption, FS_EmptySet DEF Init, StoreOK, Records, MessageOnce, NamesDistinct,
     NothingPutAway, StrangersIgnored, Recorded
<1>2. PollersOK
  BY DEF Init, PollersOK, PollStates, PollSteps, InHand, Resting
<1> QED BY <1>1, <1>2

\* The store side depends on the mails, the record and the jobs only.
LEMMA StoreKept ==
  ASSUME StoreOK, UNCHANGED <<inbox, seen, broken, record, jobs>>,
         pipe' \in {"idle", "waiting", "busy"}, faults' \in 0 .. MaxFaults
  PROVE  StoreOK'
BY DEF StoreOK, MessageOnce, NamesDistinct, NothingPutAway, StrangersIgnored, Recorded

\* Reading a mail hands it to the poller.
LEMMA ReadKeeps ==
  ASSUME StoreOK, PollersOK, NEW p \in Pollers, Read(p)
  PROVE  PollersOK'
<1> DEFINE u == First(poll[p].todo)
<1>1. u \in poll[p].todo /\ u \in inbox /\ u \in Nat
  BY MailAssumption, FirstIsOne DEF Read, StoreOK, PollersOK
<1> HIDE DEF u
<1>2. CASE Mail[u].trusted
  <2> DEFINE pc == IF u \in broken THEN "reject" ELSE "claim"
             r == [poll[p] EXCEPT !.cur = u, !.pc = pc]
  <2>1. poll' = [poll EXCEPT ![p] = r]
    BY <1>2 DEF Read, PollersOK, u
  <2>2. r \in PollStates /\ r.todo = poll[p].todo /\ r.cur = u /\ r.pc = pc
    BY <1>1 DEF PollersOK, PollStates, PollSteps
  <2>3. /\ poll' \in [Pollers -> PollStates] /\ poll'[p] = r
        /\ \A q \in Pollers : q # p => poll'[q] = poll[q]
    BY <2>1, <2>2 DEF PollersOK
  <2>4. pc \in {"reject", "claim"} /\ (pc = "reject" => u \in Broken)
    BY DEF StoreOK
  <2> HIDE DEF r, pc
  <2>5. InHand'
    BY <1>2, <2>2, <2>3, <2>4 DEF PollersOK, InHand, Filed, Read, store
  <2>6. \A q \in Pollers :
          /\ poll'[q].todo \subseteq inbox'
          /\ poll'[q].pc \notin {"rest", "fetch", "next"} => poll'[q].cur \in inbox'
    BY <1>1, <2>2, <2>3 DEF PollersOK, Read, mailbox
  <2> QED BY <2>3, <2>5, <2>6 DEF PollersOK
<1>3. CASE ~Mail[u].trusted
  <2> DEFINE r == [poll[p] EXCEPT !.todo = @ \ {u}]
  <2>1. poll' = [poll EXCEPT ![p] = r]
    BY <1>3 DEF Read, PollersOK, u
  <2>2. r \in PollStates /\ r.todo \subseteq poll[p].todo /\ r.cur = poll[p].cur /\ r.pc = "next"
    BY DEF PollersOK, PollStates, PollSteps, Read, At
  <2>3. /\ poll' \in [Pollers -> PollStates] /\ poll'[p] = r
        /\ \A q \in Pollers : q # p => poll'[q] = poll[q]
    BY <2>1, <2>2 DEF PollersOK
  <2> HIDE DEF r
  <2>4. InHand'
    BY <2>2, <2>3 DEF PollersOK, InHand, Filed, Read, store
  <2>5. \A q \in Pollers :
          /\ poll'[q].todo \subseteq inbox'
          /\ poll'[q].pc \notin {"rest", "fetch", "next"} => poll'[q].cur \in inbox'
    BY <2>2, <2>3 DEF PollersOK, Read, mailbox
  <2> QED BY <2>3, <2>4, <2>5 DEF PollersOK
<1> QED BY <1>2, <1>3

-----------------------------------------------------------------------------
\* The actions that claim a message or put a mail away.

LEMMA RejectKeeps ==
  ASSUME StoreOK, PollersOK, NEW p \in Pollers, Reject(p)
  PROVE  StoreOK' /\ PollersOK'
<1>1. CASE record[Key(p)] = "none"
  <2>1. /\ record' = [record EXCEPT ![Key(p)] = "invalid"]
        /\ \A j \in jobs : record'[j.key] = "claimed"
    BY <1>1 DEF Reject, StoreOK, Recorded
  <2>2. record' \in [Keys -> Records]
    BY <2>1 DEF StoreOK, Records
  <2>3. StoreOK'
    BY <2>1, <2>2 DEF Reject, mailbox, StoreOK, MessageOnce, NamesDistinct, NothingPutAway,
       StrangersIgnored, Recorded
  <2>4. "reject-seen" \in PollSteps BY DEF PollSteps
  <2>5. PollersOK'
    BY <1>1, <2>4, GoingOn DEF Reject, At, mailbox
  <2> QED BY <2>3, <2>5
<1>2. CASE record[Key(p)] # "none"
  <2>1. StoreOK'
    BY <1>2, StoreKept DEF Reject, mailbox, StoreOK
  <2>2. PollersOK'
    BY <1>2, LettingGo DEF Reject, mailbox
  <2> QED BY <2>1, <2>2
<1> QED BY <1>1, <1>2

\* What a poller that is about to claim has in hand.
LEMMA Claiming ==
  ASSUME StoreOK, PollersOK, NEW p \in Pollers, At(p, "claim")
  PROVE  LET m == Mail[poll[p].cur]
         IN /\ poll[p].cur \in Mails /\ m.trusted
            /\ m.id \in Nat /\ m.content \in Nat /\ m.key \in Keys
BY MailAssumption DEF StoreOK, PollersOK, InHand, At, Keys

LEMMA SkipKeeps ==
  ASSUME StoreOK, PollersOK, NEW p \in Pollers, Skip(p)
  PROVE  StoreOK' /\ PollersOK'
<1>1. record' \in [Keys -> Records] /\ Recorded'
  BY Claiming DEF Skip, Claimed, Key, StoreOK, Records, Recorded
<1>2. StoreOK'
  BY <1>1 DEF Skip, mailbox, StoreOK, MessageOnce, NamesDistinct, NothingPutAway,
     StrangersIgnored
<1>3. Filed(poll[p].cur)'
  <2>1. Filed(poll[p].cur) BY DEF Skip, Repeats, Filed
  <2>2. poll'[p].cur = poll[p].cur BY DEF Skip, Go, PollersOK, PollStates
  <2> QED BY <2>1, <2>2 DEF Skip, mailbox, Filed
<1>4. "skip-seen" \in PollSteps BY DEF PollSteps
<1>5. PollersOK'
  BY <1>3, <1>4, GoingOn DEF Skip, At, mailbox, Filed
<1> QED BY <1>2, <1>5

LEMMA AcceptKeeps ==
  ASSUME StoreOK, PollersOK, NEW p \in Pollers, Accept(p)
  PROVE  StoreOK' /\ PollersOK'
<1> DEFINE m == Mail[poll[p].cur]
           job == [name |-> JobName(m), content |-> m.content, key |-> m.key]
<1>1. /\ poll[p].cur \in Mails /\ m.trusted
      /\ m.id \in Nat /\ m.content \in Nat /\ m.key \in Keys
  BY Claiming DEF Accept
<1>2. /\ jobs' = jobs \cup {job} /\ record' = [record EXCEPT ![m.key] = "claimed"]
      /\ record[m.key] # "claimed" /\ pipe' = "busy"
      /\ UNCHANGED <<inbox, seen, broken, faults>>
  BY DEF Accept, Refused, Claimed, Key, mailbox
<1>3. JobName(m) \in Nat \X Nat /\ JobName(m)[1] = m.id /\ \A j \in jobs : j.name # JobName(m)
  BY <1>1, NameIsNew DEF StoreOK
<1>4. \A j \in jobs : j.key # m.key
  BY <1>2 DEF StoreOK, Recorded
<1> HIDE DEF m
<1>5. /\ job \in [name : Nat \X Nat, content : Nat, key : Keys]
      /\ job.key = m.key /\ job.name = JobName(m) /\ job.content = m.content
  BY <1>1, <1>3
<1> HIDE DEF job
<1>6. /\ jobs' \subseteq [name : Nat \X Nat, content : Nat, key : Keys]
      /\ IsFiniteSet(jobs')
  BY <1>2, <1>5, FS_AddElement DEF StoreOK
<1>7. record' \in [Keys -> Records] /\ Recorded'
  BY <1>1, <1>2, <1>5 DEF StoreOK, Records, Recorded
<1>8. MessageOnce' /\ NamesDistinct'
  BY <1>2, <1>3, <1>4, <1>5 DEF StoreOK, MessageOnce, NamesDistinct
<1>9. NothingPutAway'
  BY <1>2 DEF StoreOK, NothingPutAway
<1>10. StrangersIgnored'
  BY <1>1, <1>2, <1>5 DEF StoreOK, StrangersIgnored, m
<1>11. StoreOK'
  BY <1>2, <1>6, <1>7, <1>8, <1>9, <1>10 DEF StoreOK
<1>12. Filed(poll[p].cur)' /\ jobs \subseteq jobs'
  <2>1. \E j \in jobs' : j.content = m.content /\ j.name[1] = m.id
    BY <1>2, <1>3, <1>5
  <2>2. poll'[p].cur = poll[p].cur
    BY DEF Accept, Go, PollersOK, PollStates
  <2> QED BY <1>2, <2>1, <2>2 DEF Filed, m
<1>13. "accept-seen" \in PollSteps BY DEF PollSteps
<1>14. PollersOK'
  BY <1>2, <1>12, <1>13, GoingOn DEF Accept, At
<1> QED BY <1>11, <1>14

LEMMA MarkSeenKeeps ==
  ASSUME StoreOK, PollersOK, NEW p \in Pollers, MarkSeen(p)
  PROVE  StoreOK' /\ PollersOK'
<1> DEFINE u == poll[p].cur
<1>1. u \in inbox /\ Mail[u].trusted /\ (u \in Broken \/ Filed(u))
  BY DEF MarkSeen, PollersOK, InHand
<1>2. NothingPutAway' /\ StrangersIgnored'
  BY <1>1 DEF MarkSeen, store, StoreOK, NothingPutAway, StrangersIgnored, Filed
<1>3. StoreOK'
  BY <1>1, <1>2 DEF MarkSeen, store, StoreOK, MessageOnce, NamesDistinct, Recorded
<1>4. PollersOK'
  BY LettingGo DEF MarkSeen, store
<1> QED BY <1>3, <1>4

-----------------------------------------------------------------------------
\* Every step of a poller keeps the invariant.
LEMMA StepKeeps ==
  ASSUME StoreOK, PollersOK, NEW p \in Pollers, Step(p)
  PROVE  StoreOK' /\ PollersOK'
<1>1. CASE StartPoll(p)
  <2>1. StoreOK' BY <1>1, StoreKept DEF StartPoll, mailbox, store, StoreOK
  <2> DEFINE r == [Resting EXCEPT !.pc = "fetch", !.idle = (p = Supervisor /\ pipe = "idle")]
  <2>2. r \in PollStates /\ r.pc = "fetch" /\ r.todo = {}
    BY DEF PollStates, PollSteps, Resting
  <2>3. poll' = [poll EXCEPT ![p] = r] BY <1>1 DEF StartPoll
  <2> HIDE DEF r
  <2>4. /\ poll' \in [Pollers -> PollStates] /\ poll'[p] = r
        /\ \A q \in Pollers : q # p => poll'[q] = poll[q]
    BY <2>2, <2>3 DEF PollersOK
  <2>5. UNCHANGED <<inbox, jobs>> BY <1>1 DEF StartPoll, mailbox, store
  <2>6. InHand' BY <2>2, <2>4, <2>5 DEF PollersOK, InHand, Filed
  <2>7. PollersOK' BY <2>2, <2>4, <2>5, <2>6 DEF PollersOK
  <2> QED BY <2>1, <2>7
<1>2. CASE Fetch(p)
  <2>1. StoreOK' BY <1>2, StoreKept DEF Fetch, mailbox, store, StoreOK
  <2> DEFINE r == [poll[p] EXCEPT !.pc = "next", !.todo = inbox \ seen]
  <2>2. r \in PollStates /\ r.pc = "next" /\ r.todo \subseteq inbox
    BY DEF PollStates, PollSteps, PollersOK, StoreOK
  <2>3. poll' = [poll EXCEPT ![p] = r] BY <1>2 DEF Fetch, PollersOK
  <2> HIDE DEF r
  <2>4. /\ poll' \in [Pollers -> PollStates] /\ poll'[p] = r
        /\ \A q \in Pollers : q # p => poll'[q] = poll[q]
    BY <2>2, <2>3 DEF PollersOK
  <2>5. UNCHANGED <<inbox, jobs>> BY <1>2 DEF Fetch, mailbox, store
  <2>6. InHand' BY <2>2, <2>4, <2>5 DEF PollersOK, InHand, Filed
  <2>7. PollersOK' BY <2>2, <2>4, <2>5, <2>6 DEF PollersOK
  <2> QED BY <2>1, <2>7
<1>3. CASE Read(p)
  BY <1>3, ReadKeeps, StoreKept DEF Read, mailbox, store, StoreOK
<1>4. CASE Reject(p)
  BY <1>4, RejectKeeps
<1>5. CASE Refuse(p)
  <2>1. StoreOK' BY <1>5, StoreKept DEF Refuse, mailbox, store, StoreOK
  <2>2. PollersOK' BY <1>5, LettingGo DEF Refuse, mailbox, store
  <2> QED BY <2>1, <2>2
<1>6. CASE Skip(p)
  BY <1>6, SkipKeeps
<1>7. CASE Accept(p)
  BY <1>7, AcceptKeeps
<1>8. CASE MarkSeen(p)
  BY <1>8, MarkSeenKeeps
<1>9. CASE EndPoll(p)
  <2>1. StoreOK' BY <1>9, StoreKept DEF EndPoll, mailbox, StoreOK
  <2>2. PollersOK' BY <1>9, LettingGo DEF EndPoll, mailbox
  <2> QED BY <2>1, <2>2
<1> QED BY <1>1, <1>2, <1>3, <1>4, <1>5, <1>6, <1>7, <1>8, <1>9 DEF Step

\* A poll that misses a mail keeps the invariant.
LEMMA MissKeeps ==
  ASSUME StoreOK, PollersOK, NEW p \in Pollers, FetchMisses(p)
  PROVE  StoreOK' /\ PollersOK'
<1>1. PICK u \in inbox \ seen :
        poll' = [poll EXCEPT ![p].pc = "next", ![p].todo = (inbox \ seen) \ {u}]
  BY DEF FetchMisses
<1>2. faults' \in 0 .. MaxFaults
  BY MailAssumption DEF FetchMisses, Fault, StoreOK
<1>3. StoreOK'
  BY <1>2, StoreKept DEF FetchMisses, mailbox, store, StoreOK
<1> DEFINE r == [poll[p] EXCEPT !.pc = "next", !.todo = (inbox \ seen) \ {u}]
<1>4. r \in PollStates /\ r.pc = "next" /\ r.todo \subseteq inbox
  BY DEF PollStates, PollSteps, PollersOK, StoreOK
<1>5. poll' = [poll EXCEPT ![p] = r]
  BY <1>1 DEF PollersOK
<1> HIDE DEF r
<1>6. /\ poll' \in [Pollers -> PollStates] /\ poll'[p] = r
      /\ \A q \in Pollers : q # p => poll'[q] = poll[q]
  BY <1>4, <1>5 DEF PollersOK
<1>7. UNCHANGED <<inbox, jobs>> BY DEF FetchMisses, mailbox, store
<1>8. InHand' BY <1>4, <1>6, <1>7 DEF PollersOK, InHand, Filed
<1>9. PollersOK' BY <1>4, <1>6, <1>7, <1>8 DEF PollersOK
<1> QED BY <1>3, <1>9

\* A failed or crashed poll keeps the invariant.
LEMMA TroubleKeeps ==
  ASSUME StoreOK, PollersOK, NEW p \in Pollers, TransportFails(p) \/ Crash(p)
  PROVE  StoreOK' /\ PollersOK'
<1>1. faults' \in 0 .. MaxFaults
  BY MailAssumption DEF TransportFails, Crash, Fault, StoreOK
<1>2. StoreOK'
  BY <1>1, StoreKept DEF TransportFails, Crash, mailbox, store, StoreOK
<1>3. PollersOK'
  BY LettingGo DEF TransportFails, Crash, mailbox, store
<1> QED BY <1>2, <1>3

\* The world outside keeps the invariant.
LEMMA WorldKeeps ==
  ASSUME StoreOK, PollersOK,
         (\E u \in Mails : Deliver(u) \/ Correct(u)) \/ NodeRequest \/ JobEnds
  PROVE  StoreOK' /\ PollersOK'
<1>1. ASSUME NEW u \in Mails, Deliver(u) PROVE StoreOK' /\ PollersOK'
  <2>1. /\ inbox' = inbox \cup {u}
        /\ UNCHANGED <<seen, broken, record, jobs, pipe, poll, faults>>
    BY <1>1 DEF Deliver, store
  <2>2. StoreOK'
    BY <2>1 DEF StoreOK, MessageOnce, NamesDistinct, NothingPutAway, StrangersIgnored, Recorded
  <2>3. PollersOK' BY <2>1 DEF PollersOK, InHand, Filed
  <2> QED BY <2>2, <2>3
<1>2. ASSUME NEW u \in Mails, Correct(u) PROVE StoreOK' /\ PollersOK'
  <2>1. broken' \subseteq broken /\ UNCHANGED <<inbox, seen, record, jobs, pipe, poll, faults>>
    BY <1>2 DEF Correct, store
  <2>2. StoreOK'
    BY <2>1 DEF StoreOK, MessageOnce, NamesDistinct, NothingPutAway, StrangersIgnored, Recorded
  <2>3. PollersOK' BY <2>1 DEF PollersOK, InHand, Filed
  <2> QED BY <2>2, <2>3
<1>3. ASSUME NodeRequest \/ JobEnds PROVE StoreOK' /\ PollersOK'
  <2>1. pipe' \in {"waiting", "idle"} /\ UNCHANGED <<inbox, seen, broken, record, jobs, poll, faults>>
    BY <1>3 DEF NodeRequest, JobEnds, mailbox
  <2>2. StoreOK' BY <2>1, StoreKept DEF StoreOK
  <2>3. PollersOK' BY <2>1 DEF PollersOK, InHand, Filed
  <2> QED BY <2>2, <2>3
<1> QED BY <1>1, <1>2, <1>3

\* Stuttering keeps the invariant.
LEMMA StutterKeeps ==
  ASSUME StoreOK, PollersOK, UNCHANGED vars
  PROVE  StoreOK' /\ PollersOK'
<1>1. StoreOK' BY StoreKept DEF vars, StoreOK
<1>2. PollersOK' BY DEF vars, PollersOK, InHand, Filed
<1> QED BY <1>1, <1>2

\* The strengthened invariant is inductive.
THEOREM Inductive == IInv /\ [Next]_vars => IInv'
<1> SUFFICES ASSUME StoreOK, PollersOK, [Next]_vars PROVE StoreOK' /\ PollersOK'
  BY Parts DEF IInv, StoreOK, PollersOK, MailConsistent, TypeOK, Types, Records
<1>1. CASE \E p \in Pollers : Step(p)
  BY <1>1, StepKeeps
<1>2. CASE \E p \in Pollers : FetchMisses(p) \/ TransportFails(p) \/ Crash(p)
  BY <1>2, MissKeeps, TroubleKeeps
<1>3. CASE (\E u \in Mails : Deliver(u) \/ Correct(u)) \/ NodeRequest \/ JobEnds
  BY <1>3, WorldKeeps
<1>4. CASE UNCHANGED vars
  BY <1>4, StutterKeeps
<1> QED BY <1>1, <1>2, <1>3, <1>4 DEF Next

\* Whatever two pollers, crashes and repeated mails do, a message becomes at most one job
\* under a name of its own, and no mail is put away that has not been dealt with.
THEOREM MailsAccountedFor == Spec => []MailConsistent
<1>1. IInv => MailConsistent BY DEF IInv
<1> QED BY Initial, Inductive, <1>1, PTL DEF Spec
=============================================================================
