------------------------------- MODULE Mailbox -------------------------------
(***************************************************************************)
(* How the job mails of a Gmail inbox become jobs (mail.py and the claim   *)
(* transactions of state_store.py).  The supervisor polls, and so may the  *)
(* poll node of a ComfyUI graph, which is another process on the same      *)
(* database and the same inbox.  A mail may be delivered twice, repeat the *)
(* id or the content of an earlier one, or name a Drive file that is       *)
(* broken until its author corrects it.                                    *)
(***************************************************************************)
EXTENDS Naturals, FiniteSets

CONSTANTS Mails,      \* the mails that arrive, by IMAP UID
          Mail,       \* of each: [key |-> Message-ID, id |-> job_id, content, trusted]
          Broken,     \* the mails whose payload is malformed at first
          Supervisor, Node,   \* the two pollers
          MaxFaults   \* bound: crashes, IMAP and Drive failures

Pollers == {Supervisor, Node}
Keys == {Mail[u].key : u \in Mails}

ASSUME MailAssumption ==
    /\ Mails \subseteq Nat
    /\ Mail \in [Mails -> [key : Nat, id : Nat, content : Nat, trusted : BOOLEAN]]
    /\ Broken \subseteq Mails /\ Supervisor # Node /\ MaxFaults \in Nat

VARIABLES inbox,   \* the mails delivered so far
          seen,    \* those marked \Seen
          broken,  \* those whose payload is still malformed
          record,  \* mail_messages by key: "none", "invalid" (job_id NULL) or "claimed"
          jobs,    \* the jobs table: name, content, the key of the mail it came from
          pipe,    \* the pipeline row: "idle", "waiting" or "busy"
          poll,    \* each poller: where it is, what it has to look at, the mail in hand
          faults

vars == <<inbox, seen, broken, record, jobs, pipe, poll, faults>>
mailbox == <<inbox, seen, broken>>
store == <<record, jobs, pipe>>

-----------------------------------------------------------------------------
Resting == [pc |-> "rest", todo |-> {}, cur |-> 0, idle |-> FALSE]
At(p, pc) == poll[p].pc = pc
Go(p, pc) == poll' = [poll EXCEPT ![p].pc = pc]
Leave(p) == poll' = [poll EXCEPT ![p] = Resting]
Drop(p) == poll' = [poll EXCEPT ![p].pc = "next", ![p].todo = @ \ {poll[p].cur}, ![p].cur = 0]
Fault == faults < MaxFaults /\ faults' = faults + 1

Free == pipe \in {"idle", "waiting"}

\* poll_once looks at the pipeline row before it asks Gmail; tick has looked for itself.
StartPoll(p) == /\ At(p, "rest") /\ Free
                /\ poll' = [poll EXCEPT ![p] = [Resting EXCEPT !.pc = "fetch",
                                                               !.idle = (p = Supervisor /\ pipe = "idle")]]
                /\ UNCHANGED <<mailbox, store, faults>>

\* unread_pipeline_messages
Fetch(p) == /\ At(p, "fetch")
            /\ poll' = [poll EXCEPT ![p].pc = "next", ![p].todo = inbox \ seen]
            /\ UNCHANGED <<mailbox, store, faults>>

\* The FETCH of one mail fails, and the poll goes on without it.
FetchMisses(p) == /\ At(p, "fetch") /\ Fault
                  /\ \E u \in inbox \ seen :
                       poll' = [poll EXCEPT ![p].pc = "next", ![p].todo = (inbox \ seen) \ {u}]
                  /\ UNCHANGED <<mailbox, store>>

First(S) == CHOOSE u \in S : \A v \in S : u <= v

Read(p) == LET u == First(poll[p].todo)
           IN /\ At(p, "next") /\ poll[p].todo # {}
              /\ IF Mail[u].trusted
                 THEN poll' = [poll EXCEPT ![p].cur = u,
                                 ![p].pc = IF u \in broken THEN "reject" ELSE "claim"]
                 ELSE poll' = [poll EXCEPT ![p].todo = @ \ {u}]
              /\ UNCHANGED <<mailbox, store, faults>>

\* Drive, IMAP or the access token fail, and the poll ends with the exception.
TransportFails(p) == /\ poll[p].pc \in {"fetch", "next", "reject-seen", "accept-seen", "skip-seen"}
                     /\ Fault /\ Leave(p)
                     /\ UNCHANGED <<mailbox, store>>

-----------------------------------------------------------------------------
Key(p) == Mail[poll[p].cur].key

\* claim_message
Reject(p) == /\ At(p, "reject")
             /\ IF record[Key(p)] = "none"
                THEN record' = [record EXCEPT ![Key(p)] = "invalid"] /\ Go(p, "reject-seen")
                ELSE UNCHANGED record /\ Drop(p)
             /\ UNCHANGED <<mailbox, jobs, pipe, faults>>

\* claim_inbound_job: one transaction for its four outcomes
Named(name) == {j \in jobs : j.name = name}
Suffix(id) == CHOOSE n \in 2 .. Cardinality(jobs) + 2 :
                /\ Named(<<id, n>>) = {}
                /\ \A k \in 2 .. n - 1 : Named(<<id, k>>) # {}
JobName(m) == IF Named(<<m.id, 1>>) = {} THEN <<m.id, 1>> ELSE <<m.id, Suffix(m.id)>>

Refused_InvalidToo(p) == ~Free \/ record[Key(p)] # "none"
Refused_Never(p) == ~Free
Refused(p) == ~Free \/ record[Key(p)] = "claimed"
Repeats_IdOnly(m) == Named(<<m.id, 1>>) # {}
Repeats(m) == \E j \in jobs : j.name = <<m.id, 1>> /\ j.content = m.content

Claimed(p) == record' = [record EXCEPT ![Key(p)] = "claimed"]

Refuse(p) == /\ At(p, "claim") /\ Refused(p) /\ Drop(p)
             /\ UNCHANGED <<mailbox, store, faults>>

Skip(p) == /\ At(p, "claim") /\ ~Refused(p) /\ Repeats(Mail[poll[p].cur])
           /\ Claimed(p) /\ Go(p, "skip-seen")
           /\ UNCHANGED <<mailbox, jobs, pipe, faults>>

Accept(p) == LET m == Mail[poll[p].cur]
             IN /\ At(p, "claim") /\ ~Refused(p) /\ ~Repeats(m)
                /\ Claimed(p)
                /\ jobs' = jobs \cup {[name |-> JobName(m), content |-> m.content, key |-> m.key]}
                /\ pipe' = "busy" /\ Go(p, "accept-seen")
                /\ UNCHANGED <<mailbox, faults>>

\* mark_seen; an accepted mail ends the poll.
MarkSeen(p) == /\ poll[p].pc \in {"reject-seen", "skip-seen", "accept-seen"}
               /\ seen' = seen \cup {poll[p].cur}
               /\ IF At(p, "accept-seen") THEN Leave(p) ELSE Drop(p)
               /\ UNCHANGED <<inbox, broken, store, faults>>

\* Nothing accepted: a supervisor that found the pipeline idle asks for the next job, and
\* writes the row without looking at it again.
EndPoll(p) == /\ At(p, "next") /\ poll[p].todo = {} /\ Leave(p)
              /\ pipe' = IF poll[p].idle THEN "waiting" ELSE pipe
              /\ UNCHANGED <<mailbox, record, jobs, faults>>

\* The request node of a graph writes the row in any state.
NodeRequest == /\ pipe' = "waiting"
               /\ UNCHANGED <<mailbox, record, jobs, poll, faults>>

Step(p) == \/ StartPoll(p) \/ Fetch(p) \/ Read(p) \/ Reject(p) \/ Refuse(p) \/ Skip(p)
           \/ Accept(p) \/ MarkSeen(p) \/ EndPoll(p)

-----------------------------------------------------------------------------
Deliver(u) == /\ \A v \in Mails : v \in inbox <=> v < u
              /\ inbox' = inbox \cup {u}
              /\ UNCHANGED <<seen, broken, store, poll, faults>>

Correct(u) == /\ u \in broken /\ broken' = broken \ {u}
              /\ UNCHANGED <<inbox, seen, store, poll, faults>>

\* The job completes, or the operator abandons it.
JobEnds == /\ pipe = "busy" /\ pipe' \in {"waiting", "idle"}
           /\ UNCHANGED <<mailbox, record, jobs, poll, faults>>

\* A poller dies between two of its steps and is started again.
Crash(p) == /\ ~At(p, "rest") /\ Fault /\ Leave(p)
            /\ UNCHANGED <<mailbox, store>>

Init == /\ inbox = {} /\ seen = {} /\ broken = Broken
        /\ record = [k \in Keys |-> "none"]
        /\ jobs = {} /\ pipe = "idle" /\ faults = 0
        /\ poll = [p \in Pollers |-> Resting]

Next == \/ \E p \in Pollers : Step(p) \/ FetchMisses(p) \/ TransportFails(p) \/ Crash(p)
        \/ \E u \in Mails : Deliver(u) \/ Correct(u)
        \/ NodeRequest \/ JobEnds

Spec == Init /\ [][Next]_vars

\* The supervisor is a thread that is started again after a crash and polls every few
\* minutes, and a job ends; nobody promises a node run, a delivery or a correction.
FairSpec == Spec /\ WF_vars(Step(Supervisor)) /\ WF_vars(JobEnds)

-----------------------------------------------------------------------------
(* Properties *)

TypeOK == /\ seen \subseteq inbox /\ inbox \subseteq Mails /\ broken \subseteq Broken
          /\ record \in [Keys -> {"none", "invalid", "claimed"}]
          /\ pipe \in {"idle", "waiting", "busy"} /\ faults \in 0 .. MaxFaults
          /\ \A p \in Pollers : /\ poll[p].todo \subseteq inbox
                                /\ poll[p].pc \notin {"rest", "fetch", "next"}
                                     => poll[p].cur \in inbox

\* A Message-ID becomes at most one job, whoever polls, however often it is delivered.
MessageOnce == \A i, j \in jobs : i.key = j.key => i = j

\* Two jobs never share a name: a reused job_id gets a suffix of its own.
NamesDistinct == \A i, j \in jobs : i.name = j.name => i = j

\* A mail is marked as read only when its film has been accepted as a job, unless its
\* payload was malformed when it came: nothing that was asked for is silently put away.
NothingPutAway ==
    \A u \in seen : u \in Broken \/ \E j \in jobs : /\ j.content = Mail[u].content
                                                     /\ j.name[1] = Mail[u].id

\* No mail of a stranger becomes a job or is marked as read.
StrangersIgnored == /\ \A u \in seen : Mail[u].trusted
                    /\ \A j \in jobs : \E u \in Mails : Mail[u].trusted /\ Mail[u].key = j.key

\* A message is accepted at most once and put away only when it has been dealt with.
MailConsistent == TypeOK /\ MessageOnce /\ NamesDistinct /\ NothingPutAway /\ StrangersIgnored

\* A readable mail of the author is dealt with: claimed, or put away as read.
MailHandled == \A u \in Mails :
    (u \in inbox /\ Mail[u].trusted /\ u \notin broken)
      ~> (record[Mail[u].key] = "claimed" \/ u \in seen)
=============================================================================
